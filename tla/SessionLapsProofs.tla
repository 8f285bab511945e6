------------------------- MODULE SessionLapsProofs -------------------------
(***************************************************************************)
(* Theorems about SessionLaps, for any sessions, lap entries and bounds.   *)
(*                                                                         *)
(* Rows are only as good as the packets and the messages they come from,   *)
(* so what is inductive is the way of a value from the game to the table:  *)
(*   TypeOK       types                                                    *)
(*   LapsShown    the game has shown every lap it lists                    *)
(*   PacketsShown so has every history packet, for its completed laps      *)
(*   MessagesShown  and every lap message                                  *)
(*   RowsWereReported                                                      *)
(* CacheIsBacked (with finiteness, LossesPay) is inductive beside them: a  *)
(* lost message suppresses one lap at once.  StaleRowsCostAChange is not:  *)
(* a row is stale long after the change that makes it so.  What a change   *)
(* costs is counted at once by Contested, which no other step adds to.     *)
(***************************************************************************)
EXTENDS SessionLaps, SequenceTheorems, FiniteSetTheorems, TLAPS

-----------------------------------------------------------------------------
(* Sequences *)

\* A queue that grows at its end, and that loses its head.
LEMMA ToSetOfQueue ==
  ASSUME NEW S, NEW q \in Seq(S)
  PROVE  /\ \A r \in Seq(S) : ToSet(q \o r) = ToSet(q) \cup ToSet(r)
         /\ ToSet(q) \subseteq S
         /\ q # <<>> => /\ Head(q) \in ToSet(q)
                        /\ ToSet(q) = ToSet(Tail(q)) \cup {Head(q)}
PROOF
  <1>1. ASSUME NEW r \in Seq(S) PROVE ToSet(q \o r) = ToSet(q) \cup ToSet(r)
    <2>1. /\ ToSet(q \o r) = Range(q \o r)
          /\ ToSet(q) = Range(q) /\ ToSet(r) = Range(r)
      BY DEF ToSet, Range
    <2> QED BY <2>1, RangeConcatenation
  <1>2. ToSet(q) \subseteq S
    BY RangeOfSeq DEF ToSet, Range
  <1>3. ASSUME q # <<>>
        PROVE  /\ Head(q) \in ToSet(q)
               /\ ToSet(q) = ToSet(Tail(q)) \cup {Head(q)}
    <2>1. /\ Len(q) \in Nat \ {0} /\ DOMAIN q = 1..Len(q)
          /\ DOMAIN Tail(q) = 1..(Len(q) - 1) /\ Head(q) = q[1]
          /\ \A i \in 1..(Len(q) - 1) : Tail(q)[i] = q[i + 1]
      BY <1>3, HeadTailProperties, EmptySeq, LenProperties
    <2>2. \A i \in DOMAIN q : q[i] \in ToSet(Tail(q)) \cup {Head(q)}
      <3> SUFFICES ASSUME NEW i \in DOMAIN q, i # 1 PROVE q[i] \in ToSet(Tail(q))
        BY <2>1
      <3>1. i - 1 \in 1..(Len(q) - 1) /\ Tail(q)[i - 1] = q[i]
        BY <2>1
      <3> QED BY <2>1, <3>1 DEF ToSet
    <2>3. \A i \in DOMAIN Tail(q) : i + 1 \in DOMAIN q /\ Tail(q)[i] = q[i + 1]
      BY <2>1
    <2>4. Head(q) \in ToSet(q)
      BY <2>1 DEF ToSet
    <2>5. ToSet(q) \subseteq ToSet(Tail(q)) \cup {Head(q)}
      BY <2>2 DEF ToSet
    <2>6. ToSet(Tail(q)) \subseteq ToSet(q)
      BY <2>3 DEF ToSet
    <2> QED BY <2>4, <2>5, <2>6
  <1> QED BY <1>1, <1>2, <1>3

\* Front takes the last entry of a list away.
LEMMA FrontProperties ==
  ASSUME NEW S, NEW q \in Seq(S), q # <<>>
  PROVE  /\ Len(q) \in Nat \ {0}
         /\ Front(q) \in Seq(S)
         /\ Len(Front(q)) = Len(q) - 1
         /\ \A i \in 1..(Len(q) - 1) : Front(q)[i] = q[i]
PROOF
  <1>1. Len(q) \in Nat \ {0} /\ \A i \in 1..Len(q) : q[i] \in S
    BY EmptySeq, ElementOfSeq
  <1>2. \A i \in 1..(Len(q) - 1) : q[i] \in S
    BY <1>1
  <1> DEFINE n == Len(q) - 1
  <1>3. n \in Nat
    BY <1>1
  <1>4. Front(q) = SubSeq(q, 1, n)
    BY DEF Front
  <1> HIDE DEF n
  <1>5. /\ SubSeq(q, 1, n) \in Seq(S)
        /\ Len(SubSeq(q, 1, n)) = IF 1 <= n THEN n - 1 + 1 ELSE 0
        /\ \A i \in 1..(n - 1 + 1) : SubSeq(q, 1, n)[i] = q[1 + i - 1]
    BY <1>2, <1>3, SubSeqProperties DEF n
  <1>6. /\ Len(Front(q)) = n
        /\ \A i \in 1..n : Front(q)[i] = q[i]
    BY <1>3, <1>4, <1>5
  <1> QED BY <1>1, <1>4, <1>5, <1>6 DEF n

-----------------------------------------------------------------------------
(* The way of a lap entry from the game to the table *)

Packet == [session : Sessions, laps : Seq(Values \cup {Partial})]

\* The entry of lap n + 1 that the game shows for the session s.
LapsShown ==
    \A s \in Sessions :
        /\ Len(laps[s]) <= MaxLap
        /\ \A i \in 1..Len(laps[s]) : laps[s][i] \in reported[s][i - 1]

\* All entries of h but the one in progress have been shown.
Shown(h) ==
    /\ h \in Packet
    /\ Len(h.laps) <= MaxLap + 1
    /\ \A i \in 1..(Len(h.laps) - 1) : h.laps[i] \in reported[h.session][i - 1]

PacketsShown == \A h \in datagrams \cup captured : Shown(h)

MessagesShown ==
    \A m \in ToSet(outbox) \cup writers : m.value \in reported[m.session][m.lap]

ReportInv ==
    /\ TypeOK
    /\ LapsShown
    /\ PacketsShown
    /\ MessagesShown
    /\ RowsWereReported

\* What the game shows is never taken back.
LEMMA ReportEffect ==
  ASSUME TypeOK, NEW s \in Sessions, NEW n \in LapNums, NEW v \in Values,
         reported' = [reported EXCEPT ![s][n] = @ \cup {v}]
  PROVE  /\ reported' \in [Sessions -> [LapNums -> SUBSET Values]]
         /\ v \in reported'[s][n]
         /\ \A t \in Sessions, k \in LapNums :
               reported'[t][k] = IF t = s /\ k = n THEN reported[t][k] \cup {v}
                                                   ELSE reported[t][k]
  BY DEF TypeOK

\* While the game shows more and nothing else changes, what is on its way
\* stays something the game has shown.
LEMMA ReportedGrows ==
  ASSUME ReportInv,
         \A t \in Sessions, k \in LapNums : reported[t][k] \subseteq reported'[t][k],
         UNCHANGED <<datagrams, captured, ingestVars, persistVars>>
  PROVE  PacketsShown' /\ MessagesShown' /\ RowsWereReported'
PROOF
  <1> USE DEF ingestVars, persistVars
  <1>1. PacketsShown'
    <2> SUFFICES ASSUME NEW h \in datagrams \cup captured PROVE Shown(h)'
      BY DEF PacketsShown
    <2>1. Shown(h) /\ h.session \in Sessions /\ Len(h.laps) \in Nat
      BY LenProperties DEF ReportInv, PacketsShown, Shown, Packet
    <2>2. \A i \in 1..(Len(h.laps) - 1) : i - 1 \in LapNums
      BY <2>1, SessionLapsAssumption DEF Shown, LapNums
    <2> QED BY <2>1, <2>2 DEF Shown
  <1>2. MessagesShown'
    <2> SUFFICES ASSUME NEW m \in ToSet(outbox) \cup writers
                 PROVE  m.value \in reported'[m.session][m.lap]
      BY DEF MessagesShown
    <2>1. m \in LapMessage
      BY ToSetOfQueue DEF ReportInv, TypeOK
    <2> QED BY <2>1 DEF ReportInv, MessagesShown, LapMessage
  <1>3. RowsWereReported'
    BY DEF ReportInv, RowsWereReported, Stored
  <1> QED BY <1>1, <1>2, <1>3

\* handlePacket sends a message for each completed lap of a packet, and only
\* for those.
LEMMA LapMessagesOf ==
  ASSUME ReportInv, NEW h, Shown(h), CompletedLaps(h) > 0
  PROVE  /\ CompletedLaps(h) \in 1..MaxLap
         /\ LapMessages(h) \in Seq(LapMessage)
         /\ \A m \in ToSet(LapMessages(h)) : m.value \in reported[m.session][m.lap]
         /\ \A n \in 0..(CompletedLaps(h) - 1) :
               \E m \in ToSet(LapMessages(h)) : m.session = h.session /\ m.lap = n
PROOF
  <1> DEFINE N == CompletedLaps(h)
             e(i) == [session |-> h.session, lap |-> i - 1, value |-> h.laps[i]]
  <1>1. Len(h.laps) \in Nat /\ h.session \in Sessions
    BY LenProperties DEF Shown, Packet
  <1>2. N \in 1..MaxLap
    BY <1>1, SessionLapsAssumption DEF Shown, CompletedLaps
  <1>3. ASSUME NEW i \in 1..N
        PROVE  e(i) \in LapMessage /\ e(i).value \in reported[h.session][i - 1]
    <2>1. i \in 1..(Len(h.laps) - 1) /\ i - 1 \in LapNums
      BY <1>1, <1>2, SessionLapsAssumption DEF CompletedLaps, LapNums
    <2>2. h.laps[i] \in reported[h.session][i - 1]
      BY <2>1 DEF Shown
    <2>3. h.laps[i] \in Values
      BY <1>1, <2>1, <2>2 DEF ReportInv, TypeOK
    <2> QED BY <1>1, <2>1, <2>2, <2>3 DEF LapMessage
  <1>4. LapMessages(h) = [i \in 1..N |-> e(i)]
    BY DEF LapMessages
  <1>5. LapMessages(h) \in Seq(LapMessage)
    <2>1. \A i \in 1..N : e(i) \in LapMessage
      BY <1>3
    <2>2. N \in Nat
      BY <1>2, SessionLapsAssumption
    <2> HIDE DEF N, e
    <2>3. [i \in 1..N |-> e(i)] \in Seq(LapMessage)
      BY <2>1, <2>2, IsASeq
    <2> QED BY <1>4, <2>3
  <1>6. DOMAIN LapMessages(h) = 1..N /\ \A i \in 1..N : LapMessages(h)[i] = e(i)
    BY <1>4
  <1>7. \A m \in ToSet(LapMessages(h)) : m.value \in reported[m.session][m.lap]
    BY <1>3, <1>6 DEF ToSet
  <1>8. ASSUME NEW n \in 0..(N - 1)
        PROVE  \E m \in ToSet(LapMessages(h)) : m.session = h.session /\ m.lap = n
    <2>1. n + 1 \in 1..N /\ e(n + 1).lap = n
      BY <1>2, SessionLapsAssumption
    <2>2. e(n + 1) \in ToSet(LapMessages(h))
      BY <1>6, <2>1 DEF ToSet
    <2> QED BY <2>1, <2>2
  <1> QED BY <1>2, <1>5, <1>7, <1>8

-----------------------------------------------------------------------------
(* Every step keeps it *)

\* A lap that ends.
LEMMA FinishLapKeeps ==
  ASSUME ReportInv, NEW s \in Sessions, NEW v \in Values, FinishLap(s, v)
  PROVE  ReportInv'
PROOF
  <1> DEFINE n == Len(laps[s])
  <1>1. /\ laps[s] \in Seq(Values) /\ n \in Nat /\ n \in LapNums
        /\ Append(laps[s], v) \in Seq(Values) /\ Len(Append(laps[s], v)) = n + 1
        /\ \A i \in 1..n : Append(laps[s], v)[i] = laps[s][i]
        /\ Append(laps[s], v)[n + 1] = v
    BY LenProperties, AppendProperties, SessionLapsAssumption
    DEF ReportInv, TypeOK, FinishLap, LapNums
  <1>2. laps' \in [Sessions -> Seq(Values)] /\ laps' = [laps EXCEPT ![s] = Append(laps[s], v)]
    BY <1>1 DEF ReportInv, TypeOK, FinishLap
  <1>3. /\ reported' \in [Sessions -> [LapNums -> SUBSET Values]]
        /\ v \in reported'[s][n]
        /\ \A t \in Sessions, k \in LapNums : reported[t][k] \subseteq reported'[t][k]
    <2>1. /\ TypeOK /\ n \in LapNums
          /\ reported' = [reported EXCEPT ![s][n] = @ \cup {v}]
      BY <1>1 DEF ReportInv, FinishLap, Report
    <2> HIDE DEF n
    <2>2. /\ reported' \in [Sessions -> [LapNums -> SUBSET Values]]
          /\ v \in reported'[s][n]
          /\ \A t \in Sessions, k \in LapNums :
                reported'[t][k] = IF t = s /\ k = n THEN reported[t][k] \cup {v}
                                                    ELSE reported[t][k]
      BY <2>1, ReportEffect
    <2> QED BY <2>2
  <1>4. PacketsShown' /\ MessagesShown' /\ RowsWereReported'
    <2>1. UNCHANGED <<datagrams, captured, ingestVars, persistVars>>
      BY DEF FinishLap
    <2> QED BY <1>3, <2>1, ReportedGrows
  <1>5. LapsShown'
    <2> SUFFICES ASSUME NEW t \in Sessions
                 PROVE  /\ Len(laps'[t]) <= MaxLap
                        /\ \A i \in 1..Len(laps'[t]) : laps'[t][i] \in reported'[t][i - 1]
      BY DEF LapsShown
    <2>1. CASE t = s
      <3>1. laps'[t] = Append(laps[s], v) /\ Len(laps'[t]) = n + 1
        BY <1>1, <1>2, <2>1 DEF ReportInv, TypeOK
      <3>2. n + 1 <= MaxLap
        BY <1>1, SessionLapsAssumption DEF FinishLap
      <3>3. ASSUME NEW i \in 1..(n + 1) PROVE laps'[t][i] \in reported'[t][i - 1]
        <4>1. CASE i = n + 1
          BY <1>1, <1>3, <2>1, <3>1, <4>1
        <4>2. CASE i \in 1..n
          <5>1. i - 1 \in LapNums
            BY <1>1, <4>2, SessionLapsAssumption DEF LapNums
          <5> QED BY <1>1, <1>3, <2>1, <3>1, <4>2, <5>1 DEF ReportInv, LapsShown
        <4> QED BY <1>1, <4>1, <4>2
      <3> QED BY <3>1, <3>2, <3>3
    <2>2. CASE t # s
      <3>1. laps'[t] = laps[t] /\ Len(laps[t]) \in Nat /\ Len(laps[t]) <= MaxLap
        BY <1>2, <2>2, LenProperties DEF ReportInv, TypeOK, LapsShown
      <3>2. \A i \in 1..Len(laps[t]) : i - 1 \in LapNums
        BY <3>1, SessionLapsAssumption DEF LapNums
      <3> QED BY <1>3, <3>1, <3>2 DEF ReportInv, LapsShown
    <2> QED BY <2>1, <2>2
  <1> QED
    BY <1>2, <1>3, <1>4, <1>5
    DEF ReportInv, FinishLap, TypeOK, ingestVars, persistVars

\* The last lap is amended.
LEMMA AmendLastLapKeeps ==
  ASSUME ReportInv, NEW s \in Sessions, NEW v \in Values, AmendLastLap(s, v)
  PROVE  ReportInv'
PROOF
  <1> DEFINE n == Len(laps[s]) - 1
             l == Append(Front(laps[s]), v)
  <1>1. /\ laps[s] \in Seq(Values) /\ laps[s] # <<>>
        /\ n \in Nat /\ Front(laps[s]) \in Seq(Values)
        /\ Len(Front(laps[s])) = n
        /\ \A i \in 1..n : Front(laps[s])[i] = laps[s][i]
    BY FrontProperties DEF ReportInv, TypeOK, AmendLastLap
  <1>2. /\ l \in Seq(Values) /\ Len(l) = n + 1 /\ l[n + 1] = v
        /\ \A i \in 1..n : l[i] = laps[s][i]
    BY <1>1, AppendProperties
  <1>3. n \in LapNums /\ n + 1 <= MaxLap
    BY <1>1, SessionLapsAssumption DEF ReportInv, LapsShown, LapNums
  <1>4. laps' \in [Sessions -> Seq(Values)] /\ laps' = [laps EXCEPT ![s] = l]
    BY <1>2 DEF ReportInv, TypeOK, AmendLastLap
  <1>5. /\ reported' \in [Sessions -> [LapNums -> SUBSET Values]]
        /\ v \in reported'[s][n]
        /\ \A t \in Sessions, k \in LapNums : reported[t][k] \subseteq reported'[t][k]
    <2>1. /\ TypeOK /\ n \in LapNums
          /\ reported' = [reported EXCEPT ![s][n] = @ \cup {v}]
      BY <1>3 DEF ReportInv, AmendLastLap, Report
    <2> HIDE DEF n
    <2>2. /\ reported' \in [Sessions -> [LapNums -> SUBSET Values]]
          /\ v \in reported'[s][n]
          /\ \A t \in Sessions, k \in LapNums :
                reported'[t][k] = IF t = s /\ k = n THEN reported[t][k] \cup {v}
                                                    ELSE reported[t][k]
      BY <2>1, ReportEffect
    <2> QED BY <2>2
  <1>6. PacketsShown' /\ MessagesShown' /\ RowsWereReported'
    <2>1. UNCHANGED <<datagrams, captured, ingestVars, persistVars>>
      BY DEF AmendLastLap
    <2> QED BY <1>5, <2>1, ReportedGrows
  <1>7. LapsShown'
    <2> SUFFICES ASSUME NEW t \in Sessions
                 PROVE  /\ Len(laps'[t]) <= MaxLap
                        /\ \A i \in 1..Len(laps'[t]) : laps'[t][i] \in reported'[t][i - 1]
      BY DEF LapsShown
    <2>1. CASE t = s
      <3>1. laps'[t] = l
        BY <1>4, <2>1 DEF ReportInv, TypeOK
      <3>2. ASSUME NEW i \in 1..(n + 1) PROVE laps'[t][i] \in reported'[t][i - 1]
        <4>1. CASE i = n + 1
          <5>1. laps'[t][i] = v
            BY <1>2, <3>1, <4>1
          <5>2. i - 1 = n
            BY <1>1, <4>1
          <5> QED BY <1>5, <2>1, <5>1, <5>2
        <4>2. CASE i \in 1..n
          <5>1. Len(laps[s]) = n + 1 /\ n \in Nat /\ MaxLap \in Nat
            BY <1>1, LenProperties, SessionLapsAssumption
          <5>2. i - 1 \in LapNums /\ i \in 1..Len(laps[s])
            <6> HIDE DEF n
            <6> QED BY <1>3, <4>2, <5>1 DEF LapNums
          <5> QED BY <1>2, <1>5, <2>1, <3>1, <4>2, <5>2 DEF ReportInv, LapsShown
        <4> QED BY <1>1, <4>1, <4>2
      <3> QED BY <1>2, <1>3, <3>1, <3>2
    <2>2. CASE t # s
      <3>1. laps'[t] = laps[t] /\ Len(laps[t]) \in Nat /\ Len(laps[t]) <= MaxLap
        BY <1>4, <2>2, LenProperties DEF ReportInv, TypeOK, LapsShown
      <3>2. \A i \in 1..Len(laps[t]) : i - 1 \in LapNums
        BY <3>1, SessionLapsAssumption DEF LapNums
      <3> QED BY <1>5, <3>1, <3>2 DEF ReportInv, LapsShown
    <2> QED BY <2>1, <2>2
  <1>8. changes' \in 0..MaxChanges
    BY SessionLapsAssumption DEF ReportInv, TypeOK, AmendLastLap
  <1> QED
    BY <1>4, <1>5, <1>6, <1>7, <1>8
    DEF ReportInv, AmendLastLap, TypeOK, ingestVars, persistVars

\* A flashback takes the last lap back: the list is shorter, and what was
\* shown stays shown.
LEMMA FlashbackKeeps ==
  ASSUME ReportInv, NEW s \in Sessions, Flashback(s)
  PROVE  ReportInv'
PROOF
  <1>1. /\ laps[s] \in Seq(Values) /\ Len(laps[s]) \in Nat \ {0}
        /\ Front(laps[s]) \in Seq(Values)
        /\ Len(Front(laps[s])) = Len(laps[s]) - 1
        /\ \A i \in 1..(Len(laps[s]) - 1) : Front(laps[s])[i] = laps[s][i]
    BY FrontProperties DEF ReportInv, TypeOK, Flashback
  <1>2. /\ laps' \in [Sessions -> Seq(Values)]
        /\ laps' = [laps EXCEPT ![s] = Front(laps[s])]
        /\ reported' = reported
    BY <1>1 DEF ReportInv, TypeOK, Flashback
  <1>3. PacketsShown' /\ MessagesShown' /\ RowsWereReported'
    <2>1. UNCHANGED <<datagrams, captured, ingestVars, persistVars>>
      BY DEF Flashback
    <2> QED BY <1>2, <2>1, ReportedGrows
  <1>4. LapsShown'
    <2> SUFFICES ASSUME NEW t \in Sessions
                 PROVE  /\ Len(laps'[t]) <= MaxLap
                        /\ \A i \in 1..Len(laps'[t]) : laps'[t][i] \in reported'[t][i - 1]
      BY DEF LapsShown
    <2>1. CASE t = s
      <3>1. laps'[t] = Front(laps[s])
        BY <1>2, <2>1 DEF ReportInv, TypeOK
      <3>2. \A i \in 1..Len(laps[s]) : laps[s][i] \in reported[s][i - 1]
        BY DEF ReportInv, LapsShown
      <3>3. Len(laps[s]) <= MaxLap /\ MaxLap \in Nat
        BY SessionLapsAssumption DEF ReportInv, LapsShown
      <3>4. \A i \in 1..(Len(laps[s]) - 1) : i \in 1..Len(laps[s])
        BY <1>1
      <3>5. Len(laps'[t]) = Len(laps[s]) - 1
        BY <1>1, <3>1
      <3>6. \A i \in 1..(Len(laps[s]) - 1) : laps'[t][i] = laps[s][i] /\ reported'[t] = reported[s]
        BY <1>1, <1>2, <2>1, <3>1
      <3>7. \A i \in 1..Len(laps'[t]) : laps'[t][i] \in reported'[t][i - 1]
        BY <3>2, <3>4, <3>5, <3>6
      <3> QED BY <1>1, <3>3, <3>5, <3>7
    <2>2. CASE t # s
      BY <1>2, <2>2 DEF ReportInv, TypeOK, LapsShown
    <2> QED BY <2>1, <2>2
  <1>5. changes' \in 0..MaxChanges
    BY SessionLapsAssumption DEF ReportInv, TypeOK, Flashback
  <1> QED
    BY <1>2, <1>3, <1>4, <1>5
    DEF ReportInv, Flashback, TypeOK, ingestVars, persistVars

\* The packet that lists the laps of s.
LEMMA HistoryShown ==
  ASSUME ReportInv, NEW s \in Sessions
  PROVE  Shown(History(s))
PROOF
  <1>1. /\ laps[s] \in Seq(Values) /\ laps[s] \in Seq(Values \cup {Partial})
        /\ Len(laps[s]) \in Nat /\ Len(laps[s]) <= MaxLap
        /\ \A i \in 1..Len(laps[s]) : laps[s][i] \in reported[s][i - 1]
    <2>1. laps[s] \in Seq(Values) /\ Values \subseteq Values \cup {Partial}
      BY DEF ReportInv, TypeOK
    <2>2. laps[s] \in Seq(Values \cup {Partial})
      BY <2>1, SeqMonotonic
    <2> QED BY <2>1, <2>2, LenProperties DEF ReportInv, LapsShown
  <1>2. CASE s \in over
    <2>1. History(s) = [session |-> s, laps |-> laps[s]]
      BY <1>2 DEF History
    <2> QED BY <1>1, <2>1, SessionLapsAssumption DEF Shown, Packet
  <1>3. CASE s \notin over
    <2> DEFINE l == Append(laps[s], Partial)
    <2>1. /\ l \in Seq(Values \cup {Partial}) /\ Len(l) = Len(laps[s]) + 1
          /\ \A i \in 1..Len(laps[s]) : l[i] = laps[s][i]
      BY <1>1, AppendProperties
    <2>2. History(s) = [session |-> s, laps |-> l]
      BY <1>3 DEF History
    <2> HIDE DEF l
    <2>3. History(s) \in Packet /\ History(s).session = s /\ History(s).laps = l
      BY <2>1, <2>2 DEF Packet
    <2>4. Len(l) - 1 = Len(laps[s]) /\ Len(l) <= MaxLap + 1
      BY <1>1, <2>1, SessionLapsAssumption
    <2> QED BY <1>1, <2>1, <2>3, <2>4 DEF Shown
  <1> QED BY <1>2, <1>3

\* A packet that arrives, by SendHistory or Replay.
LEMMA ReceivableKeeps ==
  ASSUME ReportInv, NEW h, Shown(h), Receivable(h),
         UNCHANGED <<gameVars, captured, ingestVars, persistVars>>
  PROVE  ReportInv'
PROOF
  <1> USE DEF gameVars, ingestVars, persistVars
  <1>1. PacketsShown'
    BY DEF ReportInv, PacketsShown, Shown, Receivable
  <1>2. TypeOK'
    BY DEF ReportInv, TypeOK, Receivable, Shown, Packet
  <1> QED BY <1>1, <1>2 DEF ReportInv, LapsShown, MessagesShown, RowsWereReported, Stored

\* What handlePacket does to the cache and the queue: nothing, or it counts
\* and queues all the completed laps of the packet.
LEMMA HandleEffect ==
  ASSUME ReportInv, NEW h \in datagrams, HandleHistory(h)
  PROVE  /\ Shown(h) /\ Shown(h)'
         /\ datagrams' \subseteq datagrams /\ captured' \subseteq captured \cup {h}
         /\ UNCHANGED <<gameVars, unsent, restarts, persistVars>>
         /\ \/ UNCHANGED <<latest, outbox>>
            \/ /\ CompletedLaps(h) > 0
               /\ latest' = [latest EXCEPT ![h.session] = CompletedLaps(h)]
               /\ outbox' = outbox \o LapMessages(h)
PROOF
  <1>1. Shown(h) /\ h.session \in Sessions /\ Len(h.laps) \in Nat
    BY LenProperties DEF ReportInv, PacketsShown, Shown, Packet
  <1>2. Shown(h)'
    BY <1>1 DEF Shown, HandleHistory, gameVars
  <1>3. datagrams' \subseteq datagrams /\ captured' \subseteq captured \cup {h}
    BY DEF HandleHistory, Capture
  <1>4. UNCHANGED <<gameVars, unsent, restarts, persistVars>>
    BY DEF HandleHistory
  <1>5. \/ UNCHANGED <<latest, outbox>>
        \/ /\ CompletedLaps(h) > 0
           /\ latest' = [latest EXCEPT ![h.session] = CompletedLaps(h)]
           /\ outbox' = outbox \o LapMessages(h)
    <2>1. CompletedLaps(h) \in Int /\ latest \in [Sessions -> Nat]
      BY <1>1, SessionLapsAssumption DEF CompletedLaps, ReportInv, TypeOK
    <2> QED BY <1>1, <2>1 DEF HandleHistory, Get, Set
  <1> QED BY <1>1, <1>2, <1>3, <1>4, <1>5

\* Ingest handles a history packet.
LEMMA HandleHistoryKeeps ==
  ASSUME ReportInv, NEW h \in datagrams, HandleHistory(h)
  PROVE  ReportInv'
PROOF
  <1> USE DEF gameVars, persistVars
  <1>1. PacketsShown'
    <2> SUFFICES ASSUME NEW g \in datagrams' \cup captured' PROVE Shown(g)'
      BY DEF PacketsShown
    <2>1. g = h \/ g \in datagrams \cup captured
      BY HandleEffect
    <2>2. g \in datagrams \cup captured => Shown(g)
      BY DEF ReportInv, PacketsShown
    <2>3. UNCHANGED reported
      BY HandleEffect
    <2> QED BY <2>1, <2>2, <2>3, HandleEffect DEF Shown
  <1>2. /\ latest' \in [Sessions -> 0..MaxLap] /\ outbox' \in Seq(LapMessage)
        /\ MessagesShown'
    <2>1. CASE UNCHANGED <<latest, outbox>>
      BY <2>1, HandleEffect DEF ReportInv, TypeOK, MessagesShown
    <2>2. CASE /\ CompletedLaps(h) > 0
               /\ latest' = [latest EXCEPT ![h.session] = CompletedLaps(h)]
               /\ outbox' = outbox \o LapMessages(h)
      <3>1. /\ CompletedLaps(h) \in 1..MaxLap
            /\ LapMessages(h) \in Seq(LapMessage)
            /\ \A m \in ToSet(LapMessages(h)) : m.value \in reported[m.session][m.lap]
        BY <2>2, HandleEffect, LapMessagesOf
      <3>2. latest' \in [Sessions -> 0..MaxLap]
        BY <2>2, <3>1, SessionLapsAssumption DEF ReportInv, TypeOK
      <3>3. /\ outbox' \in Seq(LapMessage)
            /\ ToSet(outbox') = ToSet(outbox) \cup ToSet(LapMessages(h))
        BY <2>2, <3>1, ConcatProperties, ToSetOfQueue DEF ReportInv, TypeOK
      <3>4. MessagesShown'
        BY <3>1, <3>3, HandleEffect DEF ReportInv, MessagesShown
      <3> QED BY <3>2, <3>3, <3>4
    <2> QED BY <2>1, <2>2, HandleEffect
  <1>3. \A g \in datagrams' \cup captured' : g \in Packet
    BY <1>1 DEF PacketsShown, Shown
  <1>4. UNCHANGED <<laps, reported, over, changes, unsent, restarts, writers, losses, db>>
    BY HandleEffect
  <1> QED
    BY <1>1, <1>2, <1>3, <1>4
    DEF ReportInv, TypeOK, LapsShown, RowsWereReported, Stored, Packet

\* The publisher takes the first message, and may fail.
LEMMA PublishKeeps ==
  ASSUME ReportInv, Publish \/ PublishFails
  PROVE  ReportInv'
PROOF
  <1> USE DEF gameVars, persistVars
  <1>1. /\ outbox \in Seq(LapMessage) /\ outbox # <<>> /\ outbox' = Tail(outbox)
        /\ writers' \subseteq writers \cup {Head(outbox)}
        /\ UNCHANGED <<gameVars, datagrams, captured, latest, restarts, losses, db>>
    BY DEF Publish, PublishFails, ReportInv, TypeOK
  <1>2. /\ outbox' \in Seq(LapMessage) /\ Head(outbox) \in LapMessage
        /\ ToSet(outbox) = ToSet(outbox') \cup {Head(outbox)}
    BY <1>1, HeadTailProperties, ToSetOfQueue
  <1>3. unsent' \in Nat /\ unsent' + losses <= MaxLosses
    <2>1. /\ unsent \in Nat /\ losses \in Nat /\ unsent + losses <= MaxLosses
          /\ unsent' = unsent \/ (unsent' = unsent + 1 /\ unsent + losses < MaxLosses)
      BY DEF Publish, PublishFails, MayLose, ReportInv, TypeOK
    <2> QED BY <2>1, SessionLapsAssumption
  <1>4. TypeOK'
    BY <1>1, <1>2, <1>3 DEF ReportInv, TypeOK
  <1>5. MessagesShown'
    BY <1>1, <1>2 DEF ReportInv, MessagesShown
  <1> QED
    BY <1>1, <1>4, <1>5
    DEF ReportInv, LapsShown, PacketsShown, Shown, RowsWereReported, Stored

\* The INSERT of a lap row keeps an older row.
LEMMA WriteLapRowKeeps ==
  ASSUME ReportInv, NEW m \in writers, WriteLapRow(m)
  PROVE  /\ ReportInv'
         /\ \A s \in Sessions, n \in LapNums :
               /\ db[s][n] # None => db'[s][n] = db[s][n]
               /\ s = m.session /\ n = m.lap => db'[s][n] # None
PROOF
  <1> USE DEF gameVars, ingestVars
  <1>1. /\ m.session \in Sessions /\ m.lap \in LapNums /\ m.value \in Values
        /\ m.value \in reported[m.session][m.lap] /\ m.value # None
    BY SessionLapsAssumption DEF ReportInv, TypeOK, LapMessage, MessagesShown
  <1>2. CASE db[m.session][m.lap] = None
    <2>1. /\ db' \in [Sessions -> [LapNums -> Values \cup {None}]]
          /\ \A s \in Sessions, n \in LapNums :
                db'[s][n] = IF s = m.session /\ n = m.lap THEN m.value ELSE db[s][n]
      BY <1>1, <1>2 DEF WriteLapRow, ReportInv, TypeOK
    <2>2. RowsWereReported'
      BY <1>1, <2>1 DEF ReportInv, RowsWereReported, Stored, WriteLapRow
    <2>3. ReportInv'
      BY <2>1, <2>2
      DEF WriteLapRow, ReportInv, TypeOK, LapsShown, PacketsShown, Shown, MessagesShown
    <2> QED BY <1>1, <1>2, <2>1, <2>3
  <1>3. CASE db[m.session][m.lap] # None
    <2>1. db' = db
      BY <1>3 DEF WriteLapRow
    <2>2. ReportInv'
      BY <2>1
      DEF WriteLapRow, ReportInv, TypeOK, LapsShown, PacketsShown, Shown, MessagesShown,
          RowsWereReported, Stored
    <2> QED BY <1>3, <2>1, <2>2
  <1> QED BY <1>2, <1>3

\* ReportInv is inductive.
LEMMA ReportInvInductive == Spec => []ReportInv
PROOF
  <1>1. Init => ReportInv
    <2> SUFFICES ASSUME Init PROVE ReportInv
      OBVIOUS
    <2>1. /\ <<>> \in Seq(Values) /\ <<>> \in Seq(LapMessage) /\ Len(<<>>) = 0
          /\ ToSet(<<>>) = {}
      BY EmptySeq DEF ToSet
    <2>2. 0 \in 0..MaxLap /\ 0 \in 0..MaxChanges /\ 0 \in 0..MaxRestarts /\ 0 <= MaxLosses
      BY SessionLapsAssumption
    <2>3. TypeOK
      BY <2>1, <2>2 DEF Init, TypeOK
    <2>4. LapsShown
      BY <2>1, <2>2 DEF Init, LapsShown
    <2>5. RowsWereReported
      BY DEF Init, RowsWereReported, Stored
    <2> QED BY <2>1, <2>3, <2>4, <2>5 DEF ReportInv, Init, PacketsShown, MessagesShown
  <1>2. ReportInv /\ [Next]_vars => ReportInv'
    <2> SUFFICES ASSUME ReportInv, [Next]_vars PROVE ReportInv'
      OBVIOUS
    <2>1. ASSUME NEW s \in Sessions, NEW v \in Values, FinishLap(s, v) \/ AmendLastLap(s, v)
          PROVE  ReportInv'
      BY <2>1, FinishLapKeeps, AmendLastLapKeeps
    <2>2. ASSUME NEW s \in Sessions, Flashback(s) PROVE ReportInv'
      BY <2>2, FlashbackKeeps
    <2>3. ASSUME NEW s \in Sessions, EndSession(s) PROVE ReportInv'
      BY <2>3
      DEF EndSession, ingestVars, persistVars, ReportInv, TypeOK, LapsShown,
          PacketsShown, Shown, MessagesShown, RowsWereReported, Stored
    <2>4. ASSUME NEW s \in Sessions, SendHistory(s) PROVE ReportInv'
      BY <2>4, HistoryShown, ReceivableKeeps DEF SendHistory
    <2>5. ASSUME NEW h \in captured, Replay(h) PROVE ReportInv'
      BY <2>5, ReceivableKeeps DEF Replay, ReportInv, PacketsShown
    <2>6. ASSUME NEW h \in datagrams, LoseDatagram(h) PROVE ReportInv'
      BY <2>6
      DEF LoseDatagram, gameVars, ingestVars, persistVars, ReportInv, TypeOK,
          LapsShown, PacketsShown, Shown, MessagesShown, RowsWereReported, Stored
    <2>7. ASSUME NEW h \in datagrams, HandleHistory(h) PROVE ReportInv'
      BY <2>7, HandleHistoryKeeps
    <2>8. CASE Publish \/ PublishFails
      BY <2>8, PublishKeeps
    <2>9. CASE RestartIngest
      <3>1. <<>> \in Seq(LapMessage) /\ ToSet(<<>>) = {}
        BY EmptySeq DEF ToSet
      <3>2. /\ UNCHANGED <<laps, reported, over, changes, datagrams, captured, unsent, writers,
                           losses, db>>
            /\ outbox' = <<>> /\ latest' = [s \in Sessions |-> 0]
            /\ restarts' \in 0..MaxRestarts
        BY <2>9, SessionLapsAssumption
        DEF RestartIngest, gameVars, persistVars, ReportInv, TypeOK
      <3>3. latest' \in [Sessions -> 0..MaxLap]
        BY <3>2, SessionLapsAssumption
      <3>4. TypeOK'
        BY <3>1, <3>2, <3>3 DEF ReportInv, TypeOK
      <3>5. MessagesShown'
        BY <3>1, <3>2 DEF ReportInv, MessagesShown
      <3> QED
        BY <3>2, <3>4, <3>5
        DEF ReportInv, LapsShown, PacketsShown, Shown, RowsWereReported, Stored
    <2>10. ASSUME NEW m \in writers, WriteLapRow(m) PROVE ReportInv'
      BY <2>10, WriteLapRowKeeps
    <2>11. ASSUME NEW m \in writers, LoseRow(m) PROVE ReportInv'
      <3>1. losses' \in Nat /\ unsent + losses' <= MaxLosses
        BY <2>11, SessionLapsAssumption DEF LoseRow, MayLose, ReportInv, TypeOK
      <3>2. /\ UNCHANGED <<laps, reported, over, changes, datagrams, captured, latest, outbox,
                           unsent, restarts, db>>
            /\ writers' \subseteq writers
        BY <2>11 DEF LoseRow, gameVars, ingestVars
      <3>3. TypeOK'
        BY <3>1, <3>2 DEF ReportInv, TypeOK
      <3>4. MessagesShown'
        BY <3>2 DEF ReportInv, MessagesShown
      <3> QED
        BY <3>2, <3>3, <3>4
        DEF ReportInv, LapsShown, PacketsShown, Shown, RowsWereReported, Stored
    <2>12. CASE UNCHANGED vars
      BY <2>12
      DEF vars, gameVars, ingestVars, persistVars, ReportInv, TypeOK, LapsShown,
          PacketsShown, Shown, MessagesShown, RowsWereReported, Stored
    <2> QED
      BY <2>1, <2>2, <2>3, <2>4, <2>5, <2>6, <2>7, <2>8, <2>9, <2>10, <2>11, <2>12
      DEF Next, Game
  <1> QED BY <1>1, <1>2, PTL DEF Spec

\* The lap in progress never becomes a message or a row, and a lap number
\* never leaves the game's list, whatever packets ingest handles again.
THEOREM SessionTypeCorrect == Spec => []TypeOK
PROOF
  <1>1. ReportInv => TypeOK
    BY DEF ReportInv
  <1> QED BY <1>1, ReportInvInductive, PTL

\* A row holds what the game has shown for that completed lap of that
\* session, however packets are repeated, reordered, replayed and lost.
THEOREM RowsAreTrue == Spec => []RowsWereReported
PROOF
  <1>1. ReportInv => RowsWereReported
    BY DEF ReportInv
  <1> QED BY <1>1, ReportInvInductive, PTL

-----------------------------------------------------------------------------
(* The cache *)

\* A set that gains at most one element gains at most one in size.
LEMMA OneMore ==
  ASSUME NEW S, NEW T, NEW x, IsFiniteSet(S), T \subseteq S \cup {x}
  PROVE  IsFiniteSet(T) /\ Cardinality(T) <= Cardinality(S) + 1
PROOF
  <1>1. /\ IsFiniteSet(S \cup {x}) /\ Cardinality(S) \in Nat
        /\ Cardinality(S \cup {x}) <= Cardinality(S) + 1
    <2>1. Cardinality(S) \in Nat
      BY FS_CardinalityType
    <2>2. /\ IsFiniteSet(S \cup {x})
          /\ Cardinality(S \cup {x}) =
                IF x \in S THEN Cardinality(S) ELSE Cardinality(S) + 1
      BY FS_AddElement
    <2> QED BY <2>1, <2>2
  <1>2. /\ IsFiniteSet(T) /\ Cardinality(T) <= Cardinality(S \cup {x})
        /\ Cardinality(T) \in Nat /\ Cardinality(S \cup {x}) \in Nat
    BY <1>1, FS_Subset, FS_CardinalityType
  <1> QED BY <1>1, <1>2

LossesPay ==
    /\ IsFiniteSet(Suppressed)
    /\ Cardinality(Suppressed) <= unsent + losses

\* A step that loses no message suppresses no further lap, one that loses a
\* message suppresses at most the lap of that message.
LEMMA LossesPayIf ==
  ASSUME TypeOK, TypeOK', LossesPay, NEW x,
         \/ Suppressed' \subseteq Suppressed /\ unsent' + losses' = unsent + losses
         \/ Suppressed' \subseteq Suppressed \cup {x} /\ unsent' + losses' = unsent + losses + 1
  PROVE  LossesPay'
PROOF
  <1> DEFINE lost == unsent + losses
             lostNext == unsent' + losses'
  <1>1. lost \in Nat /\ lostNext \in Nat
    BY DEF TypeOK
  <1>2. IsFiniteSet(Suppressed) /\ Cardinality(Suppressed) \in Nat /\ Cardinality(Suppressed) <= lost
    BY FS_CardinalityType DEF LossesPay
  <1> HIDE DEF lost, lostNext
  <1>3. CASE Suppressed' \subseteq Suppressed /\ lostNext = lost
    <2>1. /\ IsFiniteSet(Suppressed')
          /\ Cardinality(Suppressed') <= Cardinality(Suppressed)
          /\ Cardinality(Suppressed') \in Nat
      BY <1>2, <1>3, FS_Subset, FS_CardinalityType
    <2> QED BY <1>1, <1>2, <1>3, <2>1 DEF LossesPay, lostNext
  <1>4. CASE Suppressed' \subseteq Suppressed \cup {x} /\ lostNext = lost + 1
    <2>1. /\ IsFiniteSet(Suppressed')
          /\ Cardinality(Suppressed') <= Cardinality(Suppressed) + 1
          /\ Cardinality(Suppressed') \in Nat
      BY <1>2, <1>4, OneMore, FS_CardinalityType
    <2> QED BY <1>1, <1>2, <1>4, <2>1 DEF LossesPay, lostNext
  <1> QED BY <1>3, <1>4 DEF lost, lostNext

\* Without a change of the cache, a lap that is newly suppressed was on its
\* way before the step, and its row is still not there.
LEMMA SuppressedBy ==
  ASSUME latest' = latest, NEW p \in Suppressed', p \notin Suppressed,
         \A s \in Sessions, n \in LapNums : db[s][n] # None => db'[s][n] # None
  PROVE  \E m \in (ToSet(outbox) \cup writers) \ (ToSet(outbox') \cup writers') :
             m.session = p[1] /\ m.lap = p[2] /\ db'[p[1]][p[2]] = None
PROOF
  <1>1. p \in Sessions \X LapNums /\ p[1] \in Sessions /\ p[2] \in LapNums
    BY DEF Suppressed
  <1>2. db'[p[1]][p[2]] = None
    BY DEF Suppressed, Stored
  <1>3. OnItsWay(p[1], p[2]) /\ ~OnItsWay(p[1], p[2])'
    BY <1>1, <1>2 DEF Suppressed, Stored
  <1> QED BY <1>2, <1>3 DEF OnItsWay

\* No step makes the cache suppress more laps than messages are lost.
LEMMA LossesPayStep ==
  ASSUME ReportInv, ReportInv', LossesPay, [Next]_vars
  PROVE  LossesPay'
PROOF
  <1> USE DEF gameVars, ingestVars, persistVars
  <1>1. /\ TypeOK /\ TypeOK' /\ outbox \in Seq(LapMessage)
        /\ unsent \in Nat /\ losses \in Nat
        /\ unsent' \in Nat /\ losses' \in Nat
    BY DEF ReportInv, TypeOK
  <1>2. ASSUME Suppressed' \subseteq Suppressed, UNCHANGED <<unsent, losses>>
        PROVE  LossesPay'
    BY <1>1, <1>2, LossesPayIf
  <1>3. ASSUME UNCHANGED <<ingestVars, persistVars>> PROVE LossesPay'
    <2>1. Suppressed' = Suppressed
      BY <1>3 DEF Suppressed, Stored, OnItsWay
    <2> QED BY <1>2, <1>3, <2>1
  <1>4. ASSUME NEW h \in datagrams, HandleHistory(h) PROVE LossesPay'
    <2>1. UNCHANGED <<db, writers, unsent, losses>>
      BY <1>4, HandleEffect
    <2>2. CASE UNCHANGED <<latest, outbox>>
      <3>1. Suppressed' = Suppressed
        BY <2>1, <2>2 DEF Suppressed, Stored, OnItsWay
      <3> QED BY <1>2, <2>1, <3>1
    <2>3. CASE /\ CompletedLaps(h) > 0
               /\ latest' = [latest EXCEPT ![h.session] = CompletedLaps(h)]
               /\ outbox' = outbox \o LapMessages(h)
      <3>1. /\ LapMessages(h) \in Seq(LapMessage)
            /\ \A n \in 0..(CompletedLaps(h) - 1) :
                  \E m \in ToSet(LapMessages(h)) : m.session = h.session /\ m.lap = n
        BY <1>4, <2>3, HandleEffect, LapMessagesOf
      <3>2. ToSet(outbox') = ToSet(outbox) \cup ToSet(LapMessages(h))
        BY <1>1, <2>3, <3>1, ToSetOfQueue
      <3>3. ASSUME NEW p \in Suppressed' PROVE p \in Suppressed
        <4>1. /\ p \in Sessions \X LapNums /\ p[2] \in LapNums /\ p[1] \in Sessions
              /\ p[2] < latest'[p[1]] /\ ~Stored(p[1], p[2])' /\ ~OnItsWay(p[1], p[2])'
          BY DEF Suppressed
        <4>2. p[1] # h.session
          <5> SUFFICES ASSUME p[1] = h.session PROVE FALSE
            OBVIOUS
          <5>1. latest'[p[1]] = CompletedLaps(h)
            BY <2>3, <4>1 DEF ReportInv, TypeOK
          <5>2. p[2] \in Nat /\ CompletedLaps(h) \in Int
            <6>1. latest' \in [Sessions -> 0..MaxLap] /\ MaxLap \in Nat
              BY <1>1, SessionLapsAssumption DEF TypeOK
            <6>2. latest'[p[1]] \in Int /\ p[2] \in Nat
              BY <4>1, <6>1 DEF LapNums
            <6> QED BY <5>1, <6>2
          <5>3. p[2] \in 0..(CompletedLaps(h) - 1)
            <6> DEFINE c == CompletedLaps(h)
            <6>1. p[2] < c /\ p[2] \in Nat /\ c \in Int
              BY <4>1, <5>1, <5>2
            <6> HIDE DEF c
            <6>2. p[2] \in 0..(c - 1)
              BY <6>1
            <6> QED BY <6>2 DEF c
          <5> QED BY <3>1, <3>2, <4>1, <5>3 DEF OnItsWay
        <4>3. latest'[p[1]] = latest[p[1]]
          BY <2>3, <4>1, <4>2 DEF ReportInv, TypeOK
        <4>4. ~Stored(p[1], p[2]) /\ ~OnItsWay(p[1], p[2])
          BY <2>1, <3>2, <4>1 DEF Stored, OnItsWay
        <4> QED BY <4>1, <4>3, <4>4 DEF Suppressed
      <3> QED BY <1>2, <2>1, <3>3
    <2> QED BY <1>4, <2>2, <2>3, HandleEffect
  <1>5. ASSUME Publish PROVE LossesPay'
    <2>1. /\ outbox # <<>> /\ outbox' = Tail(outbox)
          /\ writers' = writers \cup {Head(outbox)}
          /\ UNCHANGED <<latest, db, unsent, losses>>
      BY <1>5 DEF Publish
    <2>2. ToSet(outbox) = ToSet(outbox') \cup {Head(outbox)}
      BY <1>1, <2>1, ToSetOfQueue
    <2>3. Suppressed' \subseteq Suppressed
      BY <2>1, <2>2, SuppressedBy
    <2> QED BY <1>2, <2>1, <2>3
  <1>6. ASSUME PublishFails PROVE LossesPay'
    <2> DEFINE m == Head(outbox)
    <2>1. /\ outbox # <<>> /\ outbox' = Tail(outbox)
          /\ UNCHANGED <<latest, db, writers, losses>>
          /\ unsent' = unsent + 1
      BY <1>6 DEF PublishFails
    <2>2. ToSet(outbox) = ToSet(outbox') \cup {m}
      BY <1>1, <2>1, ToSetOfQueue
    <2> HIDE DEF m
    <2>3. ASSUME NEW p \in Suppressed', p \notin Suppressed PROVE p = <<m.session, m.lap>>
      <3>1. p \in Sessions \X LapNums
        BY DEF Suppressed
      <3>2. m.session = p[1] /\ m.lap = p[2]
        BY <2>1, <2>2, <2>3, SuppressedBy
      <3> QED BY <3>1, <3>2
    <2>4. Suppressed' \subseteq Suppressed \cup {<<m.session, m.lap>>}
      BY <2>3
    <2>5. unsent' + losses' = unsent + losses + 1
      BY <1>1, <2>1
    <2> QED BY <1>1, <2>4, <2>5, LossesPayIf
  <1>7. ASSUME RestartIngest PROVE LossesPay'
    <2>1. \A s \in Sessions : latest'[s] = 0
      BY <1>7 DEF RestartIngest
    <2>2. Suppressed' = {}
      BY <2>1 DEF Suppressed, LapNums
    <2>3. UNCHANGED <<unsent, losses>>
      BY <1>7 DEF RestartIngest
    <2> QED BY <1>2, <2>2, <2>3
  <1>8. ASSUME NEW m \in writers, WriteLapRow(m) PROVE LossesPay'
    <2>1. /\ UNCHANGED <<latest, outbox, unsent, losses>>
          /\ writers' = writers \ {m}
      BY <1>8 DEF WriteLapRow
    <2>2. m.session \in Sessions /\ m.lap \in LapNums
      BY <1>1 DEF TypeOK, LapMessage
    <2>3. /\ \A s \in Sessions, n \in LapNums : db[s][n] # None => db'[s][n] # None
          /\ db'[m.session][m.lap] # None
      BY <1>8, <2>2, WriteLapRowKeeps
    <2>4. Suppressed' \subseteq Suppressed
      BY <2>1, <2>3, SuppressedBy
    <2> QED BY <1>2, <2>1, <2>4
  <1>9. ASSUME NEW m \in writers, LoseRow(m) PROVE LossesPay'
    <2>1. /\ UNCHANGED <<latest, outbox, unsent, db>>
          /\ writers' = writers \ {m} /\ losses' = losses + 1
      BY <1>9 DEF LoseRow
    <2>2. ASSUME NEW p \in Suppressed', p \notin Suppressed PROVE p = <<m.session, m.lap>>
      <3>1. p \in Sessions \X LapNums
        BY DEF Suppressed
      <3>2. m.session = p[1] /\ m.lap = p[2]
        BY <2>1, <2>2, SuppressedBy
      <3> QED BY <3>1, <3>2
    <2>3. Suppressed' \subseteq Suppressed \cup {<<m.session, m.lap>>}
      BY <2>2
    <2>4. unsent' + losses' = unsent + losses + 1
      BY <1>1, <2>1
    <2> QED BY <1>1, <2>3, <2>4, LossesPayIf
  <1>10. ASSUME \/ UNCHANGED vars
                \/ Game
                \/ \E h \in captured : Replay(h)
                \/ \E h \in datagrams : LoseDatagram(h)
         PROVE  LossesPay'
    BY <1>3, <1>10
    DEF vars, Game, FinishLap, AmendLastLap, Flashback, EndSession, SendHistory, Replay, LoseDatagram
  <1> QED BY <1>4, <1>5, <1>6, <1>7, <1>8, <1>9, <1>10 DEF Next

\* The cache suppresses at most one lap per lost message, and none that is
\* neither stored nor on its way if no message was lost: for any interleaving
\* of packets, publishes, failures, writes and restarts.
THEOREM TheCacheIsBacked == Spec => []CacheIsBacked
PROOF
  <1>1. Init => LossesPay
    <2> SUFFICES ASSUME Init PROVE LossesPay
      OBVIOUS
    <2>1. Suppressed = {}
      BY DEF Init, Suppressed, LapNums
    <2> QED BY <2>1, FS_EmptySet DEF Init, LossesPay
  <1>2. LossesPay => CacheIsBacked
    BY DEF LossesPay, CacheIsBacked
  <1> QED BY <1>1, <1>2, LossesPayStep, ReportInvInductive, PTL DEF Spec

-----------------------------------------------------------------------------
(* What a change of the game costs *)

\* The game has shown something for this lap that its list does not say.
Contested(s, n) ==
    /\ reported[s][n] # {}
    /\ n < Len(laps[s]) => reported[s][n] # {laps[s][n + 1]}

ContestedLaps == {p \in Sessions \X LapNums : Contested(p[1], p[2])}

ChangesPay ==
    /\ IsFiniteSet(ContestedLaps)
    /\ Cardinality(ContestedLaps) <= changes

\* Only an amendment or a flashback makes a lap contested, and only one lap:
\* the lap that ends again after a flashback has been contested since.
LEMMA ChangesPayStep ==
  ASSUME ReportInv, ChangesPay, [Next]_vars
  PROVE  ChangesPay'
PROOF
  <1> USE DEF gameVars
  <1>1. /\ IsFiniteSet(ContestedLaps) /\ Cardinality(ContestedLaps) \in Nat
        /\ changes \in Nat
    BY FS_CardinalityType DEF ChangesPay, ReportInv, TypeOK
  <1>2. ASSUME ContestedLaps' \subseteq ContestedLaps, changes' = changes
        PROVE  ChangesPay'
    <2>1. /\ IsFiniteSet(ContestedLaps')
          /\ Cardinality(ContestedLaps') <= Cardinality(ContestedLaps)
          /\ Cardinality(ContestedLaps') \in Nat
      BY <1>1, <1>2, FS_Subset, FS_CardinalityType
    <2> QED BY <1>1, <1>2, <2>1 DEF ChangesPay
  <1>3. ASSUME NEW x, ContestedLaps' \subseteq ContestedLaps \cup {x}, changes' = changes + 1
        PROVE  ChangesPay'
    <2>1. /\ IsFiniteSet(ContestedLaps')
          /\ Cardinality(ContestedLaps') <= Cardinality(ContestedLaps) + 1
          /\ Cardinality(ContestedLaps') \in Nat
      BY <1>1, <1>3, OneMore, FS_CardinalityType
    <2> QED BY <1>1, <1>3, <2>1 DEF ChangesPay
  <1>4. ASSUME UNCHANGED <<laps, reported, changes>> PROVE ChangesPay'
    BY <1>4 DEF ChangesPay, ContestedLaps, Contested
  <1>5. ASSUME NEW s \in Sessions, NEW v \in Values, FinishLap(s, v) PROVE ChangesPay'
    <2> DEFINE k == Len(laps[s])
    <2>1. /\ laps[s] \in Seq(Values) /\ k \in Nat /\ k \in LapNums
          /\ laps' = [laps EXCEPT ![s] = Append(laps[s], v)]
          /\ Len(Append(laps[s], v)) = k + 1
          /\ \A i \in 1..k : Append(laps[s], v)[i] = laps[s][i]
          /\ Append(laps[s], v)[k + 1] = v
          /\ changes' = changes
      BY <1>5, LenProperties, AppendProperties, SessionLapsAssumption
      DEF ReportInv, TypeOK, FinishLap, LapNums
    <2>2. reported' = [reported EXCEPT ![s][k] = @ \cup {v}]
      BY <1>5 DEF FinishLap, Report
    <2> HIDE DEF k
    <2>3. \A t \in Sessions, n \in LapNums :
             reported'[t][n] = IF t = s /\ n = k THEN reported[t][n] \cup {v}
                                                 ELSE reported[t][n]
      BY <2>1, <2>2, ReportEffect DEF ReportInv
    <2>4. ASSUME NEW t \in Sessions, NEW n \in LapNums, Contested(t, n)'
          PROVE  Contested(t, n)
      <3>1. n \in Nat
        BY SessionLapsAssumption DEF LapNums
      <3>2. CASE t # s
        BY <2>1, <2>3, <2>4, <3>2 DEF Contested, ReportInv, TypeOK
      <3>3. CASE t = s /\ n = k
        <4>1. laps'[t] = Append(laps[s], v) /\ n < Len(laps'[t]) /\ laps'[t][n + 1] = v
          BY <2>1, <3>3 DEF ReportInv, TypeOK
        <4>2. reported'[t][n] = reported[t][n] \cup {v}
          BY <2>3, <3>3
        <4>3. reported[t][n] # {}
          BY <2>4, <4>1, <4>2 DEF Contested
        <4> QED BY <2>1, <3>3, <4>3 DEF Contested, k
      <3>4. CASE t = s /\ n # k
        <4>1. laps'[t] = Append(laps[s], v) /\ reported'[t][n] = reported[t][n]
          BY <2>1, <2>3, <3>4 DEF ReportInv, TypeOK
        <4>2. n < Len(laps[t]) => n < Len(laps'[t]) /\ laps'[t][n + 1] = laps[t][n + 1]
          BY <2>1, <3>1, <3>4, <4>1 DEF k
        <4> QED BY <2>4, <4>1, <4>2 DEF Contested
      <3> QED BY <3>2, <3>3, <3>4
    <2>5. ContestedLaps' \subseteq ContestedLaps
      BY <2>4 DEF ContestedLaps
    <2> QED BY <1>2, <2>1, <2>5
  <1>6. ASSUME NEW s \in Sessions, NEW v \in Values, AmendLastLap(s, v) PROVE ChangesPay'
    <2> DEFINE k == Len(laps[s]) - 1
               l == Append(Front(laps[s]), v)
    <2>1. /\ laps[s] # <<>> /\ laps' = [laps EXCEPT ![s] = l]
          /\ reported' = [reported EXCEPT ![s][k] = @ \cup {v}]
          /\ changes' = changes + 1
      BY <1>6 DEF AmendLastLap, Report
    <2>2. /\ laps[s] \in Seq(Values) /\ k \in Nat /\ Front(laps[s]) \in Seq(Values)
          /\ Len(Front(laps[s])) = k
          /\ \A i \in 1..k : Front(laps[s])[i] = laps[s][i]
      BY <2>1, FrontProperties DEF ReportInv, TypeOK
    <2>3. Len(l) = k + 1 /\ \A i \in 1..k : l[i] = laps[s][i]
      BY <2>2, AppendProperties
    <2>4. k \in LapNums
      BY <2>2, SessionLapsAssumption DEF ReportInv, LapsShown, LapNums
    <2>5. k + 1 = Len(laps[s])
      BY <2>2
    <2> HIDE DEF k, l
    <2>6. \A t \in Sessions, n \in LapNums :
             reported'[t][n] = IF t = s /\ n = k THEN reported[t][n] \cup {v}
                                                 ELSE reported[t][n]
      BY <2>1, <2>4, ReportEffect DEF ReportInv
    <2>7. ASSUME NEW t \in Sessions, NEW n \in LapNums, Contested(t, n)', ~(t = s /\ n = k)
          PROVE  Contested(t, n)
      <3>1. n \in Nat /\ reported'[t][n] = reported[t][n]
        <4>1. n \in Nat
          BY SessionLapsAssumption DEF LapNums
        <4> QED BY <2>6, <2>7, <4>1
      <3>2. CASE t # s
        BY <2>1, <2>7, <3>1, <3>2 DEF Contested, ReportInv, TypeOK
      <3>3. CASE t = s
        <4>1. laps'[t] = l /\ n # k
          BY <2>1, <2>7, <3>3 DEF ReportInv, TypeOK
        <4>2. n < Len(laps[t]) => n < Len(laps'[t]) /\ laps'[t][n + 1] = laps[t][n + 1]
          BY <2>2, <2>3, <2>5, <3>1, <3>3, <4>1
        <4> QED BY <2>7, <3>1, <4>2 DEF Contested
      <3> QED BY <3>2, <3>3
    <2>8. ContestedLaps' \subseteq ContestedLaps \cup {<<s, k>>}
      BY <2>7 DEF ContestedLaps
    <2> QED BY <1>3, <2>1, <2>8
  <1>7. ASSUME NEW s \in Sessions, Flashback(s) PROVE ChangesPay'
    <2> DEFINE k == Len(laps[s]) - 1
    <2>1. /\ laps[s] # <<>> /\ laps' = [laps EXCEPT ![s] = Front(laps[s])]
          /\ reported' = reported /\ changes' = changes + 1
      BY <1>7 DEF Flashback
    <2>2. /\ laps[s] \in Seq(Values) /\ k \in Nat /\ k + 1 = Len(laps[s])
          /\ Len(Front(laps[s])) = k
          /\ \A i \in 1..k : Front(laps[s])[i] = laps[s][i]
      BY <2>1, FrontProperties DEF ReportInv, TypeOK
    <2> HIDE DEF k
    <2>3. ASSUME NEW t \in Sessions, NEW n \in LapNums, Contested(t, n)', ~(t = s /\ n = k)
          PROVE  Contested(t, n)
      <3>1. n \in Nat
        BY SessionLapsAssumption DEF LapNums
      <3>2. CASE t # s
        BY <2>1, <2>3, <3>2 DEF Contested, ReportInv, TypeOK
      <3>3. CASE t = s
        <4>1. laps'[t] = Front(laps[s]) /\ n # k
          BY <2>1, <2>3, <3>3 DEF ReportInv, TypeOK
        <4>2. n < Len(laps[t]) => n < Len(laps'[t]) /\ laps'[t][n + 1] = laps[t][n + 1]
          BY <2>2, <3>1, <3>3, <4>1
        <4> QED BY <2>1, <2>3, <4>2 DEF Contested
      <3> QED BY <3>2, <3>3
    <2>4. ContestedLaps' \subseteq ContestedLaps \cup {<<s, k>>}
      BY <2>3 DEF ContestedLaps
    <2> QED BY <1>3, <2>1, <2>4
  <1>8. CASE UNCHANGED vars
    BY <1>4, <1>8 DEF vars
  <1>9. ASSUME NEW s \in Sessions, EndSession(s) \/ SendHistory(s) PROVE ChangesPay'
    BY <1>4, <1>9 DEF EndSession, SendHistory
  <1>10. ASSUME NEW h, Replay(h) \/ LoseDatagram(h) \/ HandleHistory(h) PROVE ChangesPay'
    BY <1>4, <1>10 DEF Replay, LoseDatagram, HandleHistory
  <1>11. CASE Publish \/ PublishFails \/ RestartIngest
    BY <1>4, <1>11 DEF Publish, PublishFails, RestartIngest
  <1>12. ASSUME NEW m, WriteLapRow(m) \/ LoseRow(m) PROVE ChangesPay'
    BY <1>4, <1>12 DEF WriteLapRow, LoseRow
  <1> QED
    BY <1>5, <1>6, <1>7, <1>8, <1>9, <1>10, <1>11, <1>12 DEF Next, Game

\* The table keeps the first row of a lap, so it may disagree with the game:
\* but in no more laps than the game has amended or taken back.
THEOREM StaleRowsArePaidFor == Spec => []StaleRowsCostAChange
PROOF
  <1>1. Init => ChangesPay
    <2> SUFFICES ASSUME Init PROVE ChangesPay
      OBVIOUS
    <2>1. ContestedLaps = {}
      BY DEF Init, ContestedLaps, Contested
    <2> QED BY <2>1, FS_EmptySet DEF Init, ChangesPay
  <1>2. ReportInv /\ ChangesPay => StaleRowsCostAChange
    <2> SUFFICES ASSUME ReportInv, ChangesPay PROVE StaleRowsCostAChange
      OBVIOUS
    <2>1. StaleRows \subseteq ContestedLaps
      <3> SUFFICES ASSUME NEW s \in Sessions, NEW n \in LapNums, IsStale(s, n)
                   PROVE  Contested(s, n)
        BY DEF StaleRows, ContestedLaps
      <3>1. db[s][n] \in reported[s][n]
        BY DEF IsStale, ReportInv, RowsWereReported
      <3> QED BY <3>1 DEF IsStale, Contested
    <2>2. /\ Cardinality(StaleRows) <= Cardinality(ContestedLaps)
          /\ Cardinality(StaleRows) \in Nat /\ Cardinality(ContestedLaps) \in Nat
      BY <2>1, FS_Subset, FS_CardinalityType DEF ChangesPay
    <2> QED BY <2>2 DEF ChangesPay, StaleRowsCostAChange, ReportInv, TypeOK
  <1> QED BY <1>1, <1>2, ChangesPayStep, ReportInvInductive, PTL DEF Spec
=============================================================================
