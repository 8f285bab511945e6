----------------------- MODULE PersistBatchingProofs -----------------------
(***************************************************************************)
(* Theorems about PersistBatching, for any tables, deliveries, batch size, *)
(* channel capacity and number of faults, under RoutingAssumption and      *)
(* SizeAssumption.                                                         *)
(*                                                                         *)
(* The invariants that the runs check are not inductive as they stand.     *)
(* What is inductive, in this order, each relative to the ones before:     *)
(*   TypeOK        types                                                   *)
(*   Located       everything is where its payload says it should be       *)
(*   Exclusive     no delivery is in two places                            *)
(*   AllAccounted  every routed delivery is in some place                  *)
(* and, beside the last two, OrderlyStop, BatchBound, ClosedAtShutdown,    *)
(* LapRowsUnique and LossBound.  The lemmas *Effect say once what a        *)
(* handler does under TypeOK and Located; the step lemmas cite them.       *)
(***************************************************************************)
EXTENDS PersistBatching, SequenceTheorems, FiniteSetTheorems, TLAPS

-----------------------------------------------------------------------------
(* Sequences without repetition *)

\* s has no repetition.
Distinct(s) == \A i, j \in DOMAIN s : s[i] = s[j] => i = j

\* The empty sequence.
LEMMA EmptyRange == Range(<<>>) = {} /\ Distinct(<<>>)
  BY DEF Range, Distinct

\* A send, or a row appended to a buffer, adds one element.
LEMMA AppendRange ==
  ASSUME NEW S, NEW s \in Seq(S), NEW e \in S
  PROVE  /\ Range(Append(s, e)) = Range(s) \cup {e}
         /\ Distinct(s) /\ e \notin Range(s) => Distinct(Append(s, e))
PROOF
  <1>1. /\ DOMAIN s = 1..Len(s)
        /\ DOMAIN Append(s, e) = 1..(Len(s) + 1)
        /\ Len(s) \in Nat
    OBVIOUS
  <1>2. \A i \in 1..Len(s) : Append(s, e)[i] = s[i]
    OBVIOUS
  <1>3. Append(s, e)[Len(s) + 1] = e
    OBVIOUS
  <1>4. Range(Append(s, e)) = Range(s) \cup {e}
    BY <1>1, <1>2, <1>3 DEF Range
  <1>5. ASSUME Distinct(s), e \notin Range(s)
        PROVE  Distinct(Append(s, e))
    BY <1>1, <1>2, <1>3, <1>5 DEF Range, Distinct
  <1> QED BY <1>4, <1>5

\* A receive takes one element away.
LEMMA TailRange ==
  ASSUME NEW S, NEW s \in Seq(S), s # <<>>
  PROVE  /\ Head(s) \in S
         /\ Head(s) \in Range(s)
         /\ Tail(s) \in Seq(S)
         /\ Range(s) = Range(Tail(s)) \cup {Head(s)}
         /\ Distinct(s) => Distinct(Tail(s)) /\ Head(s) \notin Range(Tail(s))
PROOF
  <1>1. /\ Len(s) \in Nat \ {0}
        /\ DOMAIN s = 1..Len(s)
        /\ Tail(s) \in Seq(S)
        /\ DOMAIN Tail(s) = 1..(Len(s) - 1)
        /\ Head(s) = s[1]
        /\ Head(s) \in S
    BY HeadTailProperties, EmptySeq, LenProperties
  <1>2. \A i \in 1..(Len(s) - 1) : Tail(s)[i] = s[i + 1]
    BY HeadTailProperties
  <1>3. Head(s) \in Range(s)
    BY <1>1 DEF Range
  <1>4. Range(s) = Range(Tail(s)) \cup {Head(s)}
    <2>1. ASSUME NEW i \in DOMAIN s
          PROVE  s[i] \in Range(Tail(s)) \cup {Head(s)}
      <3>1. CASE i = 1
        BY <3>1, <1>1
      <3>2. CASE i # 1
        <4>1. i - 1 \in 1..(Len(s) - 1) /\ Tail(s)[i - 1] = s[i]
          BY <3>2, <2>1, <1>1, <1>2
        <4> QED BY <4>1, <1>1 DEF Range
      <3> QED BY <3>1, <3>2
    <2>2. ASSUME NEW i \in DOMAIN Tail(s)
          PROVE  Tail(s)[i] \in Range(s)
      <3>1. i + 1 \in DOMAIN s /\ Tail(s)[i] = s[i + 1]
        BY <2>2, <1>1, <1>2
      <3> QED BY <3>1 DEF Range
    <2> QED BY <2>1, <2>2, <1>3 DEF Range
  <1>5. ASSUME Distinct(s)
        PROVE  Distinct(Tail(s)) /\ Head(s) \notin Range(Tail(s))
    <2>1. Distinct(Tail(s))
      <3>1. SUFFICES ASSUME NEW i \in DOMAIN Tail(s), NEW j \in DOMAIN Tail(s),
                            Tail(s)[i] = Tail(s)[j]
                     PROVE  i = j
        BY DEF Distinct
      <3>2. i + 1 \in DOMAIN s /\ j + 1 \in DOMAIN s /\ s[i + 1] = s[j + 1]
        BY <1>1, <1>2, <3>1
      <3>3. i + 1 = j + 1
        BY <3>2, <1>5 DEF Distinct
      <3> QED BY <3>3, <1>1
    <2>2. ASSUME NEW i \in DOMAIN Tail(s), Head(s) = Tail(s)[i]
          PROVE  FALSE
      <3>1. 1 \in DOMAIN s /\ i + 1 \in DOMAIN s /\ s[1] = s[i + 1] /\ i + 1 # 1
        BY <1>1, <1>2, <2>2
      <3> QED BY <3>1, <1>5 DEF Distinct
    <2> QED BY <2>1, <2>2 DEF Range
  <1> QED BY <1>1, <1>3, <1>4, <1>5

\* Occurrences counts: a number, and 0 or 1 in a sequence without repetition.
LEMMA OccurrencesType ==
  ASSUME NEW S, NEW s \in Seq(S), NEW d
  PROVE  /\ Occurrences(s, d) \in Nat
         /\ d \notin Range(s) => Occurrences(s, d) = 0
         /\ d \in Range(s) /\ Distinct(s) => Occurrences(s, d) = 1
PROOF
  <1> DEFINE P == {i \in DOMAIN s : s[i] = d}
  <1>1. DOMAIN s = 1..Len(s) /\ Len(s) \in Nat
    OBVIOUS
  <1>2. IsFiniteSet(1..Len(s))
    BY <1>1, FS_Interval
  <1>3. IsFiniteSet(P)
    BY <1>1, <1>2, FS_Subset
  <1>4. Cardinality(P) \in Nat
    BY <1>3, FS_CardinalityType
  <1>5. d \notin Range(s) => P = {}
    BY DEF Range
  <1>6. ASSUME d \in Range(s), Distinct(s) PROVE Cardinality(P) = 1
    <2>1. PICK i \in DOMAIN s : s[i] = d
      BY <1>6 DEF Range
    <2>2. P = {i}
      BY <2>1, <1>6 DEF Distinct
    <2> QED BY <2>2, FS_Singleton
  <1> QED BY <1>4, <1>5, <1>6, FS_EmptySet DEF Occurrences

-----------------------------------------------------------------------------
(* Type correctness *)

\* Flush keeps the types, for rows that are deliveries.
LEMMA FlushType ==
  ASSUME TypeOK, NEW t \in Tables, NEW rs \in Seq(Deliveries),
         NEW after \in {"select", "writing", "stopped"}, Flush(t, rs, after)
  PROVE  /\ pc' \in [Tables -> {"select", "writing", "stopped"}]
         /\ buffer' \in [Tables -> Seq(Deliveries)]
         /\ batch' \in [Tables -> Seq(Deliveries)]
         /\ lost' \subseteq Deliveries
PROOF
  <1>1. <<>> \in Seq(Deliveries) /\ Range(rs) \subseteq Deliveries
    BY EmptySeq, RangeOfSeq
  <1> QED BY <1>1 DEF Flush, TypeOK

\* Every variable keeps its type, whatever the tables, the deliveries and the
\* sizes: in particular no channel ever holds more than ChanCap messages.
THEOREM TypeCorrect == Spec => []TypeOK
PROOF
  <1>1. Init => TypeOK
    <2> SUFFICES ASSUME Init PROVE TypeOK
      OBVIOUS
    <2>1. <<>> \in Seq(Deliveries) /\ Len(<<>>) = 0
      BY EmptySeq
    <2>2. 0 \in 0..Len(CloseOrder) /\ 0 \in 0..MaxFaults
      BY RoutingAssumption, SizeAssumption
    <2>3. /\ chan \in [Tables -> Seq(Deliveries)]
          /\ buffer \in [Tables -> Seq(Deliveries)]
          /\ batch \in [Tables -> Seq(Deliveries)]
          /\ \A t \in Tables : Len(chan[t]) <= ChanCap
      BY <2>1, SizeAssumption DEF Init
    <2>4. rows \in [Tables -> [Deliveries -> Nat]]
      BY DEF Init
    <2>5. locked \in [Tables -> BOOLEAN] /\ pc \in [Tables -> {"select", "writing", "stopped"}]
      BY DEF Init
    <2> QED BY <2>2, <2>3, <2>4, <2>5 DEF Init, TypeOK
  <1>2. TypeOK /\ [Next]_vars => TypeOK'
    <2> SUFFICES ASSUME TypeOK, [Next]_vars PROVE TypeOK'
      OBVIOUS
    <2> USE DEF workerVars, sinkVars
    <2>1. ASSUME NEW d \in Deliveries, Arrive(d) PROVE TypeOK'
      BY <2>1 DEF Arrive, TypeOK
    <2>2. ASSUME NEW d \in Deliveries, Send(d) PROVE TypeOK'
      <3> DEFINE t == Route(d)
      <3>1. chan' \in [Tables -> Seq(Deliveries)]
        <4>1. t \in Tables => Append(chan[t], d) \in Seq(Deliveries)
          BY AppendProperties DEF TypeOK
        <4>2. chan' = [chan EXCEPT ![t] = Append(chan[t], d)] /\ chan \in [Tables -> Seq(Deliveries)]
          BY <2>2 DEF Send, TypeOK
        <4> HIDE DEF t
        <4> QED BY <4>1, <4>2
      <3>2. \A u \in Tables : Len(chan'[u]) <= ChanCap
        <4> SUFFICES ASSUME NEW u \in Tables PROVE Len(chan'[u]) <= ChanCap
          OBVIOUS
        <4>1. CASE u = t
          <5>1. chan'[u] = Append(chan[u], d) /\ chan[u] \in Seq(Deliveries)
            BY <2>2, <4>1 DEF Send, TypeOK
          <5>2. Len(chan'[u]) = Len(chan[u]) + 1 /\ Len(chan[u]) \in Nat
            BY <5>1, AppendProperties, LenProperties
          <5> QED BY <2>2, <4>1, <5>2, SizeAssumption DEF Send
        <4>2. CASE u # t
          BY <2>2, <4>2 DEF Send, TypeOK
        <4> QED BY <4>1, <4>2
      <3> QED BY <2>2, <3>1, <3>2 DEF Send, TypeOK
    <2>3. ASSUME NEW d \in Deliveries, SendPanics(d) PROVE TypeOK'
      BY <2>3 DEF SendPanics, TypeOK
    <2>4. ASSUME NEW t \in Tables, ReceiveRow(t) PROVE TypeOK'
      <3> DEFINE d == Head(chan[t])
      <3>1. /\ d \in Deliveries /\ Tail(chan[t]) \in Seq(Deliveries)
            /\ Append(buffer[t], d) \in Seq(Deliveries)
            /\ Len(Tail(chan[t])) <= ChanCap
        BY <2>4, HeadTailProperties, AppendProperties, LenProperties, SizeAssumption DEF ReceiveRow, TypeOK
      <3>2. /\ chan' \in [Tables -> Seq(Deliveries)]
            /\ \A u \in Tables : Len(chan'[u]) <= ChanCap
        BY <2>4, <3>1 DEF ReceiveRow, TypeOK
      <3>3. CASE Builds(t, d)
        <4>1. locked' = locked /\ Buffer(t, d)
          BY <2>4, <3>3 DEF ReceiveRow
        <4>2. CASE Len(Append(buffer[t], d)) >= BatchSize
          <5>1. Flush(t, Append(buffer[t], d), "select")
            BY <4>1, <4>2 DEF Buffer
          <5> HIDE DEF d
          <5>2. /\ pc' \in [Tables -> {"select", "writing", "stopped"}]
                /\ buffer' \in [Tables -> Seq(Deliveries)]
                /\ batch' \in [Tables -> Seq(Deliveries)]
                /\ lost' \subseteq Deliveries
            BY <5>1, <3>1, FlushType
          <5> QED BY <2>4, <3>2, <4>1, <5>2 DEF ReceiveRow, TypeOK
        <4>3. CASE ~(Len(Append(buffer[t], d)) >= BatchSize)
          <5>1. /\ buffer' = [buffer EXCEPT ![t] = Append(buffer[t], d)]
                /\ UNCHANGED <<pc, batch, lost>>
            BY <4>1, <4>3 DEF Buffer
          <5> QED BY <2>4, <3>1, <3>2, <4>1, <5>1 DEF ReceiveRow, TypeOK
        <4> QED BY <4>2, <4>3
      <3>4. CASE ~Builds(t, d)
        BY <2>4, <3>1, <3>2, <3>4 DEF ReceiveRow, TypeOK
      <3> QED BY <3>3, <3>4
    <2>5. ASSUME NEW t \in Tables, ReceiveNilField(t) PROVE TypeOK'
      BY <2>5 DEF ReceiveNilField, TypeOK
    <2>6. ASSUME NEW t \in Tables, ReceiveLap(t) PROVE TypeOK'
      <3>1. /\ Head(chan[t]) \in Deliveries /\ Tail(chan[t]) \in Seq(Deliveries)
            /\ Len(Tail(chan[t])) <= ChanCap
        BY <2>6, HeadTailProperties, LenProperties, SizeAssumption DEF ReceiveLap, TypeOK
      <3> QED BY <2>6, <3>1 DEF ReceiveLap, TypeOK
    <2>7. ASSUME NEW t \in Tables, Tick(t) PROVE TypeOK'
      <3>1. buffer[t] \in Seq(Deliveries) /\ Flush(t, buffer[t], "select")
        BY <2>7 DEF Tick, TypeOK
      <3> QED BY <2>7, <3>1, FlushType DEF Tick, TypeOK
    <2>8. ASSUME NEW t \in Tables, StopWorker(t) PROVE TypeOK'
      <3>1. buffer[t] \in Seq(Deliveries) /\ Flush(t, buffer[t], "stopped")
        BY <2>8 DEF StopWorker, TypeOK
      <3> QED BY <2>8, <3>1, FlushType DEF StopWorker, TypeOK
    <2>9. ASSUME NEW t \in Tables, CopySucceeds(t) PROVE TypeOK'
      <3>1. \A d \in Deliveries : Occurrences(batch[t], d) \in Nat
        BY OccurrencesType DEF TypeOK
      <3>2. rows' \in [Tables -> [Deliveries -> Nat]]
        BY <2>9, <3>1 DEF CopySucceeds, TypeOK
      <3>3. <<>> \in Seq(Deliveries)
        BY EmptySeq
      <3> QED BY <2>9, <3>2, <3>3 DEF CopySucceeds, EndCopy, TypeOK
    <2>10. ASSUME NEW t \in Tables, CopyFails(t) PROVE TypeOK'
      <3>1. <<>> \in Seq(Deliveries) /\ Range(batch[t]) \subseteq Deliveries
        BY EmptySeq, RangeOfSeq DEF TypeOK
      <3> QED BY <2>10, <3>1, SizeAssumption DEF CopyFails, EndCopy, WriteFails, TypeOK
    <2>11. ASSUME NEW d \in Deliveries, LapInsert(d) PROVE TypeOK'
      <3>1. /\ rows' \in [Tables -> [Deliveries -> Nat]]
            /\ ignored' \subseteq Deliveries
        <4>1. rows' = [rows EXCEPT ![LapTable][d] = rows[LapTable][d] + 1] => rows' \in [Tables -> [Deliveries -> Nat]]
          BY RoutingAssumption DEF TypeOK
        <4> QED BY <2>11, <4>1 DEF LapInsert, TypeOK
      <3> QED BY <2>11, <3>1 DEF LapInsert, EndLapWriter, TypeOK
    <2>12. ASSUME NEW d \in Deliveries, LapInsertFails(d) PROVE TypeOK'
      BY <2>12, SizeAssumption DEF LapInsertFails, EndLapWriter, WriteFails, TypeOK
    <2>13. CASE Interrupt
      BY <2>13 DEF Interrupt, TypeOK
    <2>14. CASE CloseNext
      BY <2>14, RoutingAssumption DEF CloseNext, TypeOK
    <2>15. CASE Exit
      BY <2>15 DEF Exit, TypeOK
    <2>16. CASE UNCHANGED vars
      BY <2>16 DEF vars, TypeOK
    <2> QED
      BY <2>1, <2>2, <2>3, <2>4, <2>5, <2>6, <2>7, <2>8, <2>9, <2>10, <2>11,
         <2>12, <2>13, <2>14, <2>15, <2>16 DEF Next, Handler, Worker, Database
  <1> QED BY <1>1, <1>2, PTL DEF Spec

-----------------------------------------------------------------------------
(* Where deliveries are *)

\* Rows and messages in the hands of worker t.
Held(t) == Range(batch[t]) \cup Range(buffer[t]) \cup Range(chan[t])

\* Everything is where its payload says, and a worker that is not writing
\* has no batch.
Located ==
    /\ \A d \in senders : TableOf[d] # NoTable
    /\ \A t \in Tables : \A d \in Held(t) : d \in arrived /\ TableOf[d] = t
    /\ Range(batch[LapTable]) = {} /\ Range(buffer[LapTable]) = {}
    /\ \A d \in lapWriters : d \in arrived /\ TableOf[d] = LapTable
    /\ \A d \in ignored \cup lost : d \in arrived /\ TableOf[d] # NoTable
    /\ \A t \in Tables, d \in Deliveries :
          rows[t][d] > 0 => d \in arrived /\ TableOf[d] = t
    /\ \A t \in Tables : pc[t] # "writing" => batch[t] = <<>>
    /\ NoLeakedLock

\* What a flush of the rows rs does to the worker t.
FlushOf(t, rs) ==
    /\ buffer' = [buffer EXCEPT ![t] = <<>>]
    /\ \/ /\ batch' = [batch EXCEPT ![t] = rs]
          /\ pc' = [pc EXCEPT ![t] = "writing"]
          /\ lost' = lost
          /\ ~ctxDone
       \/ /\ batch' = batch
          /\ lost' = lost \cup Range(rs)
          /\ \E after \in {"select", "stopped"} : pc' = [pc EXCEPT ![t] = after]
          /\ ctxDone \/ Range(rs) = {}

\* What remains the same for everyone but worker t.
WorkerFrame == UNCHANGED <<process, ctxDone, arrived, senders, nclosed, locked,
                           lapWriters, rows, faults, ignored>>

\* flush either starts a CopyFrom or, with a cancelled context, loses the rows.
LEMMA FlushEffect ==
  ASSUME NEW t \in Tables, NEW rs, NEW after \in {"select", "stopped"},
         Flush(t, rs, after)
  PROVE  FlushOf(t, rs)
PROOF
  <1>1. Range(<<>>) = {}
    BY EmptyRange
  <1> QED BY <1>1 DEF Flush, FlushOf

\* The row of a received message is buffered, or flushed with the buffer.
LEMMA ReceiveRowEffect ==
  ASSUME TypeOK, Located, NEW t \in Tables, ReceiveRow(t)
  PROVE  LET d == Head(chan[t])
             rs == Append(buffer[t], d)
         IN  /\ chan[t] # <<>>
             /\ TableOf[d] = t /\ t # LapTable
             /\ pc[t] = "select"
             /\ chan' = [chan EXCEPT ![t] = Tail(chan[t])]
             /\ \/ /\ buffer' = [buffer EXCEPT ![t] = rs]
                   /\ Len(rs) < BatchSize
                   /\ UNCHANGED <<pc, batch, lost>>
                \/ FlushOf(t, rs)
             /\ WorkerFrame
PROOF
  <1> DEFINE d == Head(chan[t])
             rs == Append(buffer[t], d)
  <1>1. chan[t] \in Seq(Deliveries) /\ chan[t] # <<>> /\ buffer[t] \in Seq(Deliveries)
    BY DEF TypeOK, ReceiveRow
  <1>2. d \in Range(chan[t]) /\ d \in Deliveries
    BY <1>1, TailRange
  <1>3. TableOf[d] = t
    BY <1>2 DEF Located, Held
  <1>4. t # LapTable
    BY <1>3 DEF ReceiveRow
  <1>5. Builds(t, d)
    BY <1>3 DEF Builds
  <1>6. Len(rs) \in Nat
    BY <1>1, <1>2, AppendProperties, LenProperties
  <1>7. /\ pc[t] = "select"
        /\ chan' = [chan EXCEPT ![t] = Tail(chan[t])]
        /\ Buffer(t, d)
        /\ WorkerFrame
    BY <1>5 DEF ReceiveRow, AtSelect, WorkerFrame
  <1>8. CASE Len(rs) >= BatchSize
    <2>1. Flush(t, rs, "select")
      BY <1>7, <1>8 DEF Buffer
    <2>2. FlushOf(t, rs)
      BY <2>1, FlushEffect
    <2> QED BY <1>1, <1>3, <1>4, <1>7, <2>2
  <1>9. CASE ~(Len(rs) >= BatchSize)
    <2>1. /\ buffer' = [buffer EXCEPT ![t] = rs]
          /\ UNCHANGED <<pc, batch, lost>>
      BY <1>7, <1>9 DEF Buffer
    <2>2. Len(rs) < BatchSize
      BY <1>6, <1>9, SizeAssumption
    <2> QED BY <1>1, <1>3, <1>4, <1>7, <2>1, <2>2
  <1> QED BY <1>8, <1>9

\* A tick, or the end of the worker, flushes the buffer.
LEMMA OwnFlushEffect ==
  ASSUME NEW t \in Tables, Tick(t) \/ StopWorker(t)
  PROVE  /\ pc[t] = "select"
         /\ FlushOf(t, buffer[t])
         /\ UNCHANGED chan
         /\ WorkerFrame
PROOF
  <1>1. CASE Tick(t)
    BY <1>1, FlushEffect DEF Tick, AtSelect, WorkerFrame
  <1>2. CASE StopWorker(t)
    BY <1>2, FlushEffect DEF StopWorker, AtSelect, WorkerFrame
  <1> QED BY <1>1, <1>2

\* A finished lap gets a writer or, with a cancelled context, is lost.
LEMMA ReceiveLapEffect ==
  ASSUME TypeOK, Located, NEW t \in Tables, ReceiveLap(t)
  PROVE  LET d == Head(chan[t])
         IN  /\ chan[t] # <<>>
             /\ TableOf[d] = LapTable /\ t = LapTable
             /\ chan' = [chan EXCEPT ![t] = Tail(chan[t])]
             /\ \/ ctxDone /\ lost' = lost \cup {d} /\ lapWriters' = lapWriters
                \/ lapWriters' = lapWriters \cup {d} /\ lost' = lost
             /\ UNCHANGED <<process, ctxDone, arrived, senders, nclosed, pc, locked,
                            buffer, batch, rows, faults, ignored>>
PROOF
  <1>1. chan[t] \in Seq(Deliveries) /\ chan[t] # <<>>
    BY DEF TypeOK, ReceiveLap
  <1>2. Head(chan[t]) \in Range(chan[t])
    BY <1>1, TailRange
  <1>3. TableOf[Head(chan[t])] = t
    BY <1>2 DEF Located, Held
  <1> QED BY <1>1, <1>3 DEF ReceiveLap, workerVars

\* At the start nothing is anywhere.
LEMMA LocatedInit == Init => Located
PROOF
  <1> SUFFICES ASSUME Init PROVE Located
    OBVIOUS
  <1>1. \A t \in Tables : Held(t) = {} /\ Range(batch[t]) = {} /\ Range(buffer[t]) = {}
    BY EmptyRange DEF Init, Held
  <1>2. \A t \in Tables, d \in Deliveries : rows[t][d] = 0
    BY DEF Init
  <1>3. NoLeakedLock
    BY DEF Init, NoLeakedLock
  <1> QED BY <1>1, <1>2, <1>3, RoutingAssumption DEF Init, Located

\* A flush of rows of the worker's table keeps everything in its place.
LEMMA LocatedFlush ==
  ASSUME TypeOK, Located, NEW t \in Tables, NEW rs \in Seq(Deliveries),
         FlushOf(t, rs), WorkerFrame, pc[t] = "select",
         \A d \in Range(rs) : d \in arrived /\ TableOf[d] = t,
         rs # <<>> /\ Range(rs) # {} => t # LapTable,
         \A u \in Tables : Range(chan'[u]) \subseteq Range(chan[u])
  PROVE  Located'
PROOF
  <1>1. Range(<<>>) = {} /\ NoTable \notin Tables /\ LapTable \in Tables
    BY EmptyRange, RoutingAssumption
  <1>2. \A u \in Tables : /\ Range(buffer'[u]) \subseteq Range(buffer[u])
                          /\ u # t => batch'[u] = batch[u]
    BY <1>1 DEF FlushOf, TypeOK
  <1>3. Range(batch'[t]) \subseteq Range(batch[t]) \cup Range(rs)
    BY DEF FlushOf, TypeOK
  <1>4. \A u \in Tables : \A d \in Held(u)' : d \in arrived' /\ TableOf[d] = u
    BY <1>2, <1>3 DEF Located, Held, WorkerFrame
  <1>5. Range(batch'[LapTable]) = {} /\ Range(buffer'[LapTable]) = {}
    <2>1. Range(buffer'[LapTable]) = {}
      BY <1>1, <1>2 DEF Located
    <2>2. CASE t = LapTable
      BY <2>2, <1>1, <1>3, <2>1, EmptyRange DEF Located
    <2>3. CASE t # LapTable
      BY <2>3, <1>1, <1>2, <2>1 DEF Located
    <2> QED BY <2>2, <2>3
  <1>6. lost' \subseteq lost \cup Range(rs)
    BY DEF FlushOf
  <1>7. \A d \in (ignored \cup lost)' : d \in arrived' /\ TableOf[d] # NoTable
    BY <1>1, <1>6 DEF Located, WorkerFrame
  <1>8. \A u \in Tables : pc'[u] # "writing" => batch'[u] = <<>>
    <2>1. \A u \in Tables \ {t} : pc'[u] = pc[u] /\ batch'[u] = batch[u]
      BY DEF FlushOf, TypeOK
    <2>2. batch[t] = <<>> /\ (pc'[t] = "writing" \/ batch'[t] = batch[t])
      BY DEF FlushOf, Located, TypeOK
    <2> QED BY <2>1, <2>2 DEF Located
  <1>9. NoLeakedLock'
    BY DEF Located, NoLeakedLock, WorkerFrame
  <1> QED BY <1>4, <1>5, <1>7, <1>8, <1>9 DEF Located, WorkerFrame

\* Every step keeps everything in its place.
LEMMA LocatedStep == TypeOK /\ Located /\ [Next]_vars => Located'
PROOF
  <1> SUFFICES ASSUME TypeOK, Located, [Next]_vars PROVE Located'
    OBVIOUS
  <1> USE DEF workerVars, sinkVars
  <1>1. ASSUME NEW d \in Deliveries, Arrive(d) PROVE Located'
    BY <1>1 DEF Arrive, Route, Located, Held, NoLeakedLock
  <1>2. ASSUME NEW d \in Deliveries, Send(d) PROVE Located'
    <2> DEFINE t == TableOf[d]
    <2>1. t \in Tables
      BY <1>2, RoutingAssumption DEF Send, Located
    <2>2. chan' = [chan EXCEPT ![t] = Append(chan[t], d)] /\ chan[t] \in Seq(Deliveries)
      BY <1>2, <2>1 DEF Send, Route, TypeOK
    <2>3. Range(chan'[t]) = Range(chan[t]) \cup {d}
      BY <2>1, <2>2, AppendRange DEF TypeOK
    <2>4. \A u \in Tables : u # t => chan'[u] = chan[u]
      BY <2>2 DEF TypeOK
    <2>5. d \in arrived
      BY <1>2 DEF Send, TypeOK
    <2>6. \A u \in Tables : \A e \in Held(u)' : e \in arrived' /\ TableOf[e] = u
      BY <1>2, <2>3, <2>4, <2>5 DEF Send, Located, Held
    <2> QED BY <1>2, <2>6 DEF Send, Located, NoLeakedLock
  <1>3. ASSUME NEW d \in Deliveries, SendPanics(d) PROVE Located'
    BY <1>3 DEF SendPanics, Located, Held, NoLeakedLock
  <1>4. ASSUME NEW t \in Tables, ReceiveRow(t) PROVE Located'
    <2> DEFINE d == Head(chan[t])
               rs == Append(buffer[t], d)
    <2>1. /\ chan[t] # <<>>
          /\ TableOf[d] = t /\ t # LapTable
          /\ pc[t] = "select"
          /\ chan' = [chan EXCEPT ![t] = Tail(chan[t])]
          /\ \/ /\ buffer' = [buffer EXCEPT ![t] = rs]
                /\ Len(rs) < BatchSize
                /\ UNCHANGED <<pc, batch, lost>>
             \/ FlushOf(t, rs)
          /\ WorkerFrame
      BY <1>4, ReceiveRowEffect
    <2>2. chan[t] \in Seq(Deliveries) /\ buffer[t] \in Seq(Deliveries)
      BY DEF TypeOK
    <2>3. /\ d \in Deliveries /\ d \in Range(chan[t])
          /\ Range(chan[t]) = Range(Tail(chan[t])) \cup {d}
      BY <2>1, <2>2, TailRange
    <2>4. Range(rs) = Range(buffer[t]) \cup {d} /\ rs \in Seq(Deliveries)
      BY <2>2, <2>3, AppendRange, AppendProperties
    <2>5. \A u \in Tables : Range(chan'[u]) \subseteq Range(chan[u])
      BY <2>1, <2>3 DEF TypeOK
    <2>6. \A e \in Range(rs) : e \in arrived /\ TableOf[e] = t
      BY <2>1, <2>3, <2>4 DEF Located, Held
    <2>7. CASE FlushOf(t, rs)
      <3> HIDE DEF rs
      <3> QED BY <2>1, <2>4, <2>5, <2>6, <2>7, LocatedFlush
    <2>8. CASE buffer' = [buffer EXCEPT ![t] = rs] /\ UNCHANGED <<pc, batch, lost>>
      <3> HIDE DEF rs
      <3>1. \A u \in Tables : \A e \in Held(u)' : e \in arrived' /\ TableOf[e] = u
        <4>1. buffer'[t] = rs /\ \A u \in Tables \ {t} : buffer'[u] = buffer[u]
          BY <2>8 DEF TypeOK
        <4>2. batch' = batch /\ arrived' = arrived
          BY <2>1, <2>8 DEF WorkerFrame
        <4> QED BY <2>5, <2>6, <4>1, <4>2 DEF Located, Held
      <3>2. Range(buffer'[LapTable]) = {}
        BY <2>1, <2>8, RoutingAssumption DEF Located, TypeOK
      <3> QED BY <2>1, <2>8, <3>1, <3>2 DEF Located, NoLeakedLock, WorkerFrame
    <2> QED BY <2>1, <2>7, <2>8
  <1>5. ASSUME NEW t \in Tables, ReceiveNilField(t) PROVE Located'
    BY <1>5 DEF ReceiveNilField, Located, Held, NoLeakedLock
  <1>6. ASSUME NEW t \in Tables, ReceiveLap(t) PROVE Located'
    <2> DEFINE d == Head(chan[t])
    <2>1. /\ chan[t] # <<>>
          /\ TableOf[d] = LapTable /\ t = LapTable
          /\ chan' = [chan EXCEPT ![t] = Tail(chan[t])]
          /\ \/ ctxDone /\ lost' = lost \cup {d} /\ lapWriters' = lapWriters
             \/ lapWriters' = lapWriters \cup {d} /\ lost' = lost
          /\ UNCHANGED <<process, ctxDone, arrived, senders, nclosed, pc, locked,
                         buffer, batch, rows, faults, ignored>>
      BY <1>6, ReceiveLapEffect
    <2>2. d \in Range(chan[t]) /\ Range(chan[t]) = Range(Tail(chan[t])) \cup {d}
      BY <2>1, TailRange DEF TypeOK
    <2>3. \A u \in Tables : Range(chan'[u]) \subseteq Range(chan[u])
      BY <2>1, <2>2 DEF TypeOK
    <2>4. d \in arrived /\ TableOf[d] # NoTable
      BY <2>1, <2>2, RoutingAssumption DEF Located, Held
    <2> HIDE DEF d
    <2>5. \A u \in Tables : \A e \in Held(u)' : e \in arrived' /\ TableOf[e] = u
      BY <2>1, <2>3 DEF Located, Held
    <2> QED BY <2>1, <2>4, <2>5 DEF Located, NoLeakedLock
  <1>7. ASSUME NEW t \in Tables, Tick(t) \/ StopWorker(t) PROVE Located'
    <2>1. pc[t] = "select" /\ FlushOf(t, buffer[t]) /\ UNCHANGED chan /\ WorkerFrame
      BY <1>7, OwnFlushEffect
    <2>2. buffer[t] \in Seq(Deliveries)
      BY DEF TypeOK
    <2>3. \A d \in Range(buffer[t]) : d \in arrived /\ TableOf[d] = t
      BY DEF Located, Held
    <2>4. Range(buffer[t]) # {} => t # LapTable
      BY DEF Located
    <2> QED BY <2>1, <2>2, <2>3, <2>4, LocatedFlush
  <1>8. ASSUME NEW t \in Tables, EndCopy(t),
               \/ /\ rows' = [rows EXCEPT ![t] =
                                [d \in Deliveries |-> @[d] + Occurrences(batch[t], d)]]
                  /\ lost' = lost
               \/ lost' = lost \cup Range(batch[t]) /\ rows' = rows
        PROVE  Located'
    <2>1. \A u \in Tables : batch'[u] = IF u = t THEN <<>> ELSE batch[u]
      BY <1>8 DEF EndCopy, TypeOK
    <2>2. Range(<<>>) = {} /\ NoTable \notin Tables
      BY EmptyRange, RoutingAssumption
    <2>3. \A u \in Tables : Range(batch'[u]) \subseteq Range(batch[u])
      BY <2>1, <2>2
    <2>4. \A u \in Tables : Held(u)' \subseteq Held(u)
      BY <1>8, <2>3 DEF EndCopy, Held
    <2>5. \A d \in lost' : d \in arrived /\ TableOf[d] # NoTable
      BY <1>8, <2>2 DEF Located, Held
    <2>6. ASSUME NEW u \in Tables, NEW d \in Deliveries, rows'[u][d] > 0
          PROVE  d \in arrived /\ TableOf[d] = u
      <3>1. CASE rows[u][d] > 0
        BY <3>1 DEF Located
      <3>2. CASE ~(rows[u][d] > 0)
        <4>1. /\ rows' = [rows EXCEPT ![t] =
                            [e \in Deliveries |-> @[e] + Occurrences(batch[t], e)]]
              /\ u = t
          BY <1>8, <2>6, <3>2 DEF TypeOK
        <4>2. rows[u][d] = 0 /\ rows'[u][d] = rows[u][d] + Occurrences(batch[t], d)
          BY <4>1, <3>2 DEF TypeOK
        <4>3. Occurrences(batch[t], d) # 0
          BY <4>2, <2>6, OccurrencesType DEF TypeOK
        <4>4. d \in Range(batch[t])
          BY <4>3, OccurrencesType DEF TypeOK
        <4> QED BY <4>1, <4>4 DEF Located, Held
      <3> QED BY <3>1, <3>2
    <2>7. \A u \in Tables : pc'[u] # "writing" => batch'[u] = <<>>
      BY <1>8, <2>1 DEF EndCopy, Located, TypeOK
    <2>8. Range(batch'[LapTable]) = {}
      BY <2>3, RoutingAssumption DEF Located
    <2> QED BY <1>8, <2>4, <2>5, <2>6, <2>7, <2>8 DEF EndCopy, Located, NoLeakedLock
  <1>9. ASSUME NEW t \in Tables, CopySucceeds(t) \/ CopyFails(t) PROVE Located'
    BY <1>8, <1>9 DEF CopySucceeds, CopyFails
  <1>10. ASSUME NEW d \in Deliveries, LapInsert(d) PROVE Located'
    <2>1. LapTable \in Tables /\ NoTable \notin Tables
      BY RoutingAssumption
    <2>2. d \in arrived /\ TableOf[d] = LapTable
      BY <1>10 DEF LapInsert, EndLapWriter, Located
    <2>3. \A u \in Tables, e \in Deliveries :
             rows'[u][e] > 0 => rows[u][e] > 0 \/ (u = LapTable /\ e = d)
      BY <1>10, <2>1 DEF LapInsert, TypeOK
    <2>4. \A u \in Tables, e \in Deliveries : rows'[u][e] > 0 => e \in arrived /\ TableOf[e] = u
      BY <2>2, <2>3 DEF Located
    <2>5. \A e \in ignored' : e \in arrived /\ TableOf[e] # NoTable
      BY <1>10, <2>1, <2>2 DEF LapInsert, Located
    <2> QED BY <1>10, <2>4, <2>5 DEF LapInsert, EndLapWriter, Located, Held, NoLeakedLock
  <1>11. ASSUME NEW d \in Deliveries, LapInsertFails(d) PROVE Located'
    <2>1. d \in arrived /\ TableOf[d] # NoTable
      BY <1>11, RoutingAssumption DEF LapInsertFails, EndLapWriter, Located
    <2> QED BY <1>11, <2>1 DEF LapInsertFails, EndLapWriter, Located, Held, NoLeakedLock
  <1>12. CASE Interrupt
    BY <1>12 DEF Interrupt, Located, Held, NoLeakedLock
  <1>13. CASE CloseNext
    BY <1>13 DEF CloseNext, Located, Held, NoLeakedLock
  <1>14. CASE Exit
    BY <1>14 DEF Exit, Located, Held, NoLeakedLock
  <1>15. CASE UNCHANGED vars
    BY <1>15 DEF vars, Located, Held, NoLeakedLock
  <1> QED
    BY <1>1, <1>2, <1>3, <1>4, <1>5, <1>6, <1>7, <1>9, <1>10, <1>11, <1>12,
       <1>13, <1>14, <1>15 DEF Next, Handler, Worker, Database

\* Channels, buffers, batches and tables only ever hold their own payloads: the
\* routing of Add and the checks of the row builders agree, for all tables.
THEOREM AlwaysLocated == Spec => []Located
  BY LocatedInit, LocatedStep, TypeCorrect, PTL DEF Spec

\* No worker ever locks itself out: every message in a channel has the payload
\* its row builder wants, so the path that skips bufferMu.Unlock is not taken.
THEOREM NeverLeaksALock == Spec => []NoLeakedLock
PROOF
  <1>1. Located => NoLeakedLock
    BY DEF Located
  <1> QED BY <1>1, AlwaysLocated, PTL

-----------------------------------------------------------------------------
(* Nothing is in two places *)

\* No row is twice with one worker.
DistinctRows ==
    \A t \in Tables :
        /\ Distinct(batch[t]) /\ Distinct(buffer[t]) /\ Distinct(chan[t])
        /\ Range(batch[t]) \cap Range(buffer[t]) = {}
        /\ Range(batch[t]) \cap Range(chan[t]) = {}
        /\ Range(buffer[t]) \cap Range(chan[t]) = {}

\* No delivery is in two places, on its way or settled, or stored twice.
Exclusive ==
    /\ DistinctRows
    /\ \A t \in Tables : Held(t) \cap (senders \cup lapWriters \cup Settled) = {}
    /\ (senders \cup lapWriters) \cap Settled = {}
    /\ senders \cap lapWriters = {}
    /\ Stored \cap (ignored \cup lost) = {}
    /\ ignored \cap lost = {}
    /\ \A t \in Tables, d \in Deliveries : rows[t][d] <= 1

\* A delivery nobody has seen is nowhere.
LEMMA UnseenIsNowhere ==
  ASSUME TypeOK, Located, NEW d \in Deliveries, d \notin arrived
  PROVE  /\ d \notin senders \cup lapWriters \cup Settled
         /\ \A t \in Tables : d \notin Held(t)
  BY DEF TypeOK, Located, Settled, Stored

\* What is stored depends on the rows alone.
LEMMA StoredUnchanged ==
  ASSUME UNCHANGED rows
  PROVE  Stored' = Stored
  BY DEF Stored

\* At the start nothing is anywhere.
LEMMA ExclusiveInit == Init => Exclusive
PROOF
  <1> SUFFICES ASSUME Init PROVE Exclusive
    OBVIOUS
  <1>1. DistinctRows /\ \A t \in Tables : Held(t) = {}
    BY EmptyRange DEF Init, DistinctRows, Held
  <1>2. \A t \in Tables, d \in Deliveries : rows[t][d] = 0
    BY DEF Init
  <1>3. Stored = {}
    BY <1>2 DEF Stored
  <1> QED BY <1>1, <1>2, <1>3 DEF Init, Exclusive, Settled

\* A flush moves rows from the buffer to one place only: the batch, or the lost.
LEMMA ExclusiveFlush ==
  ASSUME TypeOK, Located, Exclusive, NEW t \in Tables, NEW rs \in Seq(Deliveries),
         FlushOf(t, rs), WorkerFrame, pc[t] = "select",
         Distinct(rs),
         Range(rs) \subseteq Range(buffer[t]) \cup Range(chan[t]),
         Range(rs) \cap Range(chan'[t]) = {},
         Distinct(chan'[t]),
         Range(chan'[t]) \subseteq Range(chan[t]),
         \A u \in Tables : u # t => chan'[u] = chan[u]
  PROVE  Exclusive'
PROOF
  <1>1. Range(<<>>) = {} /\ Distinct(<<>>)
    BY EmptyRange
  <1>2. \A u \in Tables : buffer'[u] = IF u = t THEN <<>> ELSE buffer[u]
    BY DEF FlushOf, TypeOK
  <1>3. \A u \in Tables : u # t => batch'[u] = batch[u]
    BY DEF FlushOf, TypeOK
  <1>4. batch[t] = <<>>
    BY DEF Located
  <1>5. Range(rs) \subseteq Held(t)
    BY DEF Held
  <1>6. Stored' = Stored
    BY StoredUnchanged DEF WorkerFrame
  <1>7. \A u \in Tables : u # t => Held(u) \cap Range(rs) = {} /\ Held(u)' = Held(u)
    BY <1>2, <1>3, <1>5 DEF Located, Held
  <1>8. \A u \in Tables, d \in Deliveries : rows'[u][d] <= 1
    BY DEF Exclusive, WorkerFrame
  <1>9. CASE batch' = [batch EXCEPT ![t] = rs] /\ lost' = lost
    <2>1. batch'[t] = rs
      BY <1>9 DEF TypeOK
    <2>2. DistinctRows'
      BY <1>1, <1>2, <1>3, <2>1 DEF DistinctRows, Exclusive
    <2>3. Held(t)' \subseteq Held(t)
      BY <1>1, <1>2, <1>5, <2>1 DEF Held
    <2> QED BY <1>6, <1>7, <1>8, <1>9, <2>2, <2>3 DEF Exclusive, Settled, WorkerFrame
  <1>10. CASE batch' = batch /\ lost' = lost \cup Range(rs)
    <2>1. DistinctRows'
      BY <1>1, <1>2, <1>4, <1>10 DEF DistinctRows, Exclusive
    <2>2. Held(t)' = Range(chan'[t])
      BY <1>1, <1>2, <1>4, <1>10 DEF Held
    <2>3. Held(t)' \subseteq Held(t) /\ Held(t)' \cap Range(rs) = {}
      BY <2>2 DEF Held
    <2>4. Settled' = Settled \cup Range(rs)
      BY <1>6, <1>10 DEF Settled, WorkerFrame
    <2>5. Range(rs) \cap (senders \cup lapWriters \cup Settled) = {}
      BY <1>5 DEF Exclusive
    <2>6. \A u \in Tables : Held(u)' \cap (senders \cup lapWriters \cup Settled)' = {}
      BY <1>7, <2>3, <2>4 DEF Exclusive, WorkerFrame
    <2> QED BY <1>6, <1>8, <1>10, <2>1, <2>4, <2>5, <2>6 DEF Exclusive, Settled, WorkerFrame
  <1> QED BY <1>9, <1>10 DEF FlushOf

\* No step puts a delivery in a second place.
LEMMA ExclusiveStep == TypeOK /\ Located /\ Exclusive /\ [Next]_vars => Exclusive'
PROOF
  <1> SUFFICES ASSUME TypeOK, Located, Exclusive, [Next]_vars PROVE Exclusive'
    OBVIOUS
  <1> USE DEF workerVars, sinkVars
  <1>1. ASSUME NEW d \in Deliveries, Arrive(d) PROVE Exclusive'
    <2>1. /\ d \notin senders \cup lapWriters \cup Settled
          /\ \A t \in Tables : d \notin Held(t)
      BY <1>1, UnseenIsNowhere DEF Arrive
    <2>2. /\ senders' \subseteq senders \cup {d}
          /\ UNCHANGED <<chan, buffer, batch, lapWriters, rows, ignored, lost>>
      BY <1>1 DEF Arrive
    <2>3. /\ DistinctRows' /\ \A t \in Tables : Held(t)' = Held(t)
          /\ Settled' = Settled /\ Stored' = Stored
      BY <2>2, StoredUnchanged DEF Exclusive, DistinctRows, Held, Settled
    <2> QED BY <2>1, <2>2, <2>3 DEF Exclusive
  <1>2. ASSUME NEW d \in Deliveries, Send(d) PROVE Exclusive'
    <2> DEFINE t == TableOf[d]
    <2>1. t \in Tables /\ d \in senders
      BY <1>2, RoutingAssumption DEF Send, Located
    <2>2. chan' = [chan EXCEPT ![t] = Append(chan[t], d)] /\ chan[t] \in Seq(Deliveries)
      BY <1>2, <2>1 DEF Send, Route, TypeOK
    <2>3. d \notin Held(t) /\ d \notin lapWriters \cup Settled
      BY <2>1 DEF Exclusive
    <2>4. Range(chan'[t]) = Range(chan[t]) \cup {d} /\ Distinct(chan'[t])
      BY <2>1, <2>2, <2>3, AppendRange DEF TypeOK, Held, Exclusive, DistinctRows
    <2>5. \A u \in Tables : u # t => chan'[u] = chan[u]
      BY <2>2 DEF TypeOK
    <2>6. UNCHANGED <<buffer, batch, lapWriters, rows, ignored, lost>> /\ senders' = senders \ {d}
      BY <1>2 DEF Send
    <2>7. DistinctRows'
      <3>1. d \notin Range(batch[t]) \cup Range(buffer[t])
        BY <2>3 DEF Held
      <3> QED BY <2>4, <2>5, <2>6, <3>1 DEF Exclusive, DistinctRows
    <2>8. \A u \in Tables : Held(u)' = IF u = t THEN Held(u) \cup {d} ELSE Held(u)
      BY <2>4, <2>5, <2>6 DEF Held
    <2>9. Settled' = Settled /\ Stored' = Stored
      BY <2>6, StoredUnchanged DEF Settled
    <2> QED BY <2>3, <2>6, <2>7, <2>8, <2>9 DEF Exclusive
  <1>3. ASSUME UNCHANGED <<senders, chan, buffer, batch, lapWriters, rows, ignored, lost>>
        PROVE  Exclusive'
    BY <1>3 DEF Exclusive, DistinctRows, Held, Settled, Stored
  <1>4. ASSUME NEW t \in Tables, ReceiveRow(t) PROVE Exclusive'
    <2> DEFINE d == Head(chan[t])
               rs == Append(buffer[t], d)
    <2>1. /\ chan[t] # <<>>
          /\ TableOf[d] = t /\ t # LapTable
          /\ pc[t] = "select"
          /\ chan' = [chan EXCEPT ![t] = Tail(chan[t])]
          /\ \/ /\ buffer' = [buffer EXCEPT ![t] = rs]
                /\ Len(rs) < BatchSize
                /\ UNCHANGED <<pc, batch, lost>>
             \/ FlushOf(t, rs)
          /\ WorkerFrame
      BY <1>4, ReceiveRowEffect
    <2>2. /\ chan[t] \in Seq(Deliveries) /\ buffer[t] \in Seq(Deliveries)
          /\ Distinct(chan[t]) /\ Distinct(buffer[t])
      BY DEF TypeOK, Exclusive, DistinctRows
    <2>3. /\ d \in Deliveries /\ d \in Range(chan[t])
          /\ Range(chan[t]) = Range(Tail(chan[t])) \cup {d}
          /\ Distinct(Tail(chan[t])) /\ d \notin Range(Tail(chan[t]))
      BY <2>1, <2>2, TailRange
    <2>4. d \notin Range(buffer[t]) /\ d \notin Range(batch[t])
      BY <2>3 DEF Exclusive, DistinctRows
    <2>5. Range(rs) = Range(buffer[t]) \cup {d} /\ Distinct(rs) /\ rs \in Seq(Deliveries)
      BY <2>2, <2>3, <2>4, AppendRange, AppendProperties
    <2>6. chan'[t] = Tail(chan[t]) /\ \A u \in Tables : u # t => chan'[u] = chan[u]
      BY <2>1 DEF TypeOK
    <2>7. /\ Range(rs) \subseteq Range(buffer[t]) \cup Range(chan[t])
          /\ Range(rs) \cap Range(chan'[t]) = {}
          /\ Distinct(chan'[t]) /\ Range(chan'[t]) \subseteq Range(chan[t])
      BY <2>3, <2>5, <2>6 DEF Exclusive, DistinctRows
    <2>8. CASE FlushOf(t, rs)
      <3> HIDE DEF rs
      <3> QED BY <2>1, <2>5, <2>6, <2>7, <2>8, ExclusiveFlush
    <2>9. CASE buffer' = [buffer EXCEPT ![t] = rs] /\ UNCHANGED <<pc, batch, lost>>
      <3>1. buffer'[t] = rs /\ \A u \in Tables : u # t => buffer'[u] = buffer[u]
        BY <2>9 DEF TypeOK
      <3>2. DistinctRows'
        BY <2>3, <2>4, <2>5, <2>6, <2>7, <2>9, <3>1 DEF Exclusive, DistinctRows
      <3>3. \A u \in Tables : Held(u)' = Held(u)
        BY <2>3, <2>5, <2>6, <2>9, <3>1 DEF Held
      <3>4. Settled' = Settled /\ Stored' = Stored
        BY <2>1, <2>9, StoredUnchanged DEF WorkerFrame, Settled
      <3> QED BY <2>1, <2>9, <3>2, <3>3, <3>4 DEF Exclusive, WorkerFrame
    <2> QED BY <2>1, <2>8, <2>9
  <1>5. ASSUME NEW t \in Tables, ReceiveLap(t) PROVE Exclusive'
    <2> DEFINE d == Head(chan[t])
    <2>1. /\ chan[t] # <<>>
          /\ TableOf[d] = LapTable /\ t = LapTable
          /\ chan' = [chan EXCEPT ![t] = Tail(chan[t])]
          /\ \/ ctxDone /\ lost' = lost \cup {d} /\ lapWriters' = lapWriters
             \/ lapWriters' = lapWriters \cup {d} /\ lost' = lost
          /\ UNCHANGED <<process, ctxDone, arrived, senders, nclosed, pc, locked,
                         buffer, batch, rows, faults, ignored>>
      BY <1>5, ReceiveLapEffect
    <2>2. /\ d \in Range(chan[t])
          /\ Range(chan[t]) = Range(Tail(chan[t])) \cup {d}
          /\ Distinct(Tail(chan[t])) /\ d \notin Range(Tail(chan[t]))
      BY <2>1, TailRange DEF TypeOK, Exclusive, DistinctRows
    <2>3. chan'[t] = Tail(chan[t]) /\ \A u \in Tables : u # t => chan'[u] = chan[u]
      BY <2>1 DEF TypeOK
    <2>4. d \notin Range(buffer[t]) \cup Range(batch[t])
      BY <2>2 DEF Exclusive, DistinctRows
    <2>5. d \in Held(t) /\ \A u \in Tables : u # t => d \notin Held(u)
      BY <2>1, <2>2 DEF Held, Located
    <2> HIDE DEF d
    <2>6. DistinctRows'
      <3>1. UNCHANGED <<batch, buffer>>
        BY <2>1
      <3>2. \A u \in Tables : Distinct(chan'[u]) /\ Range(chan'[u]) \subseteq Range(chan[u])
        BY <2>2, <2>3 DEF Exclusive, DistinctRows
      <3> QED BY <3>1, <3>2 DEF Exclusive, DistinctRows
    <2>7. \A u \in Tables : Held(u)' \subseteq Held(u) \ {d}
      BY <2>1, <2>2, <2>3, <2>4, <2>5 DEF Held
    <2>8. Stored' = Stored
      BY <2>1, StoredUnchanged
    <2>9. d \notin senders \cup lapWriters \cup Settled
      BY <2>5 DEF Exclusive
    <2>10. CASE lost' = lost \cup {d} /\ lapWriters' = lapWriters
      BY <2>1, <2>6, <2>7, <2>8, <2>9, <2>10 DEF Exclusive, Settled
    <2>11. CASE lapWriters' = lapWriters \cup {d} /\ lost' = lost
      BY <2>1, <2>6, <2>7, <2>8, <2>9, <2>11 DEF Exclusive, Settled
    <2> QED BY <2>1, <2>10, <2>11
  <1>6. ASSUME NEW t \in Tables, Tick(t) \/ StopWorker(t) PROVE Exclusive'
    <2>1. pc[t] = "select" /\ FlushOf(t, buffer[t]) /\ UNCHANGED chan /\ WorkerFrame
      BY <1>6, OwnFlushEffect
    <2>2. /\ buffer[t] \in Seq(Deliveries) /\ Distinct(buffer[t]) /\ Distinct(chan'[t])
          /\ Range(buffer[t]) \cap Range(chan'[t]) = {}
      BY <2>1 DEF TypeOK, Exclusive, DistinctRows
    <2> QED BY <2>1, <2>2, ExclusiveFlush
  <1>7. ASSUME NEW t \in Tables, EndCopy(t)
        PROVE  /\ DistinctRows'
               /\ \A u \in Tables : Held(u)' \subseteq Held(u) \ Range(batch[t])
               /\ UNCHANGED <<senders, lapWriters, ignored>>
               /\ Range(batch[t]) \subseteq Held(t)
    <2>1. \A u \in Tables : batch'[u] = IF u = t THEN <<>> ELSE batch[u]
      BY <1>7 DEF EndCopy, TypeOK
    <2>2. UNCHANGED <<senders, lapWriters, ignored, buffer, chan>>
      BY <1>7 DEF EndCopy
    <2>3. DistinctRows'
      BY <2>1, <2>2, EmptyRange DEF Exclusive, DistinctRows
    <2>4. Held(t)' \subseteq Held(t) \ Range(batch[t])
      BY <2>1, <2>2, EmptyRange DEF Held, Exclusive, DistinctRows
    <2>5. \A u \in Tables : u # t => Held(u)' = Held(u) /\ Held(u) \cap Range(batch[t]) = {}
      BY <2>1, <2>2 DEF Held, Located
    <2> QED BY <2>2, <2>3, <2>4, <2>5 DEF Held
  <1>8. ASSUME NEW t \in Tables, CopySucceeds(t) PROVE Exclusive'
    <2>1. /\ DistinctRows'
          /\ \A u \in Tables : Held(u)' \subseteq Held(u) \ Range(batch[t])
          /\ UNCHANGED <<senders, lapWriters, ignored>>
          /\ Range(batch[t]) \subseteq Held(t)
      BY <1>7, <1>8 DEF CopySucceeds
    <2>2. lost' = lost
      BY <1>8 DEF CopySucceeds
    <2>3. Range(batch[t]) \cap (senders \cup lapWriters \cup Settled) = {}
      BY <2>1 DEF Exclusive
    <2>4. \A u \in Tables, d \in Deliveries :
             rows'[u][d] = IF u = t THEN rows[u][d] + Occurrences(batch[t], d) ELSE rows[u][d]
      BY <1>8 DEF CopySucceeds, TypeOK
    <2>5. \A d \in Deliveries : Occurrences(batch[t], d) =
                                   IF d \in Range(batch[t]) THEN 1 ELSE 0
      BY OccurrencesType DEF TypeOK, Exclusive, DistinctRows
    <2>6. \A d \in Range(batch[t]) : d \in Deliveries /\ rows[t][d] = 0
      <3>1. Range(batch[t]) \subseteq Deliveries
        BY RangeOfSeq DEF TypeOK
      <3>2. \A d \in Range(batch[t]) : ~(rows[t][d] > 0)
        BY <2>3, <3>1 DEF Settled, Stored
      <3> QED BY <3>1, <3>2 DEF TypeOK
    <2>7. \A u \in Tables, d \in Deliveries : rows'[u][d] <= 1
      <3> SUFFICES ASSUME NEW u \in Tables, NEW d \in Deliveries
                   PROVE  rows'[u][d] <= 1
        OBVIOUS
      <3>1. rows[u][d] \in Nat /\ rows[u][d] <= 1
        BY DEF Exclusive, TypeOK
      <3>2. CASE u = t /\ d \in Range(batch[t])
        BY <2>4, <2>5, <2>6, <3>2
      <3>3. CASE u = t /\ d \notin Range(batch[t])
        BY <2>4, <2>5, <3>1, <3>3
      <3>4. CASE u # t
        BY <2>4, <3>1, <3>4
      <3> QED BY <3>2, <3>3, <3>4
    <2>8. Stored' \subseteq Stored \cup Range(batch[t])
      <3> SUFFICES ASSUME NEW d \in Deliveries, d \notin Range(batch[t]),
                          NEW u \in Tables, rows'[u][d] > 0
                   PROVE  rows[u][d] > 0
        BY DEF Stored
      <3>1. rows[u][d] \in Nat
        BY DEF TypeOK
      <3> QED BY <2>4, <2>5, <3>1
    <2>9. Settled' \subseteq Settled \cup Range(batch[t])
      BY <2>1, <2>2, <2>8 DEF Settled
    <2>10. \A u \in Tables : Held(u)' \cap (senders \cup lapWriters \cup Settled)' = {}
      BY <2>1, <2>9 DEF Exclusive
    <2>11. Stored' \cap (ignored \cup lost)' = {}
      BY <2>1, <2>2, <2>3, <2>8 DEF Exclusive, Settled
    <2> QED BY <2>1, <2>2, <2>3, <2>7, <2>9, <2>10, <2>11 DEF Exclusive
  <1>9. ASSUME NEW t \in Tables, CopyFails(t) PROVE Exclusive'
    <2>1. /\ DistinctRows'
          /\ \A u \in Tables : Held(u)' \subseteq Held(u) \ Range(batch[t])
          /\ UNCHANGED <<senders, lapWriters, ignored>>
          /\ Range(batch[t]) \subseteq Held(t)
      BY <1>7, <1>9 DEF CopyFails
    <2>2. lost' = lost \cup Range(batch[t]) /\ rows' = rows
      BY <1>9 DEF CopyFails
    <2>3. Range(batch[t]) \cap (senders \cup lapWriters \cup Settled) = {}
      BY <2>1 DEF Exclusive
    <2>4. Stored' = Stored /\ Settled' = Settled \cup Range(batch[t])
      BY <2>1, <2>2, StoredUnchanged DEF Settled
    <2>5. \A u \in Tables : Held(u)' \cap (senders \cup lapWriters \cup Settled)' = {}
      BY <2>1, <2>4 DEF Exclusive
    <2> QED BY <2>1, <2>2, <2>3, <2>4, <2>5 DEF Exclusive, Settled
  <1>10. ASSUME NEW d \in Deliveries, LapInsert(d) PROVE Exclusive'
    <2>1. /\ d \in lapWriters /\ lapWriters' = lapWriters \ {d}
          /\ UNCHANGED <<senders, chan, buffer, batch, lost>>
      BY <1>10 DEF LapInsert, EndLapWriter
    <2>2. d \notin senders \cup Settled /\ \A u \in Tables : d \notin Held(u)
      BY <2>1 DEF Exclusive
    <2>3. DistinctRows' /\ \A u \in Tables : Held(u)' = Held(u)
      BY <2>1 DEF Exclusive, DistinctRows, Held
    <2>4. CASE ignored' = ignored \cup {d} /\ rows' = rows
      <3>1. Stored' = Stored /\ Settled' = Settled \cup {d}
        BY <2>1, <2>4, StoredUnchanged DEF Settled
      <3> QED BY <2>1, <2>2, <2>3, <2>4, <3>1 DEF Exclusive, Settled
    <2>5. CASE ignored' = ignored /\ rows' = [rows EXCEPT ![LapTable][d] = @ + 1]
      <3>1. LapTable \in Tables
        BY RoutingAssumption
      <3>2. \A u \in Tables, e \in Deliveries :
               rows'[u][e] = IF u = LapTable /\ e = d THEN rows[u][e] + 1 ELSE rows[u][e]
        BY <2>5, <3>1 DEF TypeOK
      <3>3. rows[LapTable][d] = 0
        BY <2>2, <3>1 DEF Settled, Stored, TypeOK
      <3>4. \A u \in Tables, e \in Deliveries : rows'[u][e] <= 1
        BY <3>2, <3>3 DEF Exclusive
      <3>5. Stored' \subseteq Stored \cup {d}
        BY <3>2 DEF Stored
      <3>6. Settled' \subseteq Settled \cup {d}
        BY <2>1, <2>5, <3>5 DEF Settled
      <3> QED BY <2>1, <2>2, <2>3, <2>5, <3>4, <3>5, <3>6 DEF Exclusive, Settled
    <2> QED BY <1>10, <2>4, <2>5 DEF LapInsert
  <1>11. ASSUME NEW d \in Deliveries, LapInsertFails(d) PROVE Exclusive'
    <2>1. /\ d \in lapWriters /\ lapWriters' = lapWriters \ {d}
          /\ lost' = lost \cup {d}
          /\ UNCHANGED <<senders, chan, buffer, batch, rows, ignored>>
      BY <1>11 DEF LapInsertFails, EndLapWriter
    <2>2. d \notin senders \cup Settled /\ \A u \in Tables : d \notin Held(u)
      BY <2>1 DEF Exclusive
    <2>3. DistinctRows' /\ \A u \in Tables : Held(u)' = Held(u)
      BY <2>1 DEF Exclusive, DistinctRows, Held
    <2>4. Stored' = Stored /\ Settled' = Settled \cup {d}
      BY <2>1, StoredUnchanged DEF Settled
    <2> QED BY <2>1, <2>2, <2>3, <2>4 DEF Exclusive, Settled
  <1>12. ASSUME \/ \E d \in Deliveries : SendPanics(d)
                \/ \E t \in Tables : ReceiveNilField(t)
                \/ Interrupt \/ CloseNext \/ Exit \/ UNCHANGED vars
         PROVE  Exclusive'
    BY <1>3, <1>12 DEF SendPanics, ReceiveNilField, Interrupt, CloseNext, Exit, vars
  <1> QED
    BY <1>1, <1>2, <1>4, <1>5, <1>6, <1>8, <1>9, <1>10, <1>11, <1>12
       DEF Next, Handler, Worker, Database

\* At any time a delivery is in at most one goroutine, channel, buffer, batch or
\* lap writer, and is none of these once it is stored, superseded or lost.
THEOREM AlwaysExclusive == Spec => []Exclusive
  BY ExclusiveInit, ExclusiveStep, TypeCorrect, AlwaysLocated, PTL DEF Spec

\* At most once, and in the right table: whatever the number of tables,
\* deliveries, faults and the sizes, a message has at most one row, in the
\* table of its payload.
THEOREM AtMostOneRow == Spec => []StoredOnceInItsTable
PROOF
  <1>1. TypeOK /\ Located /\ Exclusive => StoredOnceInItsTable
    BY DEF TypeOK, Located, Exclusive, StoredOnceInItsTable
  <1> QED BY <1>1, TypeCorrect, AlwaysLocated, AlwaysExclusive, PTL

\* The rows and messages of a worker are those of its three sequences.
LEMMA PipeRange ==
  ASSUME TypeOK, NEW t \in Tables
  PROVE  Range(Pipe(t)) = Held(t)
PROOF
  <1>1. /\ batch[t] \in Seq(Deliveries) /\ buffer[t] \in Seq(Deliveries)
        /\ chan[t] \in Seq(Deliveries)
    BY DEF TypeOK
  <1>2. /\ batch[t] \o buffer[t] \in Seq(Deliveries)
        /\ Range(batch[t] \o buffer[t]) = Range(batch[t]) \cup Range(buffer[t])
    BY <1>1, RangeConcatenation, ConcatProperties
  <1>3. \A s \in Seq(Deliveries) : Range(s \o chan[t]) = Range(s) \cup Range(chan[t])
    BY <1>1, RangeConcatenation
  <1> QED BY <1>2, <1>3 DEF Pipe, Held

\* A delivery is in one place at a time, on its way or settled in one way.
THEOREM AlwaysOnePlace == Spec => []OnePlace
PROOF
  <1>1. TypeOK /\ Exclusive => OnePlace
    BY PipeRange DEF Exclusive, OnePlace
  <1> QED BY <1>1, TypeCorrect, AlwaysExclusive, PTL

-----------------------------------------------------------------------------
(* Nothing is forgotten, but for the losses that have a name *)

\* Where a delivery that Add has sent somewhere may be, whoever is still alive.
Accounted(d) == d \in senders \cup lapWriters \cup Settled \/ \E t \in Tables : d \in Held(t)

\* No delivery that Add has sent somewhere is missing.
AllAccounted == \A d \in Routed : Accounted(d)

\* A flush loses sight of no row.
LEMMA AccountedFlush ==
  ASSUME TypeOK, Located, AllAccounted, NEW t \in Tables, NEW rs \in Seq(Deliveries),
         FlushOf(t, rs), WorkerFrame, pc[t] = "select",
         Range(buffer[t]) \cup Range(chan[t]) \subseteq Range(rs) \cup Range(chan'[t]),
         \A u \in Tables : u # t => chan'[u] = chan[u]
  PROVE  AllAccounted'
PROOF
  <1>1. \A u \in Tables : u # t => Held(u)' = Held(u)
    BY DEF FlushOf, TypeOK, Held
  <1>2. batch[t] = <<>> /\ Range(<<>>) = {}
    BY EmptyRange DEF Located
  <1>3. Routed' = Routed /\ Stored' = Stored
    BY StoredUnchanged DEF WorkerFrame, Routed
  <1>4. Settled \subseteq Settled' /\ UNCHANGED <<senders, lapWriters>>
    BY <1>3 DEF Settled, FlushOf, WorkerFrame
  <1>5. Held(t) \subseteq Held(t)' \cup Settled'
    <2>1. Range(rs) \subseteq Range(batch'[t]) \cup lost'
      BY DEF FlushOf, TypeOK
    <2> QED BY <1>2, <2>1 DEF Held, Settled
  <1> QED BY <1>1, <1>3, <1>4, <1>5 DEF AllAccounted, Accounted

\* No step loses sight of a delivery.
LEMMA AccountedStep ==
  TypeOK /\ Located /\ Exclusive /\ AllAccounted /\ [Next]_vars => AllAccounted'
PROOF
  <1> SUFFICES ASSUME TypeOK, Located, Exclusive, AllAccounted, [Next]_vars
               PROVE  AllAccounted'
    OBVIOUS
  <1> USE DEF workerVars, sinkVars
  <1>1. ASSUME NEW d \in Deliveries, Arrive(d) PROVE AllAccounted'
    <2>1. UNCHANGED <<chan, buffer, batch, lapWriters, rows, ignored, lost>>
      BY <1>1 DEF Arrive
    <2>2. Settled' = Settled /\ \A t \in Tables : Held(t)' = Held(t)
      BY <2>1, StoredUnchanged DEF Settled, Held
    <2>3. senders \subseteq senders' /\ Routed' \subseteq Routed \cup senders'
      BY <1>1 DEF Arrive, Routed, Route
    <2> QED BY <2>1, <2>2, <2>3 DEF AllAccounted, Accounted
  <1>2. ASSUME NEW d \in Deliveries, Send(d) PROVE AllAccounted'
    <2> DEFINE t == TableOf[d]
    <2>1. t \in Tables
      BY <1>2, RoutingAssumption DEF Send, Located
    <2>2. chan' = [chan EXCEPT ![t] = Append(chan[t], d)] /\ chan[t] \in Seq(Deliveries)
      BY <1>2, <2>1 DEF Send, Route, TypeOK
    <2>3. Range(chan'[t]) = Range(chan[t]) \cup {d}
      BY <2>1, <2>2, AppendRange DEF TypeOK
    <2>4. \A u \in Tables : Range(chan[u]) \subseteq Range(chan'[u])
      BY <2>2, <2>3 DEF TypeOK
    <2>5. /\ UNCHANGED <<arrived, buffer, batch, lapWriters, rows, ignored, lost>>
          /\ senders' = senders \ {d}
      BY <1>2 DEF Send
    <2>6. d \in Held(t)' /\ \A u \in Tables : Held(u) \subseteq Held(u)'
      BY <2>3, <2>4, <2>5 DEF Held
    <2>7. Settled' = Settled /\ Routed' = Routed
      BY <2>5, StoredUnchanged DEF Settled, Routed
    <2> QED BY <2>1, <2>5, <2>6, <2>7 DEF AllAccounted, Accounted
  <1>3. ASSUME NEW t \in Tables, ReceiveRow(t) PROVE AllAccounted'
    <2> DEFINE d == Head(chan[t])
               rs == Append(buffer[t], d)
    <2>1. /\ chan[t] # <<>>
          /\ TableOf[d] = t /\ t # LapTable
          /\ pc[t] = "select"
          /\ chan' = [chan EXCEPT ![t] = Tail(chan[t])]
          /\ \/ /\ buffer' = [buffer EXCEPT ![t] = rs]
                /\ Len(rs) < BatchSize
                /\ UNCHANGED <<pc, batch, lost>>
             \/ FlushOf(t, rs)
          /\ WorkerFrame
      BY <1>3, ReceiveRowEffect
    <2>2. chan[t] \in Seq(Deliveries) /\ buffer[t] \in Seq(Deliveries)
      BY DEF TypeOK
    <2>3. d \in Deliveries /\ Range(chan[t]) = Range(Tail(chan[t])) \cup {d}
      BY <2>1, <2>2, TailRange
    <2>4. Range(rs) = Range(buffer[t]) \cup {d} /\ rs \in Seq(Deliveries)
      BY <2>2, <2>3, AppendRange, AppendProperties
    <2>5. chan'[t] = Tail(chan[t]) /\ \A u \in Tables : u # t => chan'[u] = chan[u]
      BY <2>1 DEF TypeOK
    <2>6. Range(buffer[t]) \cup Range(chan[t]) \subseteq Range(rs) \cup Range(chan'[t])
      BY <2>3, <2>4, <2>5
    <2>7. CASE FlushOf(t, rs)
      <3> HIDE DEF rs
      <3> QED BY <2>1, <2>4, <2>5, <2>6, <2>7, AccountedFlush
    <2>8. CASE buffer' = [buffer EXCEPT ![t] = rs] /\ UNCHANGED <<pc, batch, lost>>
      <3>1. buffer'[t] = rs /\ \A u \in Tables : u # t => buffer'[u] = buffer[u]
        BY <2>8 DEF TypeOK
      <3>2. \A u \in Tables : Held(u) \subseteq Held(u)'
        BY <2>3, <2>4, <2>5, <2>8, <3>1 DEF Held
      <3>3. Settled' = Settled /\ Routed' = Routed
        BY <2>1, <2>8, StoredUnchanged DEF WorkerFrame, Settled, Routed
      <3> QED BY <2>1, <3>2, <3>3 DEF AllAccounted, Accounted, WorkerFrame
    <2> QED BY <2>1, <2>7, <2>8
  <1>4. ASSUME NEW t \in Tables, ReceiveLap(t) PROVE AllAccounted'
    <2> DEFINE d == Head(chan[t])
    <2>1. /\ chan[t] # <<>>
          /\ chan' = [chan EXCEPT ![t] = Tail(chan[t])]
          /\ \/ ctxDone /\ lost' = lost \cup {d} /\ lapWriters' = lapWriters
             \/ lapWriters' = lapWriters \cup {d} /\ lost' = lost
          /\ UNCHANGED <<process, ctxDone, arrived, senders, nclosed, pc, locked,
                         buffer, batch, rows, faults, ignored>>
      BY <1>4, ReceiveLapEffect
    <2>2. Range(chan[t]) = Range(Tail(chan[t])) \cup {d}
      BY <2>1, TailRange DEF TypeOK
    <2>3. chan'[t] = Tail(chan[t]) /\ \A u \in Tables : u # t => chan'[u] = chan[u]
      BY <2>1 DEF TypeOK
    <2> HIDE DEF d
    <2>4. \A u \in Tables : Held(u) \subseteq Held(u)' \cup {d}
      BY <2>1, <2>2, <2>3 DEF Held
    <2>5. /\ Routed' = Routed /\ Settled \subseteq Settled' /\ senders' = senders
          /\ lapWriters \subseteq lapWriters' /\ d \in lapWriters' \cup Settled'
      BY <2>1, StoredUnchanged DEF Settled, Routed
    <2> QED BY <2>4, <2>5 DEF AllAccounted, Accounted
  <1>5. ASSUME NEW t \in Tables, Tick(t) \/ StopWorker(t) PROVE AllAccounted'
    <2>1. pc[t] = "select" /\ FlushOf(t, buffer[t]) /\ UNCHANGED chan /\ WorkerFrame
      BY <1>5, OwnFlushEffect
    <2>2. buffer[t] \in Seq(Deliveries)
      BY DEF TypeOK
    <2> QED BY <2>1, <2>2, AccountedFlush
  <1>6. ASSUME NEW t \in Tables, CopySucceeds(t) \/ CopyFails(t) PROVE AllAccounted'
    <2>1. /\ \A u \in Tables : u # t => batch'[u] = batch[u]
          /\ UNCHANGED <<arrived, senders, lapWriters, chan, buffer, ignored>>
      BY <1>6 DEF CopySucceeds, CopyFails, EndCopy, TypeOK
    <2>2. \A u \in Tables : Held(u) \subseteq Held(u)' \cup Range(batch[t])
      BY <2>1 DEF Held
    <2>3. Range(batch[t]) \cup Settled \subseteq Settled'
      <3>1. CASE CopyFails(t)
        BY <2>1, <3>1, StoredUnchanged DEF CopyFails, Settled
      <3>2. CASE CopySucceeds(t)
        <4>1. \A u \in Tables, d \in Deliveries :
                 rows'[u][d] = IF u = t THEN rows[u][d] + Occurrences(batch[t], d) ELSE rows[u][d]
          BY <3>2 DEF CopySucceeds, TypeOK
        <4>2. \A d \in Deliveries : /\ Occurrences(batch[t], d) \in Nat
                                    /\ d \in Range(batch[t]) => Occurrences(batch[t], d) = 1
          BY OccurrencesType DEF TypeOK, Exclusive, DistinctRows
        <4>3. Range(batch[t]) \subseteq Deliveries
          BY RangeOfSeq DEF TypeOK
        <4>4. ASSUME NEW d \in Stored PROVE d \in Stored'
          <5>1. PICK u \in Tables : rows[u][d] > 0
            BY DEF Stored
          <5>2. d \in Deliveries /\ rows[u][d] \in Nat
            BY DEF Stored, TypeOK
          <5>3. rows'[u][d] > 0
            BY <4>1, <4>2, <5>1, <5>2
          <5> QED BY <5>2, <5>3 DEF Stored
        <4>5. ASSUME NEW d \in Range(batch[t]) PROVE d \in Stored'
          <5>1. d \in Deliveries /\ rows[t][d] \in Nat
            BY <4>3 DEF TypeOK
          <5>2. rows'[t][d] > 0
            BY <4>1, <4>2, <5>1
          <5> QED BY <5>1, <5>2 DEF Stored
        <4> QED BY <2>1, <3>2, <4>4, <4>5 DEF CopySucceeds, Settled
      <3> QED BY <1>6, <3>1, <3>2
    <2> QED BY <2>1, <2>2, <2>3 DEF AllAccounted, Accounted, Routed
  <1>7. ASSUME NEW d \in Deliveries, LapInsert(d) \/ LapInsertFails(d) PROVE AllAccounted'
    <2>1. /\ lapWriters' = lapWriters \ {d}
          /\ UNCHANGED <<arrived, senders, chan, buffer, batch>>
      BY <1>7 DEF LapInsert, LapInsertFails, EndLapWriter
    <2>2. \A u \in Tables : Held(u)' = Held(u)
      BY <2>1 DEF Held
    <2>3. Settled \cup {d} \subseteq Settled'
      <3>1. CASE rows' = rows /\ d \in (ignored \cup lost)' /\ ignored \subseteq ignored' /\ lost \subseteq lost'
        BY <3>1, StoredUnchanged DEF Settled
      <3>2. CASE rows' = [rows EXCEPT ![LapTable][d] = @ + 1] /\ ignored' = ignored /\ lost' = lost
        <4>1. LapTable \in Tables
          BY RoutingAssumption
        <4>2. \A u \in Tables, e \in Deliveries :
                 rows'[u][e] = IF u = LapTable /\ e = d THEN rows[u][e] + 1 ELSE rows[u][e]
          BY <3>2, <4>1 DEF TypeOK
        <4>3. \A u \in Tables, e \in Deliveries : rows[u][e] \in Nat
          BY DEF TypeOK
        <4>4. Stored \cup {d} \subseteq Stored'
          BY <4>1, <4>2, <4>3 DEF Stored
        <4> QED BY <3>2, <4>4 DEF Settled
      <3> QED BY <1>7, <3>1, <3>2 DEF LapInsert, LapInsertFails
    <2> QED BY <2>1, <2>2, <2>3 DEF AllAccounted, Accounted, Routed
  <1>8. ASSUME UNCHANGED <<arrived, senders, chan, buffer, batch, lapWriters, rows, ignored, lost>>
        PROVE  AllAccounted'
    BY <1>8 DEF AllAccounted, Accounted, Routed, Held, Settled, Stored
  <1>9. ASSUME \/ \E d \in Deliveries : SendPanics(d)
               \/ \E t \in Tables : ReceiveNilField(t)
               \/ Interrupt \/ CloseNext \/ Exit \/ UNCHANGED vars
        PROVE  AllAccounted'
    BY <1>8, <1>9 DEF SendPanics, ReceiveNilField, Interrupt, CloseNext, Exit, vars
  <1> QED
    BY <1>1, <1>2, <1>3, <1>4, <1>5, <1>6, <1>7, <1>9 DEF Next, Handler, Worker, Database

\* What a shutdown has to be before it stops anything: channels are closed and
\* workers stop only after the signal, a stopped worker has nothing left in its
\* buffer, and the process does not return from main during a CopyFrom.
OrderlyStop ==
    /\ nclosed > 0 => ctxDone
    /\ \A t \in Tables : pc[t] = "stopped" => ctxDone /\ buffer[t] = <<>>
    /\ process = "exited" => ctxDone /\ \A t \in Tables : pc[t] # "writing"

\* A flush that does not stop its worker.
LEMMA OrderlyFlush ==
  ASSUME TypeOK, OrderlyStop, NEW t \in Tables, NEW rs, Flush(t, rs, "select"),
         UNCHANGED <<process, ctxDone, nclosed>>, Running
  PROVE  OrderlyStop'
PROOF
  <1>1. /\ pc'[t] \in {"select", "writing"}
        /\ \A u \in Tables : u # t => pc'[u] = pc[u] /\ buffer'[u] = buffer[u]
    BY DEF Flush, TypeOK
  <1> QED BY <1>1 DEF OrderlyStop, Running

\* Every step keeps to the order of a shutdown.
LEMMA OrderlyStep == TypeOK /\ Located /\ OrderlyStop /\ [Next]_vars => OrderlyStop'
PROOF
  <1> SUFFICES ASSUME TypeOK, Located, OrderlyStop, [Next]_vars
               PROVE  OrderlyStop'
    OBVIOUS
  <1> USE DEF workerVars, sinkVars
  <1>1. ASSUME NEW t \in Tables, ReceiveRow(t) PROVE OrderlyStop'
    <2> DEFINE rs == Append(buffer[t], Head(chan[t]))
    <2>1. /\ Running /\ pc[t] = "select"
          /\ UNCHANGED <<process, ctxDone, nclosed>>
      BY <1>1 DEF ReceiveRow, AtSelect
    <2>2. CASE Flush(t, rs, "select")
      <3> HIDE DEF rs
      <3> QED BY <2>1, <2>2, OrderlyFlush
    <2>3. CASE UNCHANGED pc /\ \A u \in Tables : u # t => buffer'[u] = buffer[u]
      BY <2>1, <2>3 DEF OrderlyStop, Running
    <2>4. \/ Flush(t, rs, "select")
          \/ /\ UNCHANGED pc
             /\ buffer' = [buffer EXCEPT ![t] = rs] \/ UNCHANGED buffer
      BY <1>1 DEF ReceiveRow, Buffer
    <2> HIDE DEF rs
    <2>5. \/ Flush(t, rs, "select")
          \/ UNCHANGED pc /\ \A u \in Tables : u # t => buffer'[u] = buffer[u]
      BY <2>4 DEF TypeOK
    <2> QED BY <2>2, <2>3, <2>5
  <1>2. ASSUME NEW t \in Tables, Tick(t) PROVE OrderlyStop'
    BY <1>2, OrderlyFlush DEF Tick, AtSelect
  <1>3. ASSUME NEW t \in Tables, StopWorker(t) PROVE OrderlyStop'
    <2>1. ctxDone
      BY <1>3 DEF StopWorker, Closed, OrderlyStop, TypeOK
    <2>2. /\ Running /\ UNCHANGED <<process, ctxDone, nclosed>>
          /\ buffer'[t] = <<>>
          /\ \A u \in Tables : u # t => pc'[u] = pc[u] /\ buffer'[u] = buffer[u]
      BY <1>3 DEF StopWorker, AtSelect, Flush, TypeOK
    <2> QED BY <2>1, <2>2 DEF OrderlyStop, Running
  <1>4. ASSUME NEW t \in Tables, CopySucceeds(t) \/ CopyFails(t) PROVE OrderlyStop'
    <2>1. /\ Running /\ UNCHANGED <<process, ctxDone, nclosed, buffer>>
          /\ pc'[t] = "select"
          /\ \A u \in Tables : u # t => pc'[u] = pc[u]
      BY <1>4 DEF CopySucceeds, CopyFails, EndCopy, TypeOK
    <2> QED BY <2>1 DEF OrderlyStop, Running
  <1>5. ASSUME Interrupt \/ CloseNext \/ Exit PROVE OrderlyStop'
    BY <1>5 DEF Interrupt, CloseNext, Exit, OrderlyStop, Running
  <1>6. ASSUME \/ \E d \in Deliveries : SendPanics(d)
               \/ \E t \in Tables : ReceiveNilField(t)
        PROVE  OrderlyStop'
    BY <1>6 DEF SendPanics, ReceiveNilField, OrderlyStop
  <1>7. ASSUME UNCHANGED <<process, ctxDone, nclosed, pc, buffer>> PROVE OrderlyStop'
    BY <1>7 DEF OrderlyStop
  <1>8. ASSUME \/ \E d \in Deliveries : \/ Arrive(d) \/ Send(d)
                                        \/ LapInsert(d) \/ LapInsertFails(d)
               \/ \E t \in Tables : ReceiveLap(t)
               \/ UNCHANGED vars
        PROVE  OrderlyStop'
    BY <1>7, <1>8 DEF Arrive, Send, LapInsert, LapInsertFails, EndLapWriter, ReceiveLap, vars
  <1> QED
    BY <1>1, <1>2, <1>3, <1>4, <1>5, <1>6, <1>8 DEF Next, Handler, Worker, Database

\* A delivery that is somewhere, in a program that stops in order, is in the
\* hands of a live worker or one of the two named losses.
LEMMA WhereItIs ==
  ASSUME TypeOK, Located, OrderlyStop, NEW d \in Routed, Accounted(d), d \notin Settled
  PROVE  InGoodHands(d) \/ LeftBehind(d) \/ LostInCrash(d)
PROOF
  <1> DEFINE t == TableOf[d]
  <1>1. t \in Tables
    BY RoutingAssumption DEF Routed, TypeOK
  <1>2. Range(Pipe(t)) = Range(batch[t]) \cup Range(buffer[t]) \cup Range(chan[t])
    BY <1>1, PipeRange DEF Held
  <1>3. ~ctxDone => Running \/ process = "crashed"
    BY DEF OrderlyStop, TypeOK, Running
  <1>4. ~ctxDone => pc[t] # "stopped" /\ ~locked[t] /\ ~Closed(t)
    BY <1>1 DEF OrderlyStop, Located, NoLeakedLock, Closed, TypeOK
  <1>5. CASE d \in lapWriters
    BY <1>1, <1>2, <1>5 DEF InGoodHands, LeftBehind, LostInCrash, OrderlyStop, TypeOK, Running
  <1>6. CASE d \in senders \cup Range(chan[t])
    BY <1>2, <1>3, <1>4, <1>6 DEF InGoodHands, LeftBehind, LostInCrash
  <1>7. CASE d \in Range(buffer[t])
    <2>1. pc[t] # "stopped" /\ ~locked[t]
      BY <1>1, <1>7, EmptyRange DEF OrderlyStop, Located, NoLeakedLock
    <2> QED BY <1>2, <1>7, <2>1 DEF InGoodHands, LeftBehind, LostInCrash, OrderlyStop, TypeOK, Running
  <1>8. CASE d \in Range(batch[t])
    <2>1. pc[t] = "writing" /\ ~locked[t]
      BY <1>1, <1>8, EmptyRange DEF Located, NoLeakedLock
    <2>2. process # "exited"
      BY <1>1, <2>1 DEF OrderlyStop
    <2> QED BY <1>2, <1>8, <2>1, <2>2 DEF InGoodHands, LostInCrash, TypeOK, Running
  <1>9. \A u \in Tables : d \in Held(u) => u = t
    BY DEF Located
  <1> QED BY <1>5, <1>6, <1>7, <1>8, <1>9 DEF Accounted, Held

\* For all sizes and numbers, what the handler accepted is settled, in the
\* hands of a live worker or lap writer, or lost in one of the two named ways:
\* a panic, or a shutdown that reached it outside a CopyFrom and before its
\* worker flushed it.
THEOREM NeverForgotten == Spec => []NothingForgotten
PROOF
  <1>1. Init => AllAccounted /\ OrderlyStop
    BY DEF Init, AllAccounted, Routed, OrderlyStop
  <1>2. TypeOK /\ Located /\ OrderlyStop /\ AllAccounted => NothingForgotten
    BY WhereItIs DEF AllAccounted, NothingForgotten
  <1> QED
    BY <1>1, <1>2, AccountedStep, OrderlyStep, TypeCorrect, AlwaysLocated, AlwaysExclusive,
       PTL DEF Spec


-----------------------------------------------------------------------------
(* Batches and crashes *)

\* A flush of at most a batch leaves every worker within its bound.
LEMMA BoundFlush ==
  ASSUME TypeOK, BatchBound, NEW t \in Tables, NEW rs \in Seq(Deliveries),
         Len(rs) <= BatchSize, FlushOf(t, rs)
  PROVE  BatchBound'
PROOF
  <1>1. Len(<<>>) < BatchSize
    BY SizeAssumption
  <1>2. \A u \in Tables : buffer'[u] = IF u = t THEN <<>> ELSE buffer[u]
    BY DEF FlushOf, TypeOK
  <1>3. \A u \in Tables : batch'[u] = batch[u] \/ batch'[u] = rs
    BY DEF FlushOf, TypeOK
  <1> QED BY <1>1, <1>2, <1>3 DEF BatchBound

\* Every step keeps buffers and batches within their bounds.
LEMMA BatchBoundStep == TypeOK /\ Located /\ BatchBound /\ [Next]_vars => BatchBound'
PROOF
  <1> SUFFICES ASSUME TypeOK, Located, BatchBound, [Next]_vars PROVE BatchBound'
    OBVIOUS
  <1> USE DEF workerVars, sinkVars
  <1>1. ASSUME UNCHANGED <<buffer, batch>> PROVE BatchBound'
    BY <1>1 DEF BatchBound
  <1>2. ASSUME NEW t \in Tables, ReceiveRow(t) PROVE BatchBound'
    <2> DEFINE d == Head(chan[t])
               rs == Append(buffer[t], d)
    <2>1. /\ chan[t] # <<>>
          /\ \/ /\ buffer' = [buffer EXCEPT ![t] = rs]
                /\ Len(rs) < BatchSize
                /\ UNCHANGED <<pc, batch, lost>>
             \/ FlushOf(t, rs)
      BY <1>2, ReceiveRowEffect
    <2>2. chan[t] \in Seq(Deliveries) /\ buffer[t] \in Seq(Deliveries)
      BY DEF TypeOK
    <2>3. d \in Deliveries
      BY <2>1, <2>2, TailRange
    <2>4. rs \in Seq(Deliveries) /\ Len(rs) = Len(buffer[t]) + 1 /\ Len(buffer[t]) \in Nat
      BY <2>2, <2>3, AppendProperties, LenProperties
    <2>5. Len(rs) <= BatchSize
      BY <2>4, SizeAssumption DEF BatchBound
    <2> HIDE DEF rs
    <2>6. CASE FlushOf(t, rs)
      BY <2>4, <2>5, <2>6, BoundFlush
    <2>7. CASE /\ buffer' = [buffer EXCEPT ![t] = rs]
               /\ Len(rs) < BatchSize
               /\ UNCHANGED <<pc, batch, lost>>
      BY <2>7 DEF BatchBound, TypeOK
    <2> QED BY <2>1, <2>6, <2>7
  <1>3. ASSUME NEW t \in Tables, Tick(t) \/ StopWorker(t) PROVE BatchBound'
    <2>1. FlushOf(t, buffer[t]) /\ buffer[t] \in Seq(Deliveries)
      BY <1>3, OwnFlushEffect DEF TypeOK
    <2>2. Len(buffer[t]) <= BatchSize
      BY <2>1, LenProperties, SizeAssumption DEF BatchBound
    <2> QED BY <2>1, <2>2, BoundFlush
  <1>4. ASSUME NEW t \in Tables, CopySucceeds(t) \/ CopyFails(t) PROVE BatchBound'
    <2>1. Len(<<>>) <= BatchSize
      BY SizeAssumption
    <2>2. \A u \in Tables : batch'[u] = IF u = t THEN <<>> ELSE batch[u]
      BY <1>4 DEF CopySucceeds, CopyFails, EndCopy, TypeOK
    <2>3. UNCHANGED buffer
      BY <1>4 DEF CopySucceeds, CopyFails, EndCopy
    <2> QED BY <2>1, <2>2, <2>3 DEF BatchBound
  <1>5. ASSUME \/ \E d \in Deliveries : Handler(d) \/ LapInsert(d) \/ LapInsertFails(d)
               \/ \E t \in Tables : ReceiveNilField(t) \/ ReceiveLap(t)
               \/ Interrupt \/ CloseNext \/ Exit \/ UNCHANGED vars
        PROVE  BatchBound'
    BY <1>1, <1>5 DEF Handler, Arrive, Send, SendPanics, LapInsert, LapInsertFails,
       EndLapWriter, ReceiveNilField, ReceiveLap, Interrupt, CloseNext, Exit, vars
  <1> QED BY <1>2, <1>3, <1>4, <1>5 DEF Next, Worker, Database

\* A waiting worker holds less than a batch and no CopyFrom exceeds one, for
\* every batch size, however slow or broken the database is.
THEOREM NeverMoreThanABatch == Spec => []BatchBound
PROOF
  <1>1. Init => BatchBound
    BY SizeAssumption DEF Init, BatchBound
  <1> QED BY <1>1, BatchBoundStep, TypeCorrect, AlwaysLocated, PTL DEF Spec

\* Channels are closed by a shutdown only, and what else brings the process
\* down is a message with an unset field.
ClosedAtShutdown ==
    /\ nclosed > 0 => ctxDone
    /\ CrashOnlyAtShutdown

\* While nobody asks it to stop, the service goes down only because of a
\* message whose row builder dereferences an unset field: Tires or a wheel of
\* vehicle data, or a wheel of wheel data.
THEOREM NoCrashWhileServing == Spec => []CrashOnlyAtShutdown
PROOF
  <1>1. Init => ClosedAtShutdown
    BY DEF Init, ClosedAtShutdown, CrashOnlyAtShutdown
  <1>2. TypeOK /\ Located /\ ClosedAtShutdown /\ [Next]_vars => ClosedAtShutdown'
    <2> SUFFICES ASSUME TypeOK, Located, ClosedAtShutdown, [Next]_vars
                 PROVE  ClosedAtShutdown'
      OBVIOUS
    <2> USE DEF workerVars, sinkVars
    <2>1. arrived \subseteq arrived'
      BY DEF Next, Handler, Worker, Database, Arrive, Send, SendPanics, ReceiveRow,
         ReceiveNilField, ReceiveLap, Tick, StopWorker, CopySucceeds, CopyFails, EndCopy,
         LapInsert, LapInsertFails, EndLapWriter, Interrupt, CloseNext, Exit, vars
    <2>2. ASSUME NEW d \in Deliveries, SendPanics(d) PROVE ClosedAtShutdown'
      <3>1. nclosed > 0
        BY <2>2 DEF SendPanics, Closed, TypeOK
      <3> QED BY <2>2, <3>1 DEF SendPanics, ClosedAtShutdown, CrashOnlyAtShutdown
    <2>3. ASSUME NEW t \in Tables, ReceiveNilField(t) PROVE ClosedAtShutdown'
      <3>1. Head(chan[t]) \in Range(chan[t])
        BY <2>3, TailRange DEF ReceiveNilField, TypeOK
      <3>2. /\ Head(chan[t]) \in arrived
            /\ NilDereference(TableOf[Head(chan[t])], Head(chan[t]))
        BY <2>3, <3>1 DEF ReceiveNilField, NilDereference, Builds, Located, Held
      <3> QED BY <2>1, <2>3, <3>2 DEF ReceiveNilField, ClosedAtShutdown, CrashOnlyAtShutdown
    <2>4. CASE Interrupt
      BY <2>4 DEF Interrupt, ClosedAtShutdown, CrashOnlyAtShutdown
    <2>5. CASE CloseNext
      BY <2>5 DEF CloseNext, ClosedAtShutdown, CrashOnlyAtShutdown
    <2>6. CASE Exit
      BY <2>6 DEF Exit, ClosedAtShutdown, CrashOnlyAtShutdown
    <2>7. ASSUME UNCHANGED <<process, ctxDone, nclosed>> PROVE ClosedAtShutdown'
      BY <2>1, <2>7 DEF ClosedAtShutdown, CrashOnlyAtShutdown
    <2> QED
      BY <2>2, <2>3, <2>4, <2>5, <2>6, <2>7 DEF Next, Handler, Worker, Database,
         Arrive, Send, ReceiveRow, ReceiveLap, Tick, StopWorker, CopySucceeds,
         CopyFails, EndCopy, LapInsert, LapInsertFails, EndLapWriter, vars
  <1>3. ClosedAtShutdown => CrashOnlyAtShutdown
    BY DEF ClosedAtShutdown
  <1> QED BY <1>1, <1>2, <1>3, TypeCorrect, AlwaysLocated, PTL DEF Spec


-----------------------------------------------------------------------------
(* Laps *)

\* The first row of a lap wins, for any number of laps, senders and keys: the
\* constraint of the table decides, in whatever order the INSERTs run.
THEOREM FirstLapRowWins == Spec => []LapRowsUnique
PROOF
  <1>1. Init => LapRowsUnique
    BY RoutingAssumption DEF Init, LapRowsUnique
  <1>2. TypeOK /\ Located /\ LapRowsUnique /\ [Next]_vars => LapRowsUnique'
    <2> SUFFICES ASSUME TypeOK, Located, LapRowsUnique, [Next]_vars PROVE LapRowsUnique'
      OBVIOUS
    <2> USE DEF workerVars, sinkVars
    <2>1. LapTable \in Tables
      BY RoutingAssumption
    <2>2. ASSUME \A d \in Deliveries : rows'[LapTable][d] = rows[LapTable][d], ignored' = ignored
          PROVE  LapRowsUnique'
      BY <2>2 DEF LapRowsUnique, LapConflict, TypeOK
    <2>3. ASSUME NEW t \in Tables, CopySucceeds(t) PROVE LapRowsUnique'
      <3>1. \A d \in Deliveries : Occurrences(batch[LapTable], d) = 0
        BY <2>1, OccurrencesType DEF Located, TypeOK
      <3>2. \A d \in Deliveries : rows[LapTable][d] \in Nat
        BY <2>1 DEF TypeOK
      <3>3. \A d \in Deliveries : rows'[LapTable][d] = rows[LapTable][d]
        BY <2>1, <2>3, <3>1, <3>2 DEF CopySucceeds, TypeOK
      <3> QED BY <2>2, <2>3, <3>3 DEF CopySucceeds, EndCopy
    <2>4. ASSUME NEW d \in Deliveries, LapInsert(d) PROVE LapRowsUnique'
      <3>1. CASE LapConflict(d)
        <4>1. ignored' = ignored \cup {d} /\ rows' = rows
          BY <2>4, <3>1 DEF LapInsert
        <4> QED BY <3>1, <4>1 DEF LapRowsUnique, LapConflict
      <3>2. CASE ~LapConflict(d)
        <4>1. rows' = [rows EXCEPT ![LapTable][d] = @ + 1] /\ ignored' = ignored
          BY <2>4, <3>2 DEF LapInsert
        <4>2. \A e \in Deliveries :
                 /\ rows[LapTable][e] \in Nat
                 /\ rows'[LapTable][e] = IF e = d THEN rows[LapTable][e] + 1 ELSE rows[LapTable][e]
          BY <2>1, <4>1 DEF TypeOK
        <4>3. \A e \in Deliveries : rows[LapTable][e] > 0 => LapKey[e] # LapKey[d]
          BY <3>2 DEF LapConflict
        <4>4. \A e \in ignored : LapConflict(e)'
          BY <4>2 DEF LapRowsUnique, LapConflict
        <4> QED BY <4>1, <4>2, <4>3, <4>4 DEF LapRowsUnique
      <3> QED BY <3>1, <3>2
    <2> QED
      BY <2>2, <2>3, <2>4 DEF Next, Handler, Worker, Database, Arrive, Send, SendPanics,
         ReceiveRow, ReceiveNilField, ReceiveLap, Tick, StopWorker, CopyFails, EndCopy,
         LapInsertFails, EndLapWriter, Interrupt, CloseNext, Exit, vars
  <1> QED BY <1>1, <1>2, TypeCorrect, AlwaysLocated, PTL DEF Spec

-----------------------------------------------------------------------------
(* What a fault costs *)

\* A sequence has at most as many different elements as it is long.
LEMMA RangeCardinality ==
  ASSUME NEW S, NEW s \in Seq(S)
  PROVE  IsFiniteSet(Range(s)) /\ Cardinality(Range(s)) <= Len(s)
PROOF
  <1>1. DOMAIN s = 1..Len(s) /\ Len(s) \in Nat
    OBVIOUS
  <1>2. IsFiniteSet(1..Len(s)) /\ Cardinality(1..Len(s)) = Len(s)
    BY <1>1, FS_Interval
  <1>3. s \in Surjection(1..Len(s), Range(s))
    BY <1>1 DEF Surjection, Range
  <1> QED BY <1>2, <1>3, FS_Surjection

\* Until the shutdown the lost deliveries are finitely many: a batch a fault.
LossBound == ~ctxDone => IsFiniteSet(lost) /\ Cardinality(lost) <= faults * BatchSize

\* A fault adds at most the rows of one write.
LEMMA LossOfAFault ==
  ASSUME TypeOK, LossBound, NEW W, IsFiniteSet(W), Cardinality(W) <= BatchSize,
         ~ctxDone, faults' = faults + 1, lost' = lost \cup W
  PROVE  LossBound'
PROOF
  <1>1. IsFiniteSet(lost) /\ Cardinality(lost) <= faults * BatchSize
    BY DEF LossBound
  <1>2. IsFiniteSet(lost') /\ Cardinality(lost') <= Cardinality(lost) + Cardinality(W)
    <2>1. IsFiniteSet(lost \cap W) /\ IsFiniteSet(lost \cup W)
      BY <1>1, FS_Intersection, FS_Union
    <2>2. Cardinality(lost \cup W) = Cardinality(lost) + Cardinality(W) - Cardinality(lost \cap W)
      BY <1>1, FS_Union
    <2>3. /\ Cardinality(lost) \in Nat /\ Cardinality(W) \in Nat
          /\ Cardinality(lost \cap W) \in Nat
      BY <1>1, <2>1, FS_CardinalityType
    <2> QED BY <2>1, <2>2, <2>3
  <1>3. /\ Cardinality(lost') \in Nat /\ Cardinality(lost) \in Nat /\ Cardinality(W) \in Nat
    BY <1>1, <1>2, FS_CardinalityType
  <1>4. faults \in Nat /\ BatchSize \in Nat
    BY SizeAssumption DEF TypeOK
  <1>5. (faults + 1) * BatchSize = faults * BatchSize + BatchSize /\ faults * BatchSize \in Nat
    BY <1>4
  <1>6. Cardinality(lost') <= faults' * BatchSize
    BY <1>1, <1>2, <1>3, <1>4, <1>5
  <1> QED BY <1>2, <1>6 DEF LossBound

\* Until a shutdown each failed write costs at most one batch, whatever the
\* batch size and however many faults there are.
THEOREM ABatchAFault == Spec => []LossBoundedByFaults
PROOF
  <1>1. Init => LossBound
    BY SizeAssumption, FS_EmptySet DEF Init, LossBound
  <1>2. TypeOK /\ Located /\ BatchBound /\ LossBound /\ [Next]_vars => LossBound'
    <2> SUFFICES ASSUME TypeOK, Located, BatchBound, LossBound, [Next]_vars
                 PROVE  LossBound'
      OBVIOUS
    <2> USE DEF workerVars, sinkVars
    <2>1. ASSUME UNCHANGED <<lost, faults>>, ctxDone => ctxDone' PROVE LossBound'
      BY <2>1 DEF LossBound
    <2>2. ASSUME ctxDone, ctxDone' = ctxDone PROVE LossBound'
      BY <2>2 DEF LossBound
    <2>3. ASSUME NEW t \in Tables, NEW rs, FlushOf(t, rs), WorkerFrame PROVE LossBound'
      <3>1. CASE ctxDone
        BY <2>2, <2>3, <3>1 DEF WorkerFrame
      <3>2. CASE ~ctxDone
        BY <2>1, <2>3, <3>2 DEF FlushOf, WorkerFrame
      <3> QED BY <3>1, <3>2
    <2>4. ASSUME NEW t \in Tables, ReceiveRow(t) PROVE LossBound'
      <3>1. /\ lost' = lost \/ FlushOf(t, Append(buffer[t], Head(chan[t])))
            /\ WorkerFrame
        BY <2>4, ReceiveRowEffect
      <3> QED BY <2>1, <2>3, <3>1 DEF WorkerFrame
    <2>5. ASSUME NEW t \in Tables, Tick(t) \/ StopWorker(t) PROVE LossBound'
      BY <2>3, <2>5, OwnFlushEffect
    <2>6. ASSUME NEW t \in Tables, ReceiveLap(t) PROVE LossBound'
      BY <2>1, <2>2, <2>6 DEF ReceiveLap
    <2>7. ASSUME NEW t \in Tables, CopyFails(t) PROVE LossBound'
      <3>1. CASE ctxDone
        BY <2>2, <2>7, <3>1 DEF CopyFails, EndCopy
      <3>2. CASE ~ctxDone
        <4>1. /\ IsFiniteSet(Range(batch[t]))
              /\ Cardinality(Range(batch[t])) <= Len(batch[t])
          BY RangeCardinality DEF TypeOK
        <4>2. /\ Cardinality(Range(batch[t])) \in Nat /\ Len(batch[t]) \in Nat
              /\ Len(batch[t]) <= BatchSize
          BY <4>1, FS_CardinalityType, LenProperties DEF TypeOK, BatchBound
        <4>3. Cardinality(Range(batch[t])) <= BatchSize
          BY <4>1, <4>2, SizeAssumption
        <4>4. faults' = faults + 1 /\ lost' = lost \cup Range(batch[t])
          BY <2>7, <3>2 DEF CopyFails, WriteFails
        <4> QED BY <3>2, <4>1, <4>3, <4>4, LossOfAFault
      <3> QED BY <3>1, <3>2
    <2>8. ASSUME NEW d \in Deliveries, LapInsertFails(d) PROVE LossBound'
      <3>1. CASE ctxDone
        BY <2>2, <2>8, <3>1 DEF LapInsertFails, EndLapWriter
      <3>2. CASE ~ctxDone
        <4>1. IsFiniteSet({d}) /\ Cardinality({d}) <= BatchSize
          <5>1. IsFiniteSet({d}) /\ Cardinality({d}) = 1
            BY FS_Singleton, Zenon
          <5> QED BY <5>1, SizeAssumption
        <4>2. faults' = faults + 1 /\ lost' = lost \cup {d}
          BY <2>8, <3>2 DEF LapInsertFails, WriteFails
        <4> QED BY <3>2, <4>1, <4>2, LossOfAFault
      <3> QED BY <3>1, <3>2
    <2>9. ASSUME \/ \E d \in Deliveries : Handler(d) \/ LapInsert(d)
                 \/ \E t \in Tables : ReceiveNilField(t) \/ CopySucceeds(t)
                 \/ CloseNext \/ Exit \/ UNCHANGED vars
          PROVE  LossBound'
      <3>1. UNCHANGED <<lost, faults, ctxDone>>
        BY <2>9 DEF Handler, Arrive, Send, SendPanics, LapInsert, EndLapWriter,
           ReceiveNilField, CopySucceeds, EndCopy, CloseNext, Exit, vars
      <3> QED BY <2>1, <3>1
    <2>10. CASE Interrupt
      BY <2>10 DEF Interrupt, LossBound
    <2> QED
      BY <2>4, <2>5, <2>6, <2>7, <2>8, <2>9, <2>10 DEF Next, Worker, Database
  <1>3. LossBound => LossBoundedByFaults
    BY DEF LossBound, LossBoundedByFaults
  <1> QED BY <1>1, <1>2, <1>3, TypeCorrect, AlwaysLocated, NeverMoreThanABatch, PTL DEF Spec

=============================================================================
