--------------------------- MODULE PersistSinkProofs ---------------------------
(***************************************************************************)
(* PersistBatching implements TelemetrySink, for any tables, deliveries,   *)
(* sizes and number of faults: every step of a goroutine, a worker, the    *)
(* database or the shutdown is a step of the sink, or none.                *)
(*                                                                         *)
(* The invariants are those of PersistBatchingProofs, and WritingRows: a   *)
(* CopyFrom in progress has rows, so that a failed one costs something.    *)
(***************************************************************************)
EXTENDS PersistBatchingProofs

-----------------------------------------------------------------------------
(* The fate of a delivery *)

\* A CopyFrom in progress has rows.
WritingRows == \A t \in Tables : pc[t] = "writing" => batch[t] # <<>>

\* What every state satisfies and the refinement needs, on both sides of a step.
SinkInv == TypeOK /\ Located /\ Exclusive /\ BatchBound /\ WritingRows

\* The cases of Status, which exclude each other because Exclusive holds.
Fate(d) ==
    IF d \notin arrived THEN "absent"
    ELSE IF TableOf[d] = NoTable THEN "void"
    ELSE IF d \in Stored THEN "stored"
    ELSE IF d \in ignored THEN "superseded"
    ELSE IF d \in lost THEN "dropped" ELSE "pending"

\* The refinement mapping names one fate for each delivery.
LEMMA FateOf == SinkInv => \A d \in Deliveries : Status[d] = Fate(d)
PROOF
  <1> SUFFICES ASSUME SinkInv, NEW d \in Deliveries PROVE Status[d] = Fate(d)
    OBVIOUS
  <1>1. /\ d \in Stored \cup ignored \cup lost => d \in arrived /\ TableOf[d] # NoTable
        /\ d \in Stored => d \notin ignored \cup lost
        /\ d \in ignored => d \notin lost
    BY RoutingAssumption DEF SinkInv, Located, Exclusive, Stored
  <1>2. Status[d] =
          CASE d \notin arrived -> "absent"
            [] d \in arrived \ Routed -> "void"
            [] d \in Stored -> "stored"
            [] d \in ignored -> "superseded"
            [] d \in lost -> "dropped"
            [] OTHER -> "pending"
    BY DEF Status
  <1>3. d \in Routed <=> d \in arrived /\ TableOf[d] # NoTable
    BY DEF Routed
  <1> QED BY <1>1, <1>2, <1>3 DEF Fate

\* The same after a step.
LEMMA FateNext == SinkInv' => \A d \in Deliveries : Status'[d] = Fate(d)'
PROOF
  <1>1. (SinkInv)' => (\A d \in Deliveries : Status[d] = Fate(d))'
    BY FateOf, PTL
  <1> QED BY <1>1

\* What the sink calls pending is what has been routed and is not settled.
LEMMA Pending ==
  ASSUME SinkInv, NEW d \in Deliveries
  PROVE  Status[d] = "pending" <=> d \in Routed \ Settled
  BY FateOf DEF Fate, Routed, Settled

\* What the sink calls stored is in the database.
LEMMA StoredStatus ==
  ASSUME SinkInv, NEW d \in Deliveries
  PROVE  Status[d] = "stored" <=> d \in Stored
  BY FateOf, RoutingAssumption DEF Fate, Stored, SinkInv, Located

\* A step that settles nothing and receives nothing is none of the sink's.
LEMMA FateStays ==
  ASSUME SinkInv, SinkInv', UNCHANGED <<arrived, rows, ignored, lost>>
  PROVE  Status' = Status
PROOF
  <1>1. \A d \in Deliveries : Status'[d] = Status[d]
    BY StoredUnchanged, FateOf, FateNext DEF Fate
  <1> QED BY <1>1 DEF Status

\* Rows that become lost are dropped.
LEMMA LostAreDropped ==
  ASSUME SinkInv, SinkInv', NEW S, S \subseteq Routed \ Settled,
         lost' = lost \cup S, UNCHANGED <<arrived, rows, ignored>>
  PROVE  Sink!Mark(S, "dropped")
PROOF
  <1>1. Stored' = Stored
    BY StoredUnchanged
  <1>2. \A d \in Deliveries : Status'[d] = IF d \in S THEN "dropped" ELSE Status[d]
    BY <1>1, FateOf, FateNext DEF Fate, Routed, Settled
  <1>3. Status' = [d \in Deliveries |-> Status'[d]]
    BY DEF Status
  <1> QED BY <1>2, <1>3 DEF Sink!Mark

\* Rows that come into the database are stored.
LEMMA NewAreStored ==
  ASSUME SinkInv, SinkInv', NEW S, S \subseteq Routed \ Settled,
         Stored' = Stored \cup S, UNCHANGED <<arrived, ignored, lost>>
  PROVE  Sink!Mark(S, "stored")
PROOF
  <1>1. \A d \in Deliveries : Status'[d] = IF d \in S THEN "stored" ELSE Status[d]
    BY FateOf, FateNext DEF Fate, Routed, Settled
  <1>2. Status' = [d \in Deliveries |-> Status'[d]]
    BY DEF Status
  <1> QED BY <1>1, <1>2 DEF Sink!Mark

-----------------------------------------------------------------------------
(* Batches *)

\* A flush of no rows does not start one.
LEMMA AlwaysWritingRows == Spec => []WritingRows
PROOF
  <1>1. Init => WritingRows
    BY DEF Init, WritingRows
  <1>2. TypeOK /\ WritingRows /\ [Next]_vars => WritingRows'
    <2> SUFFICES ASSUME TypeOK, WritingRows, [Next]_vars PROVE WritingRows'
      OBVIOUS
    <2> USE DEF workerVars, sinkVars
    <2>1. ASSUME UNCHANGED <<pc, batch>> PROVE WritingRows'
      BY <2>1 DEF WritingRows
    <2>2. ASSUME NEW t \in Tables, NEW rs, NEW after \in {"select", "stopped"}, Flush(t, rs, after)
          PROVE  WritingRows'
      BY <2>2 DEF Flush, WritingRows, TypeOK
    <2>3. ASSUME NEW t \in Tables, Tick(t) \/ StopWorker(t) PROVE WritingRows'
      BY <2>2, <2>3 DEF Tick, StopWorker
    <2>4. ASSUME NEW t \in Tables, ReceiveRow(t) PROVE WritingRows'
      BY <2>1, <2>2, <2>4 DEF ReceiveRow, Buffer
    <2>5. ASSUME NEW t \in Tables, CopySucceeds(t) \/ CopyFails(t) PROVE WritingRows'
      BY <2>5 DEF CopySucceeds, CopyFails, EndCopy, WritingRows, TypeOK
    <2> QED
      BY <2>1, <2>3, <2>4, <2>5 DEF Next, Handler, Worker, Database, Arrive, Send, SendPanics,
         ReceiveNilField, ReceiveLap, LapInsert, LapInsertFails, EndLapWriter, Interrupt,
         CloseNext, Exit, vars
  <1> QED BY <1>1, <1>2, TypeCorrect, PTL DEF Spec

\* Rows in the hands of a worker are pending.
LEMMA HeldIsPending ==
  ASSUME SinkInv, NEW t \in Tables
  PROVE  Held(t) \subseteq Routed \ Settled
  BY RoutingAssumption DEF SinkInv, Located, Exclusive, Routed

\* The sink counts as this module does.
LEMMA SinkCardinality == \A S : Sink!Cardinality(S) = Cardinality(S)
  BY DEF Sink!Cardinality, Cardinality

\* At most a batch of rows, all of one worker, is a batch of the sink.
LEMMA RowsAreABatch ==
  ASSUME SinkInv, NEW t \in Tables, NEW rs \in Seq(Deliveries),
         Range(rs) # {}, Range(rs) \subseteq Held(t), Len(rs) <= BatchSize
  PROVE  Sink!IsBatch(Range(rs)) /\ Range(rs) \subseteq Routed \ Settled
PROOF
  <1>1. Range(rs) \subseteq Routed \ Settled /\ Range(rs) \subseteq Deliveries
    BY HeldIsPending DEF SinkInv, TypeOK, Routed
  <1>2. Range(rs) \subseteq Sink!StatusIs("pending")
    BY <1>1, Pending DEF Sink!StatusIs
  <1>3. \A d, e \in Range(rs) : TableOf[d] = TableOf[e]
    BY DEF SinkInv, Located
  <1>4. Sink!Cardinality(Range(rs)) <= BatchSize
    <2>1. IsFiniteSet(Range(rs)) /\ Cardinality(Range(rs)) <= Len(rs)
      BY RangeCardinality
    <2>2. Cardinality(Range(rs)) \in Nat /\ Len(rs) \in Nat
      BY <2>1, FS_CardinalityType
    <2> QED BY <2>1, <2>2, SinkCardinality, SizeAssumption
  <1> QED BY <1>1, <1>2, <1>3, <1>4 DEF Sink!IsBatch

\* A delivery that is on its way alone is a batch of one.
LEMMA OneIsABatch ==
  ASSUME SinkInv, NEW d \in Routed \ Settled
  PROVE  Sink!IsBatch({d})
PROOF
  <1>1. d \in Sink!StatusIs("pending")
    BY Pending DEF Routed, SinkInv, TypeOK, Sink!StatusIs
  <1>2. Sink!Cardinality({d}) <= BatchSize
    <2>1. IsFiniteSet({d}) /\ Cardinality({d}) = 1
      BY FS_Singleton, Zenon
    <2> QED BY <2>1, SinkCardinality, SizeAssumption
  <1> QED BY <1>1, <1>2 DEF Sink!IsBatch

-----------------------------------------------------------------------------
(* The steps *)

\* A write that fails with the rows S drops them, at the cost of a fault while
\* the service is serving.
LEMMA FailedWriteDrops ==
  ASSUME SinkInv, SinkInv', NEW S, Sink!IsBatch(S), S \subseteq Routed \ Settled, WriteFails,
         lost' = lost \cup S, UNCHANGED <<process, ctxDone, arrived, rows, ignored>>, Running
  PROVE  Sink!Next
PROOF
  <1>1. Sink!Mark(S, "dropped")
    BY LostAreDropped
  <1>2. Phase # "down" /\ UNCHANGED Phase
    BY DEF Phase, Running
  <1>3. faults' = (IF Phase = "serving" THEN faults + 1 ELSE faults) /\ faults' <= MaxFaults
    BY SizeAssumption DEF WriteFails, Phase, SinkInv, TypeOK
  <1>4. Sink!Drop(S)
    BY <1>1, <1>2, <1>3 DEF Sink!Drop
  <1> QED BY <1>4 DEF Sink!Next, Sink!IsBatch

\* Rows given up because the context is cancelled are dropped for free.
LEMMA StoppingDrops ==
  ASSUME SinkInv, SinkInv', NEW S, Sink!IsBatch(S), S \subseteq Routed \ Settled, ctxDone,
         lost' = lost \cup S, UNCHANGED <<process, ctxDone, arrived, rows, ignored, faults>>, Running
  PROVE  Sink!Next
PROOF
  <1>1. Sink!Mark(S, "dropped")
    BY LostAreDropped
  <1>2. Phase = "stopping" /\ UNCHANGED Phase
    BY DEF Phase, Running
  <1>3. faults <= MaxFaults
    BY SizeAssumption DEF SinkInv, TypeOK
  <1>4. Sink!Drop(S)
    BY <1>1, <1>2, <1>3 DEF Sink!Drop
  <1> QED BY <1>4 DEF Sink!Next, Sink!IsBatch

\* A step inside the service is none of the sink's.
LEMMA InnerStep ==
  ASSUME SinkInv, SinkInv', UNCHANGED <<process, ctxDone, arrived, rows, ignored, lost, faults>>
  PROVE  UNCHANGED Sink!vars
  BY FateStays DEF Sink!vars, Phase, Running

\* A flush starts a write, or gives the rows up because of the shutdown.
LEMMA FlushStep ==
  ASSUME SinkInv, SinkInv', NEW t \in Tables, NEW rs \in Seq(Deliveries), FlushOf(t, rs),
         WorkerFrame, Running, Range(rs) \subseteq Held(t), Len(rs) <= BatchSize
  PROVE  [Sink!Next]_Sink!vars
PROOF
  <1>1. CASE lost' = lost
    BY <1>1, InnerStep DEF WorkerFrame
  <1>2. CASE lost' # lost
    <2>1. lost' = lost \cup Range(rs) /\ Range(rs) # {} /\ ctxDone
      BY <1>2 DEF FlushOf
    <2>2. Sink!IsBatch(Range(rs)) /\ Range(rs) \subseteq Routed \ Settled
      BY <2>1, RowsAreABatch
    <2> QED BY <2>1, <2>2, StoppingDrops DEF WorkerFrame
  <1> QED BY <1>1, <1>2

\* The callback runs: the sink accepts the delivery.
LEMMA ArriveStep ==
  ASSUME SinkInv, SinkInv', NEW d \in Deliveries, Arrive(d)
  PROVE  [Sink!Next]_Sink!vars
PROOF
  <1>1. Running /\ d \notin arrived /\ arrived' = arrived \cup {d}
        /\ UNCHANGED <<process, ctxDone, rows, ignored, lost, faults>>
    BY DEF Arrive, sinkVars
  <1>2. d \notin Settled /\ Stored' = Stored
    BY <1>1, UnseenIsNowhere, StoredUnchanged DEF SinkInv
  <1>3. \A e \in Deliveries :
           Status'[e] = IF e \in {d} THEN (IF TableOf[d] = NoTable THEN "void" ELSE "pending")
                        ELSE Status[e]
    BY <1>1, <1>2, FateOf, FateNext DEF Fate, Settled
  <1>4. Status' = [e \in Deliveries |-> Status'[e]]
    BY DEF Status
  <1>5. Sink!Mark({d}, IF TableOf[d] = NoTable THEN "void" ELSE "pending")
    BY <1>3, <1>4 DEF Sink!Mark
  <1>6. Status[d] = "absent"
    BY <1>1, FateOf DEF Fate
  <1>7. Phase # "down" /\ UNCHANGED Phase
    BY <1>1 DEF Phase, Running
  <1>8. Sink!Accept(d)
    BY <1>1, <1>5, <1>6, <1>7 DEF Sink!Accept
  <1> QED BY <1>8 DEF Sink!Next

\* A row is received: it joins the buffer, or the buffer is flushed with it.
LEMMA ReceiveRowStep ==
  ASSUME SinkInv, SinkInv', NEW t \in Tables, ReceiveRow(t)
  PROVE  [Sink!Next]_Sink!vars
PROOF
  <1> DEFINE d == Head(chan[t])
             rs == Append(buffer[t], d)
  <1>1. /\ chan[t] # <<>>
        /\ \/ lost' = lost
           \/ FlushOf(t, rs)
        /\ WorkerFrame
    BY ReceiveRowEffect DEF SinkInv
  <1>2. chan[t] \in Seq(Deliveries) /\ buffer[t] \in Seq(Deliveries)
    BY DEF SinkInv, TypeOK
  <1>3. d \in Deliveries /\ d \in Range(chan[t])
    BY <1>1, <1>2, TailRange
  <1> HIDE DEF d
  <1>4. rs \in Seq(Deliveries) /\ Len(rs) = Len(buffer[t]) + 1 /\ Len(buffer[t]) \in Nat
    BY <1>2, <1>3, AppendProperties, LenProperties
  <1>5. Len(rs) <= BatchSize
    BY <1>4, SizeAssumption DEF SinkInv, BatchBound
  <1>6. Range(rs) = Range(buffer[t]) \cup {d}
    BY <1>2, <1>3, AppendRange
  <1>7. Range(rs) \subseteq Held(t)
    BY <1>3, <1>6 DEF Held
  <1>8. Running
    BY DEF ReceiveRow, AtSelect
  <1> HIDE DEF rs
  <1>9. CASE lost' = lost
    BY <1>1, <1>9, InnerStep DEF WorkerFrame
  <1>10. CASE FlushOf(t, rs)
    BY <1>1, <1>4, <1>5, <1>7, <1>8, <1>10, FlushStep
  <1> QED BY <1>1, <1>9, <1>10

\* The ticker and the last flush of a worker.
LEMMA OwnFlushStep ==
  ASSUME SinkInv, SinkInv', NEW t \in Tables, Tick(t) \/ StopWorker(t)
  PROVE  [Sink!Next]_Sink!vars
PROOF
  <1>1. FlushOf(t, buffer[t]) /\ WorkerFrame
    BY OwnFlushEffect
  <1>2. buffer[t] \in Seq(Deliveries)
    BY DEF SinkInv, TypeOK
  <1>3. Len(buffer[t]) <= BatchSize
    BY <1>2, LenProperties, SizeAssumption DEF SinkInv, BatchBound
  <1>4. Range(buffer[t]) \subseteq Held(t)
    BY DEF Held
  <1>5. Running
    BY DEF Tick, StopWorker, AtSelect
  <1> QED BY <1>1, <1>2, <1>3, <1>4, <1>5, FlushStep

\* A lap is received: a goroutine is started, or the lap is given up because
\* of the shutdown.
LEMMA ReceiveLapStep ==
  ASSUME SinkInv, SinkInv', NEW t \in Tables, ReceiveLap(t)
  PROVE  [Sink!Next]_Sink!vars
PROOF
  <1> DEFINE d == Head(chan[t])
  <1>1. d \in Range(chan[t]) /\ chan[t] \in Seq(Deliveries)
    BY TailRange DEF ReceiveLap, SinkInv, TypeOK
  <1>2. d \in Routed \ Settled
    BY <1>1, HeldIsPending DEF Held
  <1>3. CASE lost' = lost
    BY <1>3, InnerStep DEF ReceiveLap, workerVars
  <1>4. CASE lost' # lost
    <2>1. /\ lost' = lost \cup {d} /\ ctxDone /\ Running
          /\ UNCHANGED <<process, ctxDone, arrived, rows, ignored, faults>>
      BY <1>4 DEF ReceiveLap, AtSelect
    <2>2. Sink!IsBatch({d}) /\ {d} \subseteq Routed \ Settled
      BY <1>2, OneIsABatch
    <2> HIDE DEF d
    <2> QED BY <2>1, <2>2, StoppingDrops
  <1> QED BY <1>3, <1>4

\* CopyFrom commits: the batch is stored.
LEMMA CopySucceedsStep ==
  ASSUME SinkInv, SinkInv', NEW t \in Tables, CopySucceeds(t)
  PROVE  [Sink!Next]_Sink!vars
PROOF
  <1> DEFINE S == Range(batch[t])
  <1>1. batch[t] \in Seq(Deliveries) /\ batch[t] # <<>> /\ Len(batch[t]) <= BatchSize
    BY DEF CopySucceeds, EndCopy, SinkInv, TypeOK, WritingRows, BatchBound
  <1>2. S # {} /\ S \subseteq Held(t)
    BY <1>1, TailRange DEF Held
  <1>3. Sink!IsBatch(S) /\ S \subseteq Routed \ Settled
    BY <1>1, <1>2, RowsAreABatch
  <1>4. t # LapTable /\ \A d \in S : TableOf[d] = t
    BY <1>2 DEF SinkInv, Located
  <1>5. Stored' = Stored \cup S
    <2>1. \A d \in Deliveries : /\ Occurrences(batch[t], d) \in Nat
                                /\ d \notin S => Occurrences(batch[t], d) = 0
                                /\ d \in S => Occurrences(batch[t], d) = 1
      BY <1>1, OccurrencesType DEF SinkInv, Exclusive, DistinctRows
    <2>2. S \subseteq Deliveries
      BY <1>1, RangeOfSeq
    <2> HIDE DEF S
    <2>3. \A u \in Tables, d \in Deliveries :
             rows'[u][d] > 0 <=> rows[u][d] > 0 \/ (u = t /\ d \in S)
      <3>1. \A d \in Deliveries : rows'[t][d] = rows[t][d] + Occurrences(batch[t], d)
        BY DEF CopySucceeds, SinkInv, TypeOK
      <3>2. \A u \in Tables : u # t => rows'[u] = rows[u]
        BY DEF CopySucceeds, SinkInv, TypeOK
      <3>3. \A u \in Tables, d \in Deliveries : rows[u][d] \in Nat
        BY DEF SinkInv, TypeOK
      <3> QED BY <2>1, <3>1, <3>2, <3>3
    <2> QED BY <2>2, <2>3 DEF Stored
  <1>6. /\ Running
        /\ UNCHANGED <<process, ctxDone, arrived, ignored, lost, faults>>
    BY DEF CopySucceeds, EndCopy
  <1> HIDE DEF S
  <1>7. Sink!Mark(S, "stored")
    BY <1>3, <1>5, <1>6, NewAreStored
  <1>8. Phase # "down" /\ UNCHANGED Phase
    BY <1>6 DEF Phase, Running
  <1>9. Sink!Store(S)
    BY <1>3, <1>4, <1>6, <1>7, <1>8 DEF Sink!Store
  <1> QED BY <1>3, <1>9 DEF Sink!Next, Sink!IsBatch

\* CopyFrom fails: the batch is dropped.
LEMMA CopyFailsStep ==
  ASSUME SinkInv, SinkInv', NEW t \in Tables, CopyFails(t)
  PROVE  [Sink!Next]_Sink!vars
PROOF
  <1> DEFINE S == Range(batch[t])
  <1>1. batch[t] \in Seq(Deliveries) /\ batch[t] # <<>> /\ Len(batch[t]) <= BatchSize
    BY DEF CopyFails, EndCopy, SinkInv, TypeOK, WritingRows, BatchBound
  <1>2. S # {} /\ S \subseteq Held(t)
    BY <1>1, TailRange DEF Held
  <1>3. Sink!IsBatch(S) /\ S \subseteq Routed \ Settled
    BY <1>1, <1>2, RowsAreABatch
  <1>4. /\ Running /\ WriteFails /\ lost' = lost \cup S
        /\ UNCHANGED <<process, ctxDone, arrived, rows, ignored>>
    BY DEF CopyFails, EndCopy
  <1> HIDE DEF S
  <1> QED BY <1>3, <1>4, FailedWriteDrops

\* The INSERT of a lap conflicts exactly when the sink has the lap.
LEMMA ConflictIsStored ==
  ASSUME SinkInv, NEW d \in Deliveries
  PROVE  LapConflict(d) <=> Sink!LapStored(d)
PROOF
  <1>1. \A e \in Deliveries :
           rows[LapTable][e] > 0 <=> e \in Stored /\ TableOf[e] = LapTable
    BY RoutingAssumption DEF SinkInv, Located, Stored
  <1>2. \A e : e \in Sink!StatusIs("stored") <=> e \in Deliveries /\ e \in Stored
    BY StoredStatus DEF Sink!StatusIs
  <1>3. Sink!LapStored(d) <=>
          \E e \in Deliveries : e \in Stored /\ TableOf[e] = LapTable /\ LapKey[e] = LapKey[d]
    BY <1>2 DEF Sink!LapStored
  <1> QED BY <1>1, <1>3 DEF LapConflict

\* The INSERT of a lap stores it, or finds an earlier row of the lap.
LEMMA LapInsertStep ==
  ASSUME SinkInv, SinkInv', NEW d \in Deliveries, LapInsert(d)
  PROVE  [Sink!Next]_Sink!vars
PROOF
  <1>1. /\ Running /\ d \in lapWriters
        /\ UNCHANGED <<process, ctxDone, arrived, lost, faults>>
    BY DEF LapInsert, EndLapWriter
  <1>2. d \in Routed \ Settled /\ TableOf[d] = LapTable
    BY <1>1, RoutingAssumption DEF SinkInv, Located, Exclusive, Routed
  <1>3. Phase # "down" /\ UNCHANGED Phase
    BY <1>1 DEF Phase, Running
  <1>4. Status[d] = "pending"
    BY <1>2, Pending
  <1>5. CASE LapConflict(d)
    <2>1. ignored' = ignored \cup {d} /\ UNCHANGED rows
      BY <1>5 DEF LapInsert
    <2>2. Stored' = Stored
      BY <2>1, StoredUnchanged
    <2>3. \A e \in Deliveries : Status'[e] = IF e \in {d} THEN "superseded" ELSE Status[e]
      BY <1>1, <1>2, <2>1, <2>2, FateOf, FateNext DEF Fate, Routed, Settled
    <2>4. Status' = [e \in Deliveries |-> Status'[e]]
      BY DEF Status
    <2>5. Sink!Mark({d}, "superseded")
      BY <2>3, <2>4 DEF Sink!Mark
    <2>6. Sink!Supersede(d)
      BY <1>1, <1>2, <1>3, <1>4, <1>5, <2>5, ConflictIsStored DEF Sink!Supersede
    <2> QED BY <2>6 DEF Sink!Next
  <1>6. CASE ~LapConflict(d)
    <2>1. rows' = [rows EXCEPT ![LapTable][d] = @ + 1] /\ UNCHANGED ignored
      BY <1>6 DEF LapInsert
    <2>2. \A t \in Tables, e \in Deliveries :
             /\ rows[t][e] \in Nat
             /\ rows'[t][e] = IF t = LapTable /\ e = d THEN rows[t][e] + 1 ELSE rows[t][e]
      <3>1. rows \in [Tables -> [Deliveries -> Nat]] /\ LapTable \in Tables
        BY RoutingAssumption DEF SinkInv, TypeOK
      <3>2. \A t \in Tables, e \in Deliveries : rows[t][e] \in Nat
        BY <3>1
      <3>3. \A t \in Tables : t # LapTable => rows'[t] = rows[t]
        BY <2>1, <3>1
      <3>4. \A e \in Deliveries :
               rows'[LapTable][e] = IF e = d THEN rows[LapTable][e] + 1 ELSE rows[LapTable][e]
        BY <2>1, <3>1
      <3> QED BY <3>2, <3>3, <3>4
    <2>3. Stored' = Stored \cup {d}
      BY <2>2, RoutingAssumption DEF Stored
    <2>4. Sink!IsBatch({d})
      BY <1>2, OneIsABatch
    <2>5. Sink!Mark({d}, "stored")
      BY <1>1, <1>2, <2>1, <2>3, NewAreStored
    <2>6. Sink!Store({d})
      BY <1>1, <1>3, <1>6, <2>4, <2>5, ConflictIsStored DEF Sink!Store
    <2> QED BY <2>4, <2>6 DEF Sink!Next, Sink!IsBatch
  <1> QED BY <1>5, <1>6

\* The INSERT of a lap fails: the lap is dropped.
LEMMA LapInsertFailsStep ==
  ASSUME SinkInv, SinkInv', NEW d \in Deliveries, LapInsertFails(d)
  PROVE  [Sink!Next]_Sink!vars
PROOF
  <1>1. /\ Running /\ d \in lapWriters /\ WriteFails /\ lost' = lost \cup {d}
        /\ UNCHANGED <<process, ctxDone, arrived, rows, ignored>>
    BY DEF LapInsertFails, EndLapWriter
  <1>2. d \in Routed \ Settled
    BY <1>1, RoutingAssumption DEF SinkInv, Located, Exclusive, Routed
  <1>3. Sink!IsBatch({d}) /\ {d} \subseteq Routed \ Settled
    BY <1>2, OneIsABatch
  <1> QED BY <1>1, <1>3, FailedWriteDrops

\* The process ends, or goes down.
LEMMA DownStep ==
  ASSUME SinkInv, SinkInv', Running, process' \in {"exited", "crashed"},
         UNCHANGED <<ctxDone, arrived, rows, ignored, lost, faults>>
  PROVE  Sink!Next
PROOF
  <1>1. Phase # "down" /\ Phase' = "down"
    BY DEF Phase, Running
  <1>2. Status' = Status
    BY FateStays
  <1>3. Sink!GoDown
    BY <1>1, <1>2 DEF Sink!GoDown
  <1> QED BY <1>3 DEF Sink!Next

\* Every step of the service is a step of the sink, or none.
LEMMA SinkStep == SinkInv /\ SinkInv' /\ [Next]_vars => [Sink!Next]_Sink!vars
PROOF
  <1> SUFFICES ASSUME SinkInv, SinkInv', [Next]_vars PROVE [Sink!Next]_Sink!vars
    OBVIOUS
  <1>1. ASSUME NEW d \in Deliveries, Send(d) PROVE [Sink!Next]_Sink!vars
    BY <1>1, InnerStep DEF Send, workerVars, sinkVars
  <1>2. ASSUME NEW d \in Deliveries, SendPanics(d) PROVE [Sink!Next]_Sink!vars
    BY <1>2, DownStep DEF SendPanics, sinkVars
  <1>3. ASSUME NEW t \in Tables, ReceiveNilField(t) PROVE [Sink!Next]_Sink!vars
    BY <1>3, DownStep DEF ReceiveNilField, AtSelect, sinkVars
  <1>4. CASE Interrupt
    <2>1. Running /\ ~ctxDone /\ ctxDone'
          /\ UNCHANGED <<process, arrived, rows, ignored, lost, faults>>
      BY <1>4 DEF Interrupt, sinkVars
    <2>2. Phase = "serving" /\ Phase' = "stopping"
      BY <2>1 DEF Phase, Running
    <2>3. Sink!Stop
      BY <2>1, <2>2, FateStays DEF Sink!Stop
    <2> QED BY <2>3 DEF Sink!Next
  <1>5. CASE CloseNext
    BY <1>5, InnerStep DEF CloseNext, sinkVars
  <1>6. CASE Exit
    BY <1>6, DownStep DEF Exit, sinkVars
  <1>7. CASE UNCHANGED vars
    BY <1>7, InnerStep DEF vars
  <1> QED
    BY <1>1, <1>2, <1>3, <1>4, <1>5, <1>6, <1>7, ArriveStep, ReceiveRowStep, OwnFlushStep,
       ReceiveLapStep, CopySucceedsStep, CopyFailsStep, LapInsertStep, LapInsertFailsStep
    DEF Next, Handler, Worker, Database

\* The service is an at-most-once sink with all-or-nothing batches of bounded
\* size, whatever the tables, the messages, the capacities and the faults:
\* goroutines, channels, buffers and the shutdown add no behaviour.
THEOREM PersistImplementsSink == Spec => ImplementsSink
PROOF
  <1>1. Init => Sink!Init
    <2> SUFFICES ASSUME Init PROVE Sink!Init
      OBVIOUS
    <2>1. Phase = "serving" /\ faults = 0
      BY DEF Init, Phase, Running
    <2>2. Status = [d \in Deliveries |-> "absent"]
      <3>1. Stored = {} /\ Routed = {} /\ arrived = {}
        BY DEF Init, Stored, Routed
      <3>2. \A d \in Deliveries : Status[d] = "absent"
        BY <3>1, Zenon DEF Init, Status
      <3> QED BY <3>2 DEF Status
    <2> QED BY <2>1, <2>2 DEF Sink!Init
  <1>2. Spec => []SinkInv
    BY TypeCorrect, AlwaysLocated, AlwaysExclusive, NeverMoreThanABatch, AlwaysWritingRows,
       PTL DEF SinkInv
  <1> QED BY <1>1, <1>2, SinkStep, PTL DEF Spec, ImplementsSink, Sink!Spec
=============================================================================
