-------------------------- MODULE PersistBatching --------------------------
(***************************************************************************)
(* The persist service: the MQTT subscription handler of                   *)
(* cmd/persist/main.go and the batching layer it feeds,                    *)
(* internal/timescale/batcher.go.                                          *)
(*                                                                         *)
(* Every MQTT message is handed to BatchRouter.Add, which starts one       *)
(* goroutine per message; the goroutine blocks on the bounded channel of   *)
(* the message's table.  One flusherWorker per table moves messages from   *)
(* its channel to its buffer and copies full (or ticked) buffers to        *)
(* TimescaleDB; finished laps bypass the buffer and get a goroutine and an *)
(* INSERT ... ON CONFLICT DO NOTHING each.  On SIGINT/SIGTERM the context  *)
(* is cancelled: the workers stop, a closer goroutine closes the channels  *)
(* one after the other, and main returns half a second later, while the    *)
(* MQTT client is still subscribed.                                        *)
(*                                                                         *)
(* A delivery stands for one message handed over by the broker; a          *)
(* redelivered message is another delivery.  A row is named by the         *)
(* delivery it was built from: column values are not modelled here.        *)
(***************************************************************************)
EXTENDS Integers, Sequences, FiniteSets, Functions

CONSTANTS
    Deliveries,   \* messages the broker hands to the subscription handler
    CloseOrder,   \* the tables, in the order in which their channels are closed
    NoTable,      \* "table" of a message that does not parse or carries no data
    LapTable,     \* session_lap_data: finished laps, written one by one
    TableOf,      \* the table of a delivery's payload (the oneof), or NoTable
    LapKey,       \* (session_id, user_id, lap_num) of a delivery
    VehicleTable, \* vehicle_data: its builder reads Tires and their wheels
    WheelTable,   \* extended_wheel_data: its builder reads four wheels
    Unset,        \* the parts (Tires, wheels) that are unset in a delivery
    BatchSize,    \* cfg.BatchSize, 500 by default
    ChanCap,      \* capacity of each table's channel, 100 in the code
    MaxFaults     \* bound: failed writes while the context is still live

Tables == Range(CloseOrder)

Wheels == {"FrontLeft", "FrontRight", "BackLeft", "BackRight"}

ASSUME RoutingAssumption ==
    /\ CloseOrder \in Seq(Tables)
    /\ NoTable \notin Tables
    /\ LapTable \in Tables
    /\ TableOf \in [Deliveries -> Tables \cup {NoTable}]
    /\ {VehicleTable, WheelTable} \cap {LapTable, NoTable} = {}
    /\ Unset \in [Deliveries -> SUBSET (Wheels \cup {"Tires"})]

ASSUME SizeAssumption ==
    /\ BatchSize \in Nat \ {0}
    /\ ChanCap \in Nat \ {0}
    /\ MaxFaults \in Nat

VARIABLES
    process,     \* the OS process: "running", "exited" or "crashed"
    ctxDone,     \* the signal context has been cancelled
    arrived,     \* deliveries the subscription handler has been called with
    senders,     \* deliveries whose Add goroutine has not completed its send
    chan,        \* per table: the buffered channel msgChan
    nclosed,     \* how many channels of CloseOrder have been closed
    pc,          \* per table: the worker is at "select", "writing" or "stopped"
    locked,      \* per table: bufferMu is held at the top of the worker's loop
    buffer,      \* per table: rows waiting for a flush
    batch,       \* per table: rows of the CopyFrom in progress
    lapWriters,  \* deliveries whose WriteLapRow goroutine is running
    rows,        \* the database: rows of a table built from a delivery
    faults,      \* failed writes so far, while the context was live
    ignored,     \* history: finished laps dropped by ON CONFLICT DO NOTHING
    lost         \* history: deliveries given up after an error

sinkVars == <<rows, faults, ignored, lost>>
workerVars == <<pc, locked, buffer, batch>>
vars == <<process, ctxDone, arrived, senders, chan, nclosed, pc, locked,
          buffer, batch, lapWriters, rows, faults, ignored, lost>>

-----------------------------------------------------------------------------
(* Operators *)

Running == process = "running"

Closed(t) == \E i \in 1..nclosed : CloseOrder[i] = t

\* Rows of a sequence that were built from delivery d.
Occurrences(s, d) == Cardinality({i \in DOMAIN s : s[i] = d})

\* What worker t holds or will receive, oldest first.
Pipe(t) == batch[t] \o buffer[t] \o chan[t]

Stored == {d \in Deliveries : \E t \in Tables : rows[t][d] > 0}

Settled == Stored \cup ignored \cup lost

\* Deliveries that Add sends somewhere.
Routed == {d \in arrived : TableOf[d] # NoTable}

Init ==
    /\ process = "running"
    /\ ctxDone = FALSE
    /\ arrived = {}
    /\ senders = {}
    /\ chan = [t \in Tables |-> <<>>]
    /\ nclosed = 0
    /\ pc = [t \in Tables |-> "select"]
    /\ locked = [t \in Tables |-> FALSE]
    /\ buffer = [t \in Tables |-> <<>>]
    /\ batch = [t \in Tables |-> <<>>]
    /\ lapWriters = {}
    /\ rows = [t \in Tables |-> [d \in Deliveries |-> 0]]
    /\ faults = 0
    /\ ignored = {}
    /\ lost = {}

-----------------------------------------------------------------------------
(* The subscription handler and the goroutines of BatchRouter.Add *)

\* Mutant: motion data sent to the vehicle batcher (a copy-paste slip).
Route_CopyPaste(d) == IF TableOf[d] = CloseOrder[2] THEN CloseOrder[1] ELSE TableOf[d]

\* The batcher to whose channel Add sends a message.
Route(d) == TableOf[d]

\* The MQTT callback runs: parse, then Add, which only starts a goroutine.
\* Nothing unsubscribes at shutdown, so it may run until the process ends.
Arrive(d) ==
    /\ Running
    /\ d \notin arrived
    /\ arrived' = arrived \cup {d}
    /\ senders' = IF Route(d) = NoTable THEN senders ELSE senders \cup {d}
    /\ UNCHANGED <<process, ctxDone, chan, nclosed, lapWriters, workerVars, sinkVars>>

\* Mutant: a channel without the bound of 100.
Send_Unbounded(d) ==
    LET t == Route(d) IN
    /\ Running
    /\ d \in senders
    /\ ~Closed(t)
    /\ senders' = senders \ {d}
    /\ chan' = [chan EXCEPT ![t] = Append(@, d)]
    /\ UNCHANGED <<process, ctxDone, arrived, nclosed, lapWriters, workerVars, sinkVars>>

\* The goroutine's send completes: there is room in the channel.
Send(d) ==
    LET t == Route(d) IN
    /\ Running
    /\ d \in senders
    /\ ~Closed(t)
    /\ Len(chan[t]) < ChanCap
    /\ senders' = senders \ {d}
    /\ chan' = [chan EXCEPT ![t] = Append(@, d)]
    /\ UNCHANGED <<process, ctxDone, arrived, nclosed, lapWriters, workerVars, sinkVars>>

\* Sending on a closed channel, or being blocked on one when it is closed,
\* panics; nothing recovers, so the whole process goes down.
SendPanics(d) ==
    /\ Running
    /\ d \in senders
    /\ Closed(Route(d))
    /\ process' = "crashed"
    /\ UNCHANGED <<ctxDone, arrived, senders, chan, nclosed, lapWriters, workerVars, sinkVars>>

-----------------------------------------------------------------------------
(* flusherWorker and flush *)

\* The worker of t is at its select; a leaked bufferMu blocks every branch.
AtSelect(t) == Running /\ pc[t] = "select" /\ ~locked[t]

\* Mutant: b.buffer is not reset before the write.
Flush_KeepsBuffer(t, rs, after) ==
    /\ buffer' = [buffer EXCEPT ![t] = rs]
    /\ IF ctxDone \/ rs = <<>>
       THEN /\ pc' = [pc EXCEPT ![t] = after]
            /\ lost' = lost \cup Range(rs)
            /\ UNCHANGED batch
       ELSE /\ pc' = [pc EXCEPT ![t] = "writing"]
            /\ batch' = [batch EXCEPT ![t] = rs]
            /\ UNCHANGED lost

\* flush of the rows rs, after which the worker goes on at `after`.  The
\* buffer is emptied before the write.  With a cancelled context CopyFrom
\* fails at once (the pool refuses the connection) and the rows are gone.
Flush(t, rs, after) ==
    /\ buffer' = [buffer EXCEPT ![t] = <<>>]
    /\ IF ctxDone \/ rs = <<>>
       THEN /\ pc' = [pc EXCEPT ![t] = after]
            /\ lost' = lost \cup Range(rs)
            /\ UNCHANGED batch
       ELSE /\ pc' = [pc EXCEPT ![t] = "writing"]
            /\ batch' = [batch EXCEPT ![t] = rs]
            /\ UNCHANGED lost

\* Mutant: > for >=.
Buffer_OffByOne(t, d) ==
    LET rs == Append(buffer[t], d) IN
    IF Len(rs) > BatchSize
    THEN Flush(t, rs, "select")
    ELSE /\ buffer' = [buffer EXCEPT ![t] = rs]
         /\ UNCHANGED <<pc, batch, lost>>

\* The row of d is appended; a full buffer is flushed in the same iteration.
Buffer(t, d) ==
    LET rs == Append(buffer[t], d) IN
    IF Len(rs) >= BatchSize
    THEN Flush(t, rs, "select")
    ELSE /\ buffer' = [buffer EXCEPT ![t] = rs]
         /\ UNCHANGED <<pc, batch, lost>>

\* buildRowForCopy: a table's builder accepts that table's payload only; the
\* payloads that make it panic are those of NilDereference.
Builds(t, d) == TableOf[d] = t

\* The pointers a table's builder dereferences unchecked: buildVehicleDataRow
\* those of Tires and of its wheels, buildExtendedWheelDataRow those of the
\* wheels.  The other pointers, timestamps and durations, are read with AsTime
\* and AsDuration, which accept nil.
Dereferenced(t) ==
    (IF t = VehicleTable THEN {"Tires"} ELSE {}) \cup
    (IF t \in {VehicleTable, WheelTable} THEN Wheels ELSE {})

\* Building the row of d for table t dereferences a field that is unset.
NilDereference(t, d) == Builds(t, d) /\ Unset[d] \cap Dereferenced(t) # {}

\* A message other than a finished lap is received.  When its row cannot be
\* built, `continue` skips bufferMu.Unlock.
ReceiveRow(t) ==
    LET d == Head(chan[t]) IN
    /\ AtSelect(t)
    /\ chan[t] # <<>>
    /\ TableOf[d] # LapTable
    /\ ~NilDereference(t, d)
    /\ chan' = [chan EXCEPT ![t] = Tail(@)]
    /\ IF Builds(t, d)
       THEN Buffer(t, d) /\ UNCHANGED locked
       ELSE /\ locked' = [locked EXCEPT ![t] = TRUE]
            /\ lost' = lost \cup {d}
            /\ UNCHANGED <<pc, buffer, batch>>
    /\ UNCHANGED <<process, ctxDone, arrived, senders, nclosed, lapWriters,
                   rows, faults, ignored>>

\* The nil dereference panics and nothing recovers: the process goes down.
ReceiveNilField(t) ==
    /\ AtSelect(t)
    /\ chan[t] # <<>>
    /\ NilDereference(t, Head(chan[t]))
    /\ process' = "crashed"
    /\ UNCHANGED <<ctxDone, arrived, senders, chan, nclosed, lapWriters, workerVars, sinkVars>>

\* Mutant: laps are dropped while another one is being written.
ReceiveLap_OneWriter(t) ==
    LET d == Head(chan[t]) IN
    /\ AtSelect(t)
    /\ chan[t] # <<>>
    /\ TableOf[d] = LapTable
    /\ chan' = [chan EXCEPT ![t] = Tail(@)]
    /\ IF ctxDone \/ lapWriters # {}
       THEN lost' = lost \cup {d} /\ UNCHANGED lapWriters
       ELSE lapWriters' = lapWriters \cup {d} /\ UNCHANGED lost
    /\ UNCHANGED <<process, ctxDone, arrived, senders, nclosed, workerVars,
                   rows, faults, ignored>>

\* A finished lap gets a goroutine of its own, which uses the context of the
\* worker: once that is cancelled its Exec can only fail.
ReceiveLap(t) ==
    LET d == Head(chan[t]) IN
    /\ AtSelect(t)
    /\ chan[t] # <<>>
    /\ TableOf[d] = LapTable
    /\ chan' = [chan EXCEPT ![t] = Tail(@)]
    /\ IF ctxDone
       THEN lost' = lost \cup {d} /\ UNCHANGED lapWriters
       ELSE lapWriters' = lapWriters \cup {d} /\ UNCHANGED lost
    /\ UNCHANGED <<process, ctxDone, arrived, senders, nclosed, workerVars,
                   rows, faults, ignored>>

\* Mutant: the ticker only flushes full batches.
Tick_OnlyFull(t) ==
    /\ AtSelect(t)
    /\ Len(buffer[t]) >= BatchSize
    /\ Flush(t, buffer[t], "select")
    /\ UNCHANGED <<process, ctxDone, arrived, senders, chan, nclosed, locked,
                   lapWriters, rows, faults, ignored>>

\* The ticker fires: whatever is buffered is flushed.
Tick(t) ==
    /\ AtSelect(t)
    /\ Flush(t, buffer[t], "select")
    /\ UNCHANGED <<process, ctxDone, arrived, senders, chan, nclosed, locked,
                   lapWriters, rows, faults, ignored>>

\* Mutant: the worker returns without its last flush.
StopWorker_NoFlush(t) ==
    /\ AtSelect(t)
    /\ \/ ctxDone
       \/ Closed(t) /\ chan[t] = <<>>
    /\ pc' = [pc EXCEPT ![t] = "stopped"]
    /\ UNCHANGED <<process, ctxDone, arrived, senders, chan, nclosed, locked,
                   buffer, batch, lapWriters, sinkVars>>

\* The worker sees the cancelled context, or that its channel is closed and
\* empty: a last flush, and the goroutine ends.
StopWorker(t) ==
    /\ AtSelect(t)
    /\ \/ ctxDone
       \/ Closed(t) /\ chan[t] = <<>>
    /\ Flush(t, buffer[t], "stopped")
    /\ UNCHANGED <<process, ctxDone, arrived, senders, chan, nclosed, locked,
                   lapWriters, rows, faults, ignored>>

-----------------------------------------------------------------------------
(* TimescaleDB *)

\* A write may fail because the context was cancelled, or by a fault.
WriteFails ==
    /\ ctxDone \/ faults < MaxFaults
    /\ faults' = IF ctxDone THEN faults ELSE faults + 1

EndCopy(t) ==
    /\ Running
    /\ pc[t] = "writing"
    /\ pc' = [pc EXCEPT ![t] = "select"]
    /\ batch' = [batch EXCEPT ![t] = <<>>]
    /\ UNCHANGED <<process, ctxDone, arrived, senders, chan, nclosed, locked,
                   buffer, lapWriters, ignored>>

\* CopyFrom is one COPY: all of the batch is stored, or none of it.  An error
\* after the commit leaves what a success leaves, since nothing is retried.
CopySucceeds(t) ==
    /\ EndCopy(t)
    /\ rows' = [rows EXCEPT ![t] =
                  [d \in Deliveries |-> @[d] + Occurrences(batch[t], d)]]
    /\ UNCHANGED <<faults, lost>>

\* Mutant: the rows are inserted one by one until one fails.
CopyFails_Partial(t) ==
    /\ EndCopy(t)
    /\ WriteFails
    /\ rows' = [rows EXCEPT ![t][batch[t][1]] = @ + 1]
    /\ lost' = lost \cup Range(Tail(batch[t]))

\* flush logs the error and drops the batch.
CopyFails(t) ==
    /\ EndCopy(t)
    /\ WriteFails
    /\ lost' = lost \cup Range(batch[t])
    /\ UNCHANGED rows

EndLapWriter(d) ==
    /\ Running
    /\ d \in lapWriters
    /\ lapWriters' = lapWriters \ {d}
    /\ UNCHANGED <<process, ctxDone, arrived, senders, chan, nclosed, workerVars>>

LapConflict(d) ==
    \E e \in Deliveries : rows[LapTable][e] > 0 /\ LapKey[e] = LapKey[d]

\* INSERT ... ON CONFLICT DO NOTHING under the UNIQUE constraint of the table.
LapInsert(d) ==
    /\ EndLapWriter(d)
    /\ IF LapConflict(d)
       THEN ignored' = ignored \cup {d} /\ UNCHANGED rows
       ELSE rows' = [rows EXCEPT ![LapTable][d] = @ + 1] /\ UNCHANGED ignored
    /\ UNCHANGED <<faults, lost>>

LapInsertFails(d) ==
    /\ EndLapWriter(d)
    /\ WriteFails
    /\ lost' = lost \cup {d}
    /\ UNCHANGED <<rows, ignored>>

-----------------------------------------------------------------------------
(* Shutdown *)

\* SIGINT or SIGTERM cancels the context of signal.NotifyContext.
Interrupt ==
    /\ Running
    /\ ~ctxDone
    /\ ctxDone' = TRUE
    /\ UNCHANGED <<process, arrived, senders, chan, nclosed, lapWriters, workerVars, sinkVars>>

\* Mutant: the closer does not wait for the context.
CloseNext_AtOnce ==
    /\ Running
    /\ nclosed < Len(CloseOrder)
    /\ nclosed' = nclosed + 1
    /\ UNCHANGED <<process, ctxDone, arrived, senders, chan, lapWriters, workerVars, sinkVars>>

\* The closer goroutine of NewBatchRouter closes one channel after the other.
CloseNext ==
    /\ Running
    /\ ctxDone
    /\ nclosed < Len(CloseOrder)
    /\ nclosed' = nclosed + 1
    /\ UNCHANGED <<process, ctxDone, arrived, senders, chan, lapWriters, workerVars, sinkVars>>

\* Mutant: main waits for the channels to drain, but the workers have stopped.
Exit_AfterDraining ==
    /\ Running
    /\ ctxDone
    /\ \A t \in Tables : pc[t] # "writing" /\ chan[t] = <<>>
    /\ process' = "exited"
    /\ UNCHANGED <<ctxDone, arrived, senders, chan, nclosed, lapWriters, workerVars, sinkVars>>

\* main returns after its sleep: the deferred connPool.Close waits for the
\* connections in use, then the process ends, whatever the goroutines hold.
Exit ==
    /\ Running
    /\ ctxDone
    /\ \A t \in Tables : pc[t] # "writing"
    /\ process' = "exited"
    /\ UNCHANGED <<ctxDone, arrived, senders, chan, nclosed, lapWriters, workerVars, sinkVars>>

-----------------------------------------------------------------------------

Handler(d) == Arrive(d) \/ Send(d) \/ SendPanics(d)

Worker(t) ==
    \/ ReceiveRow(t)
    \/ ReceiveNilField(t)
    \/ ReceiveLap(t)
    \/ Tick(t)
    \/ StopWorker(t)

Database ==
    \/ \E t \in Tables : CopySucceeds(t) \/ CopyFails(t)
    \/ \E d \in Deliveries : LapInsert(d) \/ LapInsertFails(d)

Next ==
    \/ \E d \in Deliveries : Handler(d)
    \/ \E t \in Tables : Worker(t)
    \/ Database
    \/ Interrupt
    \/ CloseNext
    \/ Exit

Spec == Init /\ [][Next]_vars

(***************************************************************************)
(* Fairness.  Blocked senders queue in the channel and are served in turn, *)
(* and select picks at random among its ready branches, so a branch or a   *)
(* send that keeps becoming possible is eventually taken (SF).  A write    *)
(* ends, one way or the other: CopyFrom has no timeout of its own, the     *)
(* connection's TCP timeouts end it (WF).  Arrivals and signals are not    *)
(* owed by anyone.                                                         *)
(***************************************************************************)
Fairness ==
    /\ \A d \in Deliveries :
          /\ SF_vars(Send(d))
          /\ WF_vars(SendPanics(d))
          /\ WF_vars(LapInsert(d) \/ LapInsertFails(d))
    /\ \A t \in Tables :
          /\ SF_vars(ReceiveRow(t) \/ ReceiveNilField(t) \/ ReceiveLap(t))
          /\ SF_vars(Tick(t))
          /\ SF_vars(StopWorker(t))
          /\ WF_vars(CopySucceeds(t) \/ CopyFails(t))
    /\ WF_vars(CloseNext)
    /\ WF_vars(Exit)

FairSpec == Spec /\ Fairness

-----------------------------------------------------------------------------
(* Properties *)

\* Every variable has its type, and no channel holds more than its capacity.
TypeOK ==
    /\ process \in {"running", "exited", "crashed"}
    /\ ctxDone \in BOOLEAN
    /\ arrived \subseteq Deliveries
    /\ senders \subseteq arrived
    /\ chan \in [Tables -> Seq(Deliveries)]
    /\ \A t \in Tables : Len(chan[t]) <= ChanCap
    /\ nclosed \in 0..Len(CloseOrder)
    /\ pc \in [Tables -> {"select", "writing", "stopped"}]
    /\ locked \in [Tables -> BOOLEAN]
    /\ buffer \in [Tables -> Seq(Deliveries)]
    /\ batch \in [Tables -> Seq(Deliveries)]
    /\ lapWriters \subseteq Deliveries
    /\ rows \in [Tables -> [Deliveries -> Nat]]
    /\ faults \in 0..MaxFaults
    /\ ignored \subseteq Deliveries
    /\ lost \subseteq Deliveries

\* The error path that skips bufferMu.Unlock (batcher.go:302-308) is never
\* taken: routing in Add and the payload checks in the row builders agree, so
\* no worker ever locks itself out.
NoLeakedLock == \A t \in Tables : ~locked[t]

\* A delivery reaches the database at most once, and only in the table of its
\* payload, although its row moves through a goroutine, a channel, a buffer
\* and a batch while the flushes of several workers interleave.
StoredOnceInItsTable ==
    \A t \in Tables, d \in Deliveries :
        rows[t][d] > 0 => TableOf[d] = t /\ rows[t][d] = 1

\* Somebody alive can still bring d to the database, or log that it failed:
\* the goroutine that writes a lap, or a worker that has not stopped and has
\* the row, or whose open channel the row is in or will be sent to.
InGoodHands(d) ==
    LET t == TableOf[d] IN
    /\ Running
    /\ \/ d \in lapWriters
       \/ /\ pc[t] # "stopped" /\ ~locked[t]
          /\ d \in Range(Pipe(t)) \/ (d \in senders /\ ~Closed(t))

\* What a shutdown loses without a log (the TODO at batcher.go:275-276): rows
\* that no worker has received, and, once the process is gone, rows in a
\* buffer or with a lap writer.  Never rows of a CopyFrom.
LeftBehind(d) ==
    LET t == TableOf[d] IN
    /\ ctxDone
    /\ \/ d \in senders \cup Range(chan[t])
       \/ process = "exited" /\ d \in lapWriters \cup Range(buffer[t])

\* What a panic takes along: whatever was in memory.
LostInCrash(d) ==
    /\ process = "crashed"
    /\ d \in senders \cup lapWriters \cup Range(Pipe(TableOf[d]))

\* A delivery the handler accepted is settled (stored, superseded by an
\* earlier row of the same lap, or part of a failure that was logged), or in
\* the hands of a live worker, or one of the two named silent losses: a panic,
\* or a shutdown that reached it outside a CopyFrom and before its worker
\* flushed it.  In particular a worker that has stopped has given account of
\* everything it had received.
NothingForgotten ==
    \A d \in Routed :
        d \in Settled \/ InGoodHands(d) \/ LeftBehind(d) \/ LostInCrash(d)

\* A delivery is in one place at a time: no message is both on its way and
\* settled, and no message is settled in two ways (stored and reported lost).
OnePlace ==
    /\ \A d \in Settled :
          /\ d \notin senders \cup lapWriters
          /\ \A t \in Tables : d \notin Range(Pipe(t))
    /\ Stored \cap (ignored \cup lost) = {}
    /\ ignored \cap lost = {}

\* Until a shutdown, each failed write costs at most one batch of rows.
LossBoundedByFaults ==
    ~ctxDone => Cardinality(lost) <= faults * BatchSize

\* A worker waiting for messages holds less than a batch, and no CopyFrom is
\* larger than a batch, so memory per table is bounded whatever the database
\* does (the goroutines of Add are what grows instead).
BatchBound ==
    \A t \in Tables :
        /\ Len(buffer[t]) < BatchSize
        /\ Len(batch[t]) <= BatchSize

\* The first row of a lap wins: two rows of the table never share a key, and a
\* lap is ignored only in favour of a stored one.
LapRowsUnique ==
    /\ \A d, e \in Deliveries :
          /\ rows[LapTable][d] > 0 /\ rows[LapTable][e] > 0
          /\ LapKey[d] = LapKey[e]
          => d = e
    /\ \A d \in ignored : LapConflict(d)

\* While nobody has asked it to stop, the service crashes only on a vehicle
\* message with Tires or a wheel of theirs unset, or a wheel message with a
\* wheel unset: the channels are closed by the shutdown alone.
CrashOnlyAtShutdown ==
    process = "crashed" =>
        ctxDone \/ \E d \in arrived : NilDereference(TableOf[d], d)

\* The refinement mapping: the abstract sink sees a delivery's fate only.
Phase ==
    IF ~Running THEN "down" ELSE IF ctxDone THEN "stopping" ELSE "serving"

Status ==
    [d \in Deliveries |->
        CASE d \notin arrived -> "absent"
          [] d \in arrived \ Routed -> "void"
          [] d \in Stored -> "stored"
          [] d \in ignored -> "superseded"
          [] d \in lost -> "dropped"
          [] OTHER -> "pending"]

Sink == INSTANCE TelemetrySink WITH phase <- Phase, status <- Status

\* The service is an at-most-once sink with all-or-nothing batches: buffering,
\* concurrent flushes and the shutdown add no behaviour to TelemetrySink.
ImplementsSink == Sink!Spec

\* Every accepted message is settled in the end unless the service is told to
\* stop or crashes: ticks flush what does not fill a batch, and a full channel
\* or a slow database only delays the senders.
EventuallySettled ==
    \A d \in {e \in Deliveries : TableOf[e] # NoTable} :
        d \in arrived ~> (d \in Settled \/ ctxDone \/ process = "crashed")

\* After a signal the process ends, however much is still queued.
Terminates == ctxDone ~> ~Running

-----------------------------------------------------------------------------
(* What a comment of the source says, and the code does not do *)

\* "flush writes the buffered rows to TimescaleDB" (batcher.go:327): when the
\* database is healthy, a worker that has stopped has lost nothing of its table.
LastFlushWrites ==
    \A t \in Tables :
        pc[t] = "stopped" /\ faults = 0 => \A d \in lost : TableOf[d] # t

=============================================================================
