--------------------------- MODULE TelemetrySink ---------------------------
(***************************************************************************)
(* What the persist service promises to whoever publishes telemetry, with  *)
(* no goroutine, channel or buffer in sight: a message is stored at most   *)
(* once and for good, rows of one table are stored or dropped together in  *)
(* batches of bounded size, the first row of a lap wins, and while the     *)
(* service is serving a batch is dropped only at the cost of a fault.      *)
(* PersistBatching implements it (its property ImplementsSink).            *)
(***************************************************************************)
EXTENDS Integers, FiniteSets

CONSTANTS Deliveries, NoTable, LapTable, TableOf, LapKey, BatchSize, MaxFaults

VARIABLES
    phase,    \* "serving", "stopping" (a signal was received) or "down"
    status,   \* what has become of each delivery
    faults    \* writes that failed while serving

vars == <<phase, status, faults>>

StatusIs(s) == {d \in Deliveries : status[d] = s}

Init ==
    /\ phase = "serving"
    /\ status = [d \in Deliveries |-> "absent"]
    /\ faults = 0

Mark(S, s) == status' = [d \in Deliveries |-> IF d \in S THEN s ELSE status[d]]

\* Rows that are written, or lost, by one write.
IsBatch(S) ==
    /\ S # {}
    /\ S \subseteq StatusIs("pending")
    /\ \A d, e \in S : TableOf[d] = TableOf[e]
    /\ Cardinality(S) <= BatchSize

LapStored(d) == \E e \in StatusIs("stored") :
                    TableOf[e] = LapTable /\ LapKey[e] = LapKey[d]

Accept(d) ==
    /\ phase # "down"
    /\ status[d] = "absent"
    /\ Mark({d}, IF TableOf[d] = NoTable THEN "void" ELSE "pending")
    /\ UNCHANGED <<phase, faults>>

Store(S) ==
    /\ phase # "down"
    /\ IsBatch(S)
    /\ \A d \in S : TableOf[d] = LapTable => S = {d} /\ ~LapStored(d)
    /\ Mark(S, "stored")
    /\ UNCHANGED <<phase, faults>>

Supersede(d) ==
    /\ phase # "down"
    /\ status[d] = "pending"
    /\ TableOf[d] = LapTable
    /\ LapStored(d)
    /\ Mark({d}, "superseded")
    /\ UNCHANGED <<phase, faults>>

Drop(S) ==
    /\ phase # "down"
    /\ IsBatch(S)
    /\ Mark(S, "dropped")
    /\ faults' = IF phase = "serving" THEN faults + 1 ELSE faults
    /\ faults' <= MaxFaults
    /\ UNCHANGED phase

Stop == phase = "serving" /\ phase' = "stopping" /\ UNCHANGED <<status, faults>>

GoDown == phase # "down" /\ phase' = "down" /\ UNCHANGED <<status, faults>>

Next ==
    \/ \E d \in Deliveries : Accept(d) \/ Supersede(d)
    \/ \E S \in SUBSET StatusIs("pending") : Store(S) \/ Drop(S)
    \/ Stop
    \/ GoDown

Spec == Init /\ [][Next]_vars
=============================================================================
