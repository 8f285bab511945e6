------------------------- MODULE MCPersistBatching -------------------------
(* Small instances of PersistBatching: two batched tables and the lap table. *)
EXTENDS PersistBatching, TLC

CONSTANTS vehicle, wheels, laps,   \* tables, closed in this order
          v1, v2,                  \* vehicle messages
          vn,                      \* a vehicle message without tires
          w1,                      \* a wheel message
          wn,                      \* a wheel message without one of the wheels
          l1, l2,                  \* two deliveries of the same lap
          x                        \* a message without data

MixedOrder == <<vehicle, wheels, laps>>
SteadyOrder == <<vehicle, laps>>

\* Every kind of message that reaches a table, for the safety properties.
MixedDeliveries == {v1, v2, vn, w1, wn, l1, l2}

\* A full batch, a partial batch, a lap and a message that goes nowhere, for
\* the liveness properties and the refinement.
SteadyDeliveries == {v1, v2, l1, x}

TableAmong(D) ==
    [d \in D |-> CASE d \in {v1, v2, vn} -> vehicle
                   [] d \in {w1, wn} -> wheels
                   [] d \in {l1, l2} -> laps
                   [] OTHER -> NoTable]

MixedTable == TableAmong(MixedDeliveries)
SteadyTable == TableAmong(SteadyDeliveries)

UnsetAmong(D) ==
    [d \in D |-> CASE d = vn -> {"Tires"}
                   [] d = wn -> {"BackRight"}
                   [] OTHER -> {}]

MixedUnset == UnsetAmong(MixedDeliveries)
SteadyUnset == UnsetAmong(SteadyDeliveries)

\* l1 and l2 are the same lap; keys of other deliveries are never compared.
MixedKey == MixedTable
SteadyKey == SteadyTable

\* Deliveries of the same table and kind are interchangeable.
MixedSymmetry == Permutations({v1, v2}) \cup Permutations({l1, l2})
=============================================================================
