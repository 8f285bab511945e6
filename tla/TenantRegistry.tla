--------------------------- MODULE TenantRegistry ---------------------------
(***************************************************************************)
(* What the authentication tables promise to those who read them (the MQTT *)
(* broker's ACL checks, the row level security of the telemetry tables):   *)
(* a tenant appears together with its first user, users join tenants that  *)
(* exist, a user name has one tenant, and nothing goes away.               *)
(* TenantProvisioning implements it (its property ImplementsRegistry).     *)
(***************************************************************************)
CONSTANTS OrgIDs, Usernames

VARIABLES
    tenants,   \* tenants that exist
    members    \* <<user name, tenant>> pairs

vars == <<tenants, members>>

Init == tenants = {} /\ members = {}

Free(u) == \A m \in members : m[1] # u

Register(o, u) ==
    /\ o \notin tenants
    /\ Free(u)
    /\ tenants' = tenants \cup {o}
    /\ members' = members \cup {<<u, o>>}

Join(o, u) ==
    /\ o \in tenants
    /\ Free(u)
    /\ members' = members \cup {<<u, o>>}
    /\ UNCHANGED tenants

Next == \E o \in OrgIDs, u \in Usernames : Register(o, u) \/ Join(o, u)

Spec == Init /\ [][Next]_vars
=============================================================================
