--------------------------- MODULE MCDriverAccess ---------------------------
(* A small instance of TenantProvisioning and DriverAccess: jobs that compete *)
(* for a name of an organisation and for the names of users, and an ingest    *)
(* that is started with what some of them report.                             *)
EXTENDS DriverAccess, TLC

CONSTANTS first, second, again, add,   \* jobs
          red, blue,                   \* names of organisations
          rig,                         \* an ingest
          ann, bob                     \* names of users

ThreeTenants == {first, second, again}
OneUser == {add}
OneIngest == {rig}

\* `again` wants the name of `first` for its organisation.
OrgNames == (first :> red) @@ (second :> blue) @@ (again :> red)

\* `first` and `second` want the same user, and so do `again` and `add`.
UserNames == (first :> ann) @@ (second :> ann) @@ (again :> bob) @@ (add :> bob)

\* The user is added to the first tenant there is.
FirstTenant == [j \in OneUser |-> 1]
=============================================================================
