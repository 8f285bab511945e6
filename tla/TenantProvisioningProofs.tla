----------------------- MODULE TenantProvisioningProofs -----------------------
(***************************************************************************)
(* Theorems about TenantProvisioning, for any jobs, names and number of    *)
(* faults, under JobsAssumption.                                           *)
(*                                                                         *)
(* The inductive invariant follows a job through its transaction:          *)
(*   TypeOK, CountInv, JobInv   types; each tenant job has a number of its *)
(*                 own, and there are no more numbers than jobs            *)
(*   TxInv         what a transaction holds, by what its job does next     *)
(*   KeysInv       unique keys, across the tables and open transactions    *)
(*   TablesInv     a tenant's rows, and a user's, are all there or not     *)
(*   GrafanaInv    what Grafana has for the jobs that have not failed      *)
(* The steps have few shapes; what a shape does to an invariant is proved  *)
(* once.  SourceInv and DebtInv, for two more properties, come last.       *)
(***************************************************************************)
EXTENDS TenantProvisioning, FiniteSetTheorems, TLAPS

-----------------------------------------------------------------------------
(* Rows *)

\* What a job inserts for its tenant, besides the first user.
Bundle(o) == TenantRows(o) \cup RoleRows(o) \cup MachineRows(o)

\* The rows of a tenant and of a user: their fields, and the keys among them.
LEMMA RowFields ==
  /\ \A t, k, o : Row(t, k, o).table = t /\ Row(t, k, o).key = k /\ Row(t, k, o).org = o
  /\ \A o \in OrgIDs : Bundle(o) \subseteq RowType
  /\ \A u \in Usernames, o \in OrgIDs : UserRows(u, o) \subseteq RowType
  /\ \A o : \A r \in Bundle(o) : r.org = o /\ r.key = o /\ r.table # "users"
  /\ \A u, o : \A r \in UserRows(u, o) : r.org = o /\ r.key = u /\ r.table # "tenants"
PROOF
  <1>1. \A t, k, o : Row(t, k, o).table = t /\ Row(t, k, o).key = k /\ Row(t, k, o).org = o
    BY DEF Row
  <1>2. \A o \in OrgIDs : Bundle(o) \subseteq RowType
    BY DEF Row, Bundle, TenantRows, RoleRows, MachineRows, RowType
  <1>3. \A u \in Usernames, o \in OrgIDs : UserRows(u, o) \subseteq RowType
    BY DEF Row, UserRows, RowType
  <1>4. \A o : \A r \in Bundle(o) : r.org = o /\ r.key = o /\ r.table # "users"
    BY DEF Row, Bundle, TenantRows, RoleRows, MachineRows
  <1>5. \A u, o : \A r \in UserRows(u, o) : r.org = o /\ r.key = u /\ r.table # "tenants"
    BY DEF Row, UserRows
  <1> QED BY <1>1, <1>2, <1>3, <1>4, <1>5

-----------------------------------------------------------------------------
(* Jobs *)

\* Tenant jobs that have asked Grafana for an organisation.
Asked == {j \in TenantJobs : pc[j] # "org"}

CountInv == created <= Cardinality(Asked)

JobInv ==
    /\ \A j \in UserJobs :
          /\ pc[j] \in Ended \cup {"begin", "user", "commit"}
          /\ org[j] = TenantID[j]
    /\ \A j \in TenantJobs :
          /\ org[j] <= created
          /\ pc[j] = "org" => org[j] = NoOrg
          /\ org[j] = NoOrg => pc[j] \in {"org", "failed", "crashed"}
    /\ \A i, j \in TenantJobs : org[i] = org[j] /\ org[i] # NoOrg => i = j

JobsInv == TypeOK /\ CountInv /\ JobInv

\* A transaction ends without a commit.
Aborts(j) ==
    /\ UNCHANGED <<db, org, created>>
    /\ tx' = [tx EXCEPT ![j] = {}]
    /\ pc[j] \notin Ended
    /\ \E next \in {"rollback", "delete", "failed", "crashed"} :
          /\ pc' = [pc EXCEPT ![j] = next]
          /\ pc[j] = "org" => next = "crashed"
          /\ j \in UserJobs => next \in {"failed", "crashed"}

\* A request that is not part of the transaction.
Moves(j) ==
    /\ UNCHANGED <<db, tx, org, created>>
    /\ \E next \in {"tenant", "user", "mqtt", "account", "rollback", "failed"} :
          /\ pc' = [pc EXCEPT ![j] = next]
          /\ <<pc[j], next>> \in
                {<<"begin", "tenant">>, <<"begin", "user">>, <<"postgres", "mqtt">>,
                 <<"mqtt", "account">>, <<"postgres", "rollback">>, <<"mqtt", "rollback">>,
                 <<"delete", "failed">>, <<"org", "failed">>}
          /\ pc[j] = "begin" => (next = "tenant" <=> j \in TenantJobs)

\* Grafana has a new organisation, of which the job gets the number or not.
Creates(j) ==
    /\ UNCHANGED <<db, tx>>
    /\ pc[j] = "org"
    /\ created' = created + 1
    /\ \/ pc' = [pc EXCEPT ![j] = "begin"] /\ org' = [org EXCEPT ![j] = created + 1]
       \/ pc' = [pc EXCEPT ![j] = "failed"] /\ org' = org

\* A statement adds rows to the transaction.
Writes(j) ==
    /\ UNCHANGED <<db, org, created>>
    /\ \E next \in {"role", "postgres", "user", "commit"}, R \in SUBSET (Bundle(org[j]) \cup UserRows(Username[j], org[j])) :
          /\ ~Blocked(j, R) /\ ~Violates(j, R)
          /\ pc' = [pc EXCEPT ![j] = next]
          /\ tx' = [tx EXCEPT ![j] = tx[j] \cup R]
          /\ \/ pc[j] = "tenant" /\ next = "role" /\ R = TenantRows(org[j])
             \/ pc[j] = "role" /\ next = "postgres" /\ R = RoleRows(org[j])
             \/ pc[j] = "account" /\ next = "user" /\ R = MachineRows(org[j])
             \/ pc[j] = "user" /\ next = "commit" /\ R = UserRows(Username[j], org[j])

\* The transaction is committed, whether or not the job is told.
Commits(j) ==
    /\ UNCHANGED <<org, created>>
    /\ pc[j] = "commit"
    /\ db' = db \cup tx[j]
    /\ tx' = [tx EXCEPT ![j] = {}]
    /\ \E next \in {"done", "rollback", "failed"} :
          pc' = [pc EXCEPT ![j] = next] /\ (next = "rollback" => j \in TenantJobs)

Shape(j) == Aborts(j) \/ Moves(j) \/ Creates(j) \/ Writes(j) \/ Commits(j)

\* An error: the server drops the transaction, the job compensates or ends.
LEMMA AbortShape ==
  ASSUME TypeOK, NEW j \in Jobs, NEW next \in {"rollback", "delete"}, Abort(j, next),
         UNCHANGED <<db, org, created>>, pc[j] \notin Ended \cup {"org"}
  PROVE  Aborts(j)
  BY DEF Abort, GoTo, Aborts

\* A statement writes its rows or is an error.
LEMMA ExecShape ==
  ASSUME TypeOK, NEW j \in Jobs, NEW R, NEW next, Exec(j, R, next),
         pc[j] \notin Ended \cup {"org"}
  PROVE  \/ Aborts(j)
         \/ /\ ~Blocked(j, R) /\ ~Violates(j, R)
            /\ UNCHANGED <<db, org, created>>
            /\ tx' = [tx EXCEPT ![j] = tx[j] \cup R]
            /\ pc' = [pc EXCEPT ![j] = next]
  BY DEF Exec, Abort, GoTo, Aborts, grafanaVars

\* Every step of a job has one of the shapes.
LEMMA Shapes ==
  ASSUME TypeOK, JobInv, NEW j \in Jobs, Step(j) \/ Fails(j) \/ Crash(j)
  PROVE  Shape(j)
PROOF
  <1> USE DEF grafanaVars, Ended
  <1>1. CASE CreateOrg(j)
    BY <1>1 DEF CreateOrg, NewOrg, GoTo, Shape, Moves, Creates
  <1>2. CASE CreateOrgFails(j)
    BY <1>2 DEF CreateOrgFails, NewOrg, GoTo, Shape, Moves, Creates
  <1>3. CASE Begin(j)
    BY <1>3 DEF Begin, GoTo, Shape, Moves
  <1>4. CASE BeginFails(j)
    BY <1>4, AbortShape DEF BeginFails, Shape
  <1>5. CASE ExecFails(j)
    BY <1>5, AbortShape DEF ExecFails, Shape
  <1>6. CASE InsertTenant(j)
    <2>1. Exec(j, TenantRows(org[j]), "role") /\ pc[j] = "tenant"
      BY <1>6 DEF InsertTenant
    <2> QED BY <2>1, ExecShape DEF Shape, Writes, Bundle
  <1>7. CASE CreateRole(j)
    <2>1. Exec(j, RoleRows(org[j]), "postgres") /\ pc[j] = "role"
      BY <1>7 DEF CreateRole
    <2> QED BY <2>1, ExecShape DEF Shape, Writes, Bundle
  <1>8. CASE InsertAccount(j)
    <2>1. Exec(j, MachineRows(org[j]), "user") /\ pc[j] = "account"
      BY <1>8 DEF InsertAccount
    <2> QED BY <2>1, ExecShape DEF Shape, Writes, Bundle
  <1>9. CASE InsertUser(j)
    <2>1. Exec(j, UserRows(Username[j], org[j]), "commit") /\ pc[j] = "user"
      BY <1>9 DEF InsertUser
    <2> QED BY <2>1, ExecShape DEF Shape, Writes
  <1>10. CASE AddPostgres(j)
    BY <1>10 DEF AddPostgres, AddSource, GoTo, Shape, Moves
  <1>11. CASE AddMQTT(j)
    BY <1>11 DEF AddMQTT, AddSource, GoTo, Shape, Moves
  <1>12. CASE AddSourceFails(j)
    BY <1>12 DEF AddSourceFails, AddSource, GoTo, Shape, Moves
  <1>13. CASE Commit(j)
    BY <1>13 DEF Commit, GoTo, Shape, Commits
  <1>14. CASE CommitFails(j)
    BY <1>14 DEF CommitFails, Abort, GoTo, Shape, Commits, Aborts, Jobs
  <1>15. CASE Rollback(j)
    BY <1>15, JobsAssumption DEF Rollback, GoTo, Shape, Aborts, JobInv
  <1>16. CASE DeleteOrg(j)
    BY <1>16 DEF DeleteOrg, GoTo, Shape, Moves
  <1>17. CASE DeleteOrgFails(j)
    BY <1>17 DEF DeleteOrgFails, GoTo, Shape, Moves
  <1>18. CASE Crash(j)
    <2>1. /\ UNCHANGED <<db, org, created>>
          /\ tx' = [tx EXCEPT ![j] = {}]
          /\ pc[j] \notin Ended
          /\ pc' = [pc EXCEPT ![j] = "crashed"]
      BY <1>18 DEF Crash, GoTo
    <2> QED BY <2>1 DEF Shape, Aborts
  <1> QED
    BY <1>1, <1>2, <1>3, <1>4, <1>5, <1>6, <1>7, <1>8, <1>9, <1>10, <1>11, <1>12,
       <1>13, <1>14, <1>15, <1>16, <1>17, <1>18 DEF Step, Fails

\* A step keeps the jobs' places and numbers.
LEMMA JobsStep ==
  ASSUME JobsInv, NEW j \in Jobs, Shape(j)
  PROVE  CountInv' /\ JobInv' /\ created' \in 0..Cardinality(TenantJobs)
PROOF
  <1> USE JobsAssumption DEF Ended
  <1>1. /\ created \in Nat /\ DOMAIN pc = Jobs /\ pc = [i \in Jobs |-> pc[i]]
        /\ org \in [Jobs -> OrgIDs \cup {NoOrg}] /\ Cardinality(TenantJobs) \in Nat
    <2>1. Cardinality(TenantJobs) \in Nat
      BY FS_CardinalityType
    <2> QED BY <2>1 DEF JobsInv, TypeOK
  <1>2. /\ IsFiniteSet(Asked) /\ Cardinality(Asked) \in Nat
        /\ Cardinality(Asked) <= Cardinality(TenantJobs)
    <2>1. Asked \subseteq TenantJobs
      BY DEF Asked
    <2> QED BY <2>1, FS_Subset, FS_CardinalityType
  <1>3. CASE Creates(j)
    <2>1. j \in TenantJobs /\ j \notin Asked
      BY <1>3 DEF Creates, JobsInv, JobInv, Asked, Jobs
    <2>2. Asked' = Asked \cup {j}
      BY <1>1, <1>3, <2>1 DEF Creates, Asked, Jobs
    <2>3. /\ Asked \cup {j} \subseteq TenantJobs
          /\ Cardinality(Asked \cup {j}) = Cardinality(Asked) + 1
      BY <1>2, <2>1, FS_AddElement DEF Asked
    <2>4. Cardinality(Asked \cup {j}) <= Cardinality(TenantJobs)
      BY <2>3, FS_Subset
    <2>5. created' = created + 1 /\ created <= Cardinality(Asked)
      BY <1>3 DEF Creates, JobsInv, CountInv
    <2>6. CountInv' /\ created' \in 0..Cardinality(TenantJobs)
      BY <1>1, <1>2, <2>2, <2>3, <2>4, <2>5 DEF CountInv
    <2>7. JobInv'
      BY <1>1, <1>3, <2>1, <2>5 DEF Creates, JobsInv, JobInv, Jobs, NoOrg, OrgIDs
    <2> QED BY <2>6, <2>7
  <1>4. CASE ~Creates(j)
    <2>1. created' = created /\ org' = org
      BY <1>4 DEF Shape, Aborts, Moves, Writes, Commits
    <2>2. Asked \subseteq Asked' /\ Asked' \subseteq TenantJobs
      BY <1>1, <1>4 DEF Shape, Aborts, Moves, Writes, Commits, Asked, Jobs
    <2>3. IsFiniteSet(Asked') /\ Cardinality(Asked) <= Cardinality(Asked')
          /\ Cardinality(Asked') \in Nat
      BY <2>2, FS_Subset, FS_CardinalityType
    <2>4. CountInv'
      BY <1>1, <1>2, <2>1, <2>3 DEF CountInv, JobsInv
    <2>5. JobInv'
      <3>1. CASE Aborts(j)
        BY <1>1, <2>1, <3>1 DEF Aborts, JobsInv, JobInv, Jobs
      <3>2. CASE Moves(j)
        BY <1>1, <2>1, <3>2 DEF Moves, JobsInv, JobInv, Jobs
      <3>3. CASE Writes(j)
        BY <1>1, <2>1, <3>3 DEF Writes, JobsInv, JobInv, Jobs
      <3>4. CASE Commits(j)
        BY <1>1, <2>1, <3>4 DEF Commits, JobsInv, JobInv, Jobs
      <3> QED BY <1>4, <3>1, <3>2, <3>3, <3>4 DEF Shape
    <2> QED BY <2>1, <2>4, <2>5 DEF JobsInv, TypeOK
  <1> QED BY <1>3, <1>4

\* A step keeps the types.
LEMMA TypeStep ==
  ASSUME JobsInv, NEW j \in Jobs, Step(j) \/ Fails(j) \/ Crash(j)
  PROVE  TypeOK'
PROOF
  <1> USE JobsAssumption DEF Ended
  <1>1. Shape(j)
    BY Shapes DEF JobsInv
  <1>2. created' \in 0..Cardinality(TenantJobs) /\ Cardinality(TenantJobs) \in Nat
    BY <1>1, JobsStep, FS_CardinalityType
  <1>3. org[j] \in OrgIDs \/ pc[j] \in {"org", "failed", "crashed"}
    BY DEF JobsInv, JobInv, TypeOK, Jobs
  <1>4. Username[j] \in Usernames
    BY DEF Usernames
  <1>5. db' \subseteq RowType /\ tx' \in [Jobs -> SUBSET RowType]
    <2>1. CASE Writes(j)
      <3>1. org[j] \in OrgIDs
        BY <1>3, <2>1 DEF Writes
      <3>2. Bundle(org[j]) \subseteq RowType /\ UserRows(Username[j], org[j]) \subseteq RowType
        BY <1>4, <3>1, RowFields
      <3> QED BY <2>1, <3>2 DEF Writes, JobsInv, TypeOK
    <2>2. CASE ~Writes(j)
      BY <1>1, <2>2 DEF Shape, Aborts, Moves, Creates, Commits, JobsInv, TypeOK
    <2> QED BY <2>1, <2>2
  <1>6. /\ pc' \in [Jobs -> Ended \cup {"org", "begin", "tenant", "role", "postgres", "mqtt",
                                   "account", "user", "commit", "rollback", "delete"}]
        /\ org' \in [Jobs -> OrgIDs \cup {NoOrg}]
    BY <1>1, <1>2 DEF Shape, Aborts, Moves, Creates, Writes, Commits, JobsInv, TypeOK, OrgIDs
  <1>7. faults' \in 0..MaxFaults
    <2>1. Fault \/ faults' = faults
      BY DEF Step, Fails, CreateOrg, CreateOrgFails, Begin, BeginFails, InsertTenant, CreateRole,
             AddPostgres, AddMQTT, AddSourceFails, InsertAccount, InsertUser, Exec, ExecFails,
             Commit, CommitFails, Rollback, DeleteOrg, DeleteOrgFails, Crash
    <2> QED BY <2>1 DEF Fault, JobsInv, TypeOK
  <1>8. /\ orgs' \subseteq OrgRecord
        /\ \A o \in orgs' : o.id <= created'
    <2>1. \/ NewOrg(j) /\ j \in TenantJobs
          \/ orgs' \subseteq orgs /\ created' = created
      BY DEF Step, Fails, CreateOrg, CreateOrgFails, Begin, BeginFails, InsertTenant, CreateRole,
             AddPostgres, AddMQTT, AddSource, AddSourceFails, InsertAccount, InsertUser, Exec,
             ExecFails, Commit, CommitFails, Rollback, DeleteOrg, DeleteOrgFails, Crash,
             grafanaVars, JobsInv, JobInv, Jobs
    <2>2. CASE NewOrg(j) /\ j \in TenantJobs
      BY <1>2, <2>2 DEF NewOrg, JobsInv, TypeOK, OrgRecord, OrgIDs, Names
    <2>3. CASE orgs' \subseteq orgs /\ created' = created
      BY <2>3 DEF JobsInv, TypeOK
    <2> QED BY <2>1, <2>2, <2>3
  <1>9. sources' \subseteq OrgIDs \X {"postgres", "mqtt"}
    <2>1. \/ sources' \subseteq sources
          \/ /\ pc[j] \in {"postgres", "mqtt"}
             /\ \E kind \in {"postgres", "mqtt"} : sources' = sources \cup {<<org[j], kind>>}
      BY DEF Step, Fails, CreateOrg, CreateOrgFails, Begin, BeginFails, InsertTenant, CreateRole,
             AddPostgres, AddMQTT, AddSource, AddSourceFails, InsertAccount, InsertUser, Exec,
             ExecFails, Commit, CommitFails, Rollback, DeleteOrg, DeleteOrgFails, Crash,
             grafanaVars
    <2> QED BY <1>3, <2>1 DEF JobsInv, TypeOK
  <1> QED BY <1>2, <1>5, <1>6, <1>7, <1>8, <1>9 DEF TypeOK, Ended

-----------------------------------------------------------------------------
(* Transactions and tables *)

Distinct(S) == \A r, q \in S : SameKey(r, q) => r = q

Apart(S, T) == \A r \in S, q \in T : ~SameKey(r, q)

\* What a transaction holds depends on what its job does next.
TenantTx(j) ==
    /\ pc[j] \in Ended \cup {"org", "begin", "tenant", "delete"} => tx[j] = {}
    /\ pc[j] = "role" => tx[j] = TenantRows(org[j])
    /\ pc[j] \in {"postgres", "mqtt", "account"} =>
          tx[j] = TenantRows(org[j]) \cup RoleRows(org[j])
    /\ pc[j] = "user" => tx[j] = Bundle(org[j])
    /\ pc[j] = "commit" => tx[j] = Bundle(org[j]) \cup UserRows(Username[j], org[j])

UserTx(j) ==
    tx[j] = IF pc[j] = "commit" THEN UserRows(Username[j], org[j]) ELSE {}

TxInv ==
    /\ \A j \in TenantJobs : TenantTx(j)
    /\ \A j \in UserJobs : UserTx(j)

KeysInv ==
    /\ Distinct(db)
    /\ \A j \in Jobs : Distinct(tx[j]) /\ Apart(db, tx[j])
    /\ \A i, j \in Jobs : i # j => Apart(tx[i], tx[j])

\* A row never stands alone: its tenant is complete, and so is its user.
TablesInv ==
    /\ \A r \in db :
          /\ r.org <= created
          /\ Bundle(r.org) \subseteq db
          /\ \/ r \in Bundle(r.org)
             \/ \E u \in Usernames : r \in UserRows(u, r.org) /\ UserRows(u, r.org) \subseteq db
    /\ \A j \in UserJobs : pc[j] = "commit" => Bundle(org[j]) \subseteq db

DoneInv ==
    \A j \in Jobs : pc[j] = "done" =>
        /\ UserRows(Username[j], org[j]) \subseteq db
        /\ j \in TenantJobs => Bundle(org[j]) \subseteq db

TxnInv == TxInv /\ KeysInv /\ TablesInv /\ DoneInv

\* The rows of one statement have keys of their own.
LEMMA StatementKeys ==
  \A u, o : /\ Distinct(TenantRows(o)) /\ Distinct(RoleRows(o))
            /\ Distinct(MachineRows(o)) /\ Distinct(UserRows(u, o))
  BY DEF Distinct, SameKey, UniqueTables, TenantRows, RoleRows, MachineRows, UserRows, Row

\* A step leaves a transaction with the rows its job's place says.
LEMMA TxStep ==
  ASSUME JobsInv, TxInv, NEW j \in Jobs, Shape(j)
  PROVE  TxInv'
PROOF
  <1> USE JobsAssumption DEF Ended, Jobs
  <1>1. /\ DOMAIN pc = Jobs /\ pc = [i \in Jobs |-> pc[i]]
        /\ DOMAIN tx = Jobs /\ tx = [i \in Jobs |-> tx[i]]
        /\ DOMAIN org = Jobs /\ org = [i \in Jobs |-> org[i]]
    BY DEF JobsInv, TypeOK
  <1>2. CASE Aborts(j)
    BY <1>1, <1>2 DEF Aborts, TxInv, TenantTx, UserTx
  <1>3. CASE Moves(j)
    BY <1>1, <1>3 DEF Moves, TxInv, TenantTx, UserTx, JobsInv, JobInv
  <1>4. CASE Creates(j)
    <2>1. /\ pc[j] = "org" /\ tx' = tx
          /\ \/ pc' = [pc EXCEPT ![j] = "begin"] /\ org' = [org EXCEPT ![j] = created + 1]
             \/ pc' = [pc EXCEPT ![j] = "failed"] /\ org' = org
      BY <1>4 DEF Creates
    <2>2. \A i \in Jobs \ {j} : pc'[i] = pc[i] /\ org'[i] = org[i]
      BY <1>1, <2>1
    <2>3. pc'[j] \in {"begin", "failed"}
      BY <1>1, <2>1
    <2>4. tx[j] = {}
      BY <2>1 DEF TxInv, TenantTx, UserTx
    <2> QED BY <2>1, <2>2, <2>3, <2>4 DEF TxInv, TenantTx, UserTx
  <1>5. CASE Writes(j)
    <2>1. PICK next, R :
             /\ org' = org
             /\ pc' = [pc EXCEPT ![j] = next]
             /\ tx' = [tx EXCEPT ![j] = tx[j] \cup R]
             /\ \/ pc[j] = "tenant" /\ next = "role" /\ R = TenantRows(org[j])
                \/ pc[j] = "role" /\ next = "postgres" /\ R = RoleRows(org[j])
                \/ pc[j] = "account" /\ next = "user" /\ R = MachineRows(org[j])
                \/ pc[j] = "user" /\ next = "commit" /\ R = UserRows(Username[j], org[j])
      BY <1>5 DEF Writes
    <2>2. \A i \in Jobs \ {j} : pc'[i] = pc[i] /\ tx'[i] = tx[i] /\ org'[i] = org[i]
      BY <1>1, <2>1
    <2>3. pc'[j] = next /\ tx'[j] = tx[j] \cup R /\ org'[j] = org[j]
      BY <1>1, <2>1
    <2>4. j \in UserJobs => pc[j] = "user" /\ tx[j] = {}
      BY <2>1 DEF JobsInv, JobInv, TxInv, TenantTx, UserTx
    <2>5. j \in TenantJobs =>
             /\ next = "role" => tx'[j] = TenantRows(org[j])
             /\ next = "postgres" => tx'[j] = TenantRows(org[j]) \cup RoleRows(org[j])
             /\ next = "user" => tx'[j] = Bundle(org[j])
             /\ next = "commit" => tx'[j] = Bundle(org[j]) \cup UserRows(Username[j], org[j])
      BY <2>1, <2>3 DEF TxInv, TenantTx, UserTx, Bundle
    <2>6. next \in {"role", "postgres", "user", "commit"}
      BY <2>1
    <2>7. j \in TenantJobs => TenantTx(j)'
      BY <2>3, <2>5, <2>6 DEF TenantTx
    <2>8. j \in UserJobs => UserTx(j)'
      <3>1. j \in UserJobs => next = "commit" /\ tx'[j] = UserRows(Username[j], org[j])
        BY <2>1, <2>3, <2>4
      <3> QED BY <2>3, <3>1 DEF UserTx
    <2>9. /\ \A i \in TenantJobs \ {j} : TenantTx(i)'
          /\ \A i \in UserJobs \ {j} : UserTx(i)'
      BY <2>2 DEF TxInv, TenantTx, UserTx
    <2> QED BY <2>7, <2>8, <2>9 DEF TxInv
  <1>6. CASE Commits(j)
    BY <1>1, <1>6 DEF Commits, TxInv, TenantTx, UserTx
  <1> QED BY <1>2, <1>3, <1>4, <1>5, <1>6 DEF Shape

\* A step keeps keys unique: a statement that would not is refused or waits.
LEMMA KeysStep ==
  ASSUME JobsInv, KeysInv, NEW j \in Jobs, Shape(j)
  PROVE  KeysInv'
PROOF
  <1>1. DOMAIN tx = Jobs /\ tx = [i \in Jobs |-> tx[i]]
    BY DEF JobsInv, TypeOK
  <1>2. CASE db' = db /\ \A i \in Jobs : tx'[i] \subseteq tx[i]
    BY <1>2 DEF KeysInv, Distinct, Apart
  <1>3. CASE Writes(j)
    <2>1. PICK R : /\ db' = db
                   /\ ~Blocked(j, R) /\ ~Violates(j, R)
                   /\ tx' = [tx EXCEPT ![j] = tx[j] \cup R]
                   /\ \/ R = TenantRows(org[j]) \/ R = RoleRows(org[j])
                      \/ R = MachineRows(org[j]) \/ R = UserRows(Username[j], org[j])
      BY <1>3 DEF Writes
    <2>2. Distinct(R)
      BY <2>1, StatementKeys
    <2>3. Apart(R, db) /\ Apart(R, tx[j]) /\ \A i \in Jobs \ {j} : Apart(R, tx[i])
      BY <2>1 DEF Blocked, Violates, Visible, Apart
    <2>4. tx'[j] = tx[j] \cup R /\ \A i \in Jobs \ {j} : tx'[i] = tx[i]
      BY <1>1, <2>1
    <2>5. Distinct(tx'[j]) /\ Apart(db', tx'[j]) /\ Distinct(db')
      BY <2>1, <2>2, <2>3, <2>4 DEF KeysInv, Distinct, Apart, SameKey
    <2>6. \A i \in Jobs \ {j} : Apart(tx'[i], tx'[j]) /\ Apart(tx'[j], tx'[i])
      BY <2>3, <2>4 DEF KeysInv, Apart, SameKey
    <2> QED BY <2>1, <2>4, <2>5, <2>6 DEF KeysInv, Distinct, Apart
  <1>4. CASE Commits(j)
    <2>1. /\ db' = db \cup tx[j]
          /\ tx'[j] = {} /\ \A i \in Jobs \ {j} : tx'[i] = tx[i]
      BY <1>1, <1>4 DEF Commits
    <2>2. Distinct(db')
      BY <2>1 DEF KeysInv, Distinct, Apart, SameKey
    <2>3. \A i \in Jobs : Apart(db', tx'[i]) /\ Distinct(tx'[i])
      BY <2>1 DEF KeysInv, Apart, Distinct
    <2>4. \A i, k \in Jobs : i # k => Apart(tx'[i], tx'[k])
      BY <2>1 DEF KeysInv, Apart
    <2> QED BY <2>2, <2>3, <2>4 DEF KeysInv, Distinct, Apart
  <1>5. CASE Aborts(j) \/ Moves(j) \/ Creates(j)
    <2>1. db' = db /\ \A i \in Jobs : tx'[i] \subseteq tx[i]
      BY <1>1, <1>5 DEF Aborts, Moves, Creates
    <2> QED BY <1>2, <2>1
  <1> QED BY <1>3, <1>4, <1>5 DEF Shape

\* A commit adds a whole tenant with its first user, or a whole user of a
\* tenant that is there.
LEMMA CommitAdds ==
  ASSUME JobsInv, TxInv, TablesInv, NEW j \in Jobs, pc[j] = "commit"
  PROVE  /\ org[j] \in OrgIDs /\ org[j] <= created /\ Username[j] \in Usernames
         /\ UserRows(Username[j], org[j]) \subseteq tx[j]
         /\ tx[j] \subseteq Bundle(org[j]) \cup UserRows(Username[j], org[j])
         /\ j \in TenantJobs => Bundle(org[j]) \subseteq tx[j]
         /\ j \in UserJobs => tx[j] = UserRows(Username[j], org[j])
         /\ Bundle(org[j]) \subseteq db \cup tx[j]
PROOF
  <1> USE JobsAssumption DEF Jobs
  <1>1. Username[j] \in Usernames
    BY DEF Usernames
  <1>2. CASE j \in TenantJobs
    <2>1. /\ tx[j] = Bundle(org[j]) \cup UserRows(Username[j], org[j])
          /\ org[j] <= created /\ org[j] # NoOrg /\ org[j] \in OrgIDs \cup {NoOrg}
      BY <1>2 DEF TxInv, TenantTx, UserTx, JobsInv, JobInv, TypeOK
    <2> QED BY <1>1, <1>2, <2>1
  <1>3. CASE j \in UserJobs
    <2>1. tx[j] = UserRows(Username[j], org[j]) /\ Bundle(org[j]) \subseteq db
      BY <1>3 DEF TxInv, TenantTx, UserTx, TablesInv
    <2>2. org[j] \in OrgIDs
      BY <1>3 DEF JobsInv, JobInv
    <2>3. Row("tenants", org[j], org[j]) \in db
      BY <2>1 DEF Bundle, TenantRows
    <2>4. org[j] <= created
      BY <2>3, RowFields DEF TablesInv
    <2> QED BY <1>1, <1>3, <2>1, <2>2, <2>4
  <1> QED BY <1>2, <1>3

\* A step keeps every tenant, and every user, whole.
LEMMA TablesStep ==
  ASSUME JobsInv, TxInv, TablesInv, NEW j \in Jobs, Shape(j)
  PROVE  TablesInv'
PROOF
  <1> USE JobsAssumption DEF Ended, Jobs
  <1>1. DOMAIN pc = Jobs /\ pc = [i \in Jobs |-> pc[i]]
        /\ created \in Nat /\ db \subseteq RowType
    BY DEF JobsInv, TypeOK
  <1>2. \A r \in db : r.org \in OrgIDs /\ r.org \in Nat
    BY <1>1 DEF RowType, OrgIDs
  <1>3. CASE db' = db
    <2>1. created <= created' /\ created' \in Nat
      BY <1>1, <1>3 DEF Shape, Aborts, Moves, Creates, Writes, Commits
    <2>2. \A r \in db' : r.org <= created'
      BY <1>1, <1>2, <1>3, <2>1 DEF TablesInv
    <2>3. ASSUME NEW i \in UserJobs, pc'[i] = "commit"
          PROVE  Bundle(org'[i]) \subseteq db
      <3>1. org'[i] = org[i]
        BY <1>1 DEF Shape, Aborts, Moves, Creates, Writes, Commits, JobsInv, JobInv, TypeOK
      <3>2. CASE pc[i] = "commit"
        BY <3>1, <3>2 DEF TablesInv
      <3>3. CASE pc[i] # "commit"
        <4>1. /\ i = j /\ ~Violates(j, UserRows(Username[j], org[j])) /\ pc[j] = "user"
          BY <1>1, <2>3, <3>3 DEF Shape, Aborts, Moves, Creates, Writes, Commits
        <4>2. Row("accounts", Username[j], org[j]) \in UserRows(Username[j], org[j])
          BY DEF UserRows
        <4>3. Row("tenants", org[j], org[j]) \in db \cup tx[j] /\ tx[j] = {}
          BY <2>3, <4>1, <4>2, RowFields DEF Violates, Visible, TxInv, TenantTx, UserTx
        <4> QED BY <3>1, <4>1, <4>3, RowFields DEF TablesInv
      <3> QED BY <3>2, <3>3
    <2> QED BY <1>3, <2>2, <2>3 DEF TablesInv
  <1>4. CASE db' # db
    <2>1. /\ Commits(j) /\ pc[j] = "commit" /\ created' = created /\ org' = org
          /\ db' = db \cup tx[j] /\ \A i \in Jobs : pc'[i] = "commit" => pc[i] = "commit"
      BY <1>1, <1>4 DEF Shape, Aborts, Moves, Creates, Writes, Commits
    <2> DEFINE o == org[j]
               u == Username[j]
    <2>2. /\ o <= created /\ u \in Usernames
          /\ UserRows(u, o) \subseteq tx[j] /\ tx[j] \subseteq Bundle(o) \cup UserRows(u, o)
          /\ Bundle(o) \subseteq db \cup tx[j]
      BY <2>1, CommitAdds
    <2>3. \A r \in tx[j] : r.org = o
      BY <2>2, RowFields
    <2>4. \A r \in tx[j] :
             /\ r.org <= created' /\ Bundle(r.org) \subseteq db'
             /\ \/ r \in Bundle(r.org)
                \/ \E v \in Usernames : r \in UserRows(v, r.org) /\ UserRows(v, r.org) \subseteq db'
      BY <2>1, <2>2, <2>3
    <2>5. \A r \in db :
             /\ r.org <= created' /\ Bundle(r.org) \subseteq db'
             /\ \/ r \in Bundle(r.org)
                \/ \E v \in Usernames : r \in UserRows(v, r.org) /\ UserRows(v, r.org) \subseteq db'
      BY <2>1 DEF TablesInv
    <2>6. \A i \in UserJobs : pc'[i] = "commit" => Bundle(org'[i]) \subseteq db'
      BY <2>1 DEF TablesInv
    <2> QED BY <2>1, <2>4, <2>5, <2>6 DEF TablesInv
  <1> QED BY <1>3, <1>4

\* A job that is done has committed, and no step takes rows away.
LEMMA DoneStep ==
  ASSUME JobsInv, TxInv, TablesInv, DoneInv, NEW j \in Jobs, Shape(j)
  PROVE  DoneInv' /\ db \subseteq db'
PROOF
  <1>1. db \subseteq db' /\ \A i \in Jobs : pc[i] = "done" => org'[i] = org[i]
    BY DEF Shape, Aborts, Moves, Creates, Writes, Commits, JobsInv, TypeOK
  <1>2. CASE \A i \in Jobs : pc'[i] = "done" => pc[i] = "done"
    BY <1>1, <1>2 DEF DoneInv
  <1>3. CASE Commits(j)
    <2>1. /\ pc[j] = "commit" /\ db' = db \cup tx[j] /\ org' = org
          /\ \A i \in Jobs \ {j} : pc'[i] = pc[i]
      BY <1>3 DEF Commits, JobsInv, TypeOK
    <2>2. UserRows(Username[j], org[j]) \subseteq db' /\ Bundle(org[j]) \subseteq db'
      BY <2>1, CommitAdds
    <2> QED BY <1>1, <2>1, <2>2 DEF DoneInv
  <1>4. CASE ~Commits(j)
    <2>1. \A i \in Jobs : pc'[i] = "done" => pc[i] = "done"
      BY <1>4 DEF Shape, Aborts, Moves, Creates, Writes, JobsInv, TypeOK
    <2> QED BY <1>2, <2>1
  <1> QED BY <1>3, <1>4

-----------------------------------------------------------------------------
(* Grafana *)

\* A job that has not failed finds in Grafana what it has made there.
GrafanaInv ==
    \A j \in TenantJobs :
        /\ pc[j] \notin {"org", "failed", "crashed"} => org[j] \in OrgsInGrafana
        /\ pc[j] \in {"mqtt", "account", "user", "commit", "done"} =>
              <<org[j], "postgres">> \in sources
        /\ pc[j] \in {"account", "user", "commit", "done"} => <<org[j], "mqtt">> \in sources

\* A data source belongs to the organisation of some job, and where that job
\* has ended without success, a request has failed or the process died.
SourceInv ==
    \A s \in sources : \E j \in TenantJobs :
        org[j] = s[1] /\ (pc[j] \in {"failed", "crashed"} => faults > 0)

\* What a step does in Grafana: nothing, or one of the requests.
LEMMA GrafanaShapes ==
  ASSUME JobsInv, NEW j \in Jobs, Step(j) \/ Fails(j) \/ Crash(j)
  PROVE  \/ UNCHANGED <<orgs, sources, created>>
         \/ CreateOrg(j) /\ pc'[j] = "begin"
         \/ CreateOrgFails(j)
         \/ AddPostgres(j) \/ AddMQTT(j) \/ AddSourceFails(j) \/ DeleteOrg(j)
  BY DEF Step, Fails, CreateOrg, CreateOrgFails, Begin, BeginFails, InsertTenant, CreateRole,
         InsertAccount, InsertUser, Exec, ExecFails, Commit, CommitFails, Rollback,
         DeleteOrgFails, Crash, GoTo, grafanaVars, JobsInv, TypeOK

\* A job's requests, and its compensation, are about its own organisation.
LEMMA GrafanaStep ==
  ASSUME JobsInv, GrafanaInv, NEW j \in Jobs, Step(j) \/ Fails(j) \/ Crash(j)
  PROVE  GrafanaInv'
PROOF
  <1> USE JobsAssumption DEF Jobs, Ended
  <1>1. /\ DOMAIN pc = Jobs /\ pc = [i \in Jobs |-> pc[i]]
        /\ DOMAIN org = Jobs /\ org = [i \in Jobs |-> org[i]]
    BY DEF JobsInv, TypeOK
  <1>2. Shape(j)
    BY Shapes DEF JobsInv
  <1>3. CASE UNCHANGED <<orgs, sources, created>>
    <2>1. org' = org /\ ~Creates(j)
      BY <1>2, <1>3 DEF Shape, Aborts, Moves, Creates, Writes, Commits, JobsInv, TypeOK
    <2>2. \A i \in TenantJobs \ {j} : pc'[i] = pc[i]
      BY <1>1, <1>2 DEF Shape, Aborts, Moves, Creates, Writes, Commits
    <2>3. CASE <<pc[j], pc'[j]>> \notin {<<"postgres", "mqtt">>, <<"mqtt", "account">>}
      <3>1. /\ pc'[j] \notin {"org", "failed", "crashed"} => pc[j] \notin {"org", "failed", "crashed"}
            /\ pc'[j] = "mqtt" => pc[j] = "mqtt"
            /\ pc'[j] = "account" => pc[j] = "account"
            /\ pc'[j] = "user" => pc[j] \in {"account", "user"} \/ j \in UserJobs
            /\ pc'[j] = "commit" => pc[j] \in {"user", "commit"}
            /\ pc'[j] = "done" => pc[j] \in {"commit", "done"}
        BY <1>1, <1>2, <2>1, <2>3 DEF Shape, Aborts, Moves, Writes, Commits
      <3> QED BY <1>3, <2>1, <2>2, <3>1 DEF GrafanaInv, OrgsInGrafana
    <2>4. CASE <<pc[j], pc'[j]>> \in {<<"postgres", "mqtt">>, <<"mqtt", "account">>}
      <3>1. <<org[j], pc[j]>> \in sources'
        BY <1>1, <2>4 DEF Step, Fails, CreateOrg, CreateOrgFails, Begin, BeginFails, InsertTenant,
             CreateRole, AddPostgres, AddMQTT, AddSource, AddSourceFails, InsertAccount, InsertUser,
             Exec, ExecFails, Commit, CommitFails, Rollback, DeleteOrg, DeleteOrgFails, Crash, GoTo,
             Abort
      <3> QED BY <1>3, <2>1, <2>2, <2>4, <3>1 DEF GrafanaInv, OrgsInGrafana
    <2> QED BY <2>3, <2>4
  <1>4. CASE CreateOrg(j) /\ pc'[j] = "begin"
    <2>1. /\ orgs' = orgs \cup {[id |-> created + 1, name |-> OrgName[j]]} /\ sources' = sources
          /\ org' = [org EXCEPT ![j] = created + 1] /\ pc' = [pc EXCEPT ![j] = "begin"]
      BY <1>1, <1>4 DEF CreateOrg, NewOrg, GoTo
    <2>2. OrgsInGrafana \cup {created + 1} \subseteq OrgsInGrafana'
      <3>1. PICK new : new = [id |-> created + 1, name |-> OrgName[j]]
        OBVIOUS
      <3>2. orgs \subseteq orgs' /\ new \in orgs' /\ new.id = created + 1
        BY <2>1, <3>1
      <3> QED BY <3>2 DEF OrgsInGrafana
    <2> QED BY <1>1, <2>1, <2>2 DEF GrafanaInv
  <1>5. CASE CreateOrgFails(j)
    BY <1>1, <1>5 DEF CreateOrgFails, NewOrg, GoTo, GrafanaInv, OrgsInGrafana, JobsInv, JobInv
  <1>6. CASE AddPostgres(j)
    BY <1>1, <1>6 DEF AddPostgres, AddSource, GoTo, GrafanaInv, OrgsInGrafana
  <1>7. CASE AddMQTT(j)
    BY <1>1, <1>7 DEF AddMQTT, AddSource, GoTo, GrafanaInv, OrgsInGrafana
  <1>8. CASE AddSourceFails(j)
    BY <1>1, <1>8 DEF AddSourceFails, AddSource, GoTo, GrafanaInv, OrgsInGrafana, grafanaVars
  <1>9. CASE DeleteOrg(j)
    <2>1. j \in TenantJobs /\ org[j] # NoOrg /\ pc'[j] = "failed"
      BY <1>1, <1>9 DEF DeleteOrg, GoTo, JobsInv, JobInv
    <2>2. \A i \in TenantJobs \ {j} : org[i] # org[j] /\ org'[i] = org[i] /\ pc'[i] = pc[i]
      BY <1>1, <1>9, <2>1 DEF DeleteOrg, GoTo, JobsInv, JobInv
    <2>3. /\ \A o \in OrgsInGrafana : o # org[j] => o \in OrgsInGrafana'
          /\ \A s \in sources : s[1] # org[j] => s \in sources'
      BY <1>9 DEF DeleteOrg, OrgsInGrafana
    <2> QED BY <2>1, <2>2, <2>3 DEF GrafanaInv
  <1> QED BY <1>3, <1>4, <1>5, <1>6, <1>7, <1>8, <1>9, GrafanaShapes

\* A data source outlives the job that made it only if a fault has cost it.
LEMMA SourceStep ==
  ASSUME JobsInv, SourceInv, NEW j \in Jobs, Step(j) \/ Fails(j) \/ Crash(j)
  PROVE  SourceInv'
PROOF
  <1> USE JobsAssumption DEF Jobs, Ended
  <1>1. /\ DOMAIN pc = Jobs /\ pc = [i \in Jobs |-> pc[i]]
        /\ DOMAIN org = Jobs /\ org = [i \in Jobs |-> org[i]]
        /\ faults \in Nat /\ sources \subseteq OrgIDs \X {"postgres", "mqtt"}
    BY DEF JobsInv, TypeOK
  <1>2. Shape(j)
    BY Shapes DEF JobsInv
  <1>3. /\ \A i \in TenantJobs : org[i] # NoOrg => org'[i] = org[i]
        /\ \A i \in TenantJobs \ {j} : pc'[i] = pc[i]
    BY <1>1, <1>2 DEF Shape, Aborts, Moves, Creates, Writes, Commits, JobsInv, JobInv
  <1>4. /\ faults' \in Nat /\ faults' >= faults
        /\ \/ faults' > 0 \/ pc'[j] \notin {"failed", "crashed"}
           \/ pc[j] = "org" \/ DeleteOrg(j) \/ j \in UserJobs
    <2>1. Fault \/ faults' = faults
      BY DEF Step, Fails, CreateOrg, CreateOrgFails, Begin, BeginFails, InsertTenant, CreateRole,
             AddPostgres, AddMQTT, AddSourceFails, InsertAccount, InsertUser, Exec, ExecFails,
             Commit, CommitFails, Rollback, DeleteOrg, DeleteOrgFails, Crash
    <2>2. \/ Fault \/ pc'[j] \notin {"failed", "crashed"}
          \/ pc[j] = "org" \/ DeleteOrg(j) \/ j \in UserJobs
      BY <1>1 DEF Step, Fails, CreateOrg, CreateOrgFails, Begin, BeginFails, InsertTenant,
             CreateRole, AddPostgres, AddMQTT, AddSourceFails, InsertAccount, InsertUser, Exec,
             ExecFails, Commit, CommitFails, Rollback, DeleteOrgFails, Crash, GoTo, Abort
    <2>3. Fault => faults' \in Nat /\ faults' > faults /\ faults' > 0
      BY <1>1 DEF Fault
    <2> QED BY <1>1, <2>1, <2>2, <2>3
  <1>5. \A s \in sources' : s \in sources \/ (j \in TenantJobs /\ s[1] = org[j] /\ org'[j] = org[j]
                                               /\ pc'[j] \notin {"failed", "crashed"})
    BY <1>1 DEF Step, Fails, CreateOrg, CreateOrgFails, Begin, BeginFails, InsertTenant,
         CreateRole, AddPostgres, AddMQTT, AddSource, AddSourceFails, InsertAccount, InsertUser,
         Exec, ExecFails, Commit, CommitFails, Rollback, DeleteOrg, DeleteOrgFails, Crash, GoTo,
         grafanaVars, JobsInv, JobInv
  <1>6. ASSUME NEW s \in sources', s \in sources
        PROVE  \E i \in TenantJobs :
                  org'[i] = s[1] /\ (pc'[i] \in {"failed", "crashed"} => faults' > 0)
    <2>1. PICK i \in TenantJobs : org[i] = s[1] /\ (pc[i] \in {"failed", "crashed"} => faults > 0)
      BY <1>6 DEF SourceInv
    <2>2. org[i] # NoOrg /\ org'[i] = org[i]
      BY <1>1, <1>3, <1>6, <2>1 DEF OrgIDs, NoOrg
    <2>3. CASE i # j
      BY <1>1, <1>3, <1>4, <2>1, <2>2, <2>3
    <2>4. CASE i = j
      <3>1. ~DeleteOrg(j)
        BY <1>6, <2>1, <2>4 DEF DeleteOrg
      <3>2. pc[j] # "org"
        BY <2>2, <2>4 DEF JobsInv, JobInv
      <3> QED BY <1>4, <2>1, <2>2, <2>4, <3>1, <3>2
    <2> QED BY <2>3, <2>4
  <1> QED BY <1>5, <1>6 DEF SourceInv

-----------------------------------------------------------------------------
(* Organisations and tenants *)

\* The tenants are the organisations with a row in auth.tenants.
LEMMA TenantsAre ==
  TypeOK /\ TablesInv =>
      \A o : o \in Tenants <=> o \in OrgIDs /\ Row("tenants", o, o) \in db
PROOF
  <1> SUFFICES ASSUME TypeOK, TablesInv, NEW o
               PROVE  o \in Tenants <=> o \in OrgIDs /\ Row("tenants", o, o) \in db
    OBVIOUS
  <1>1. ASSUME o \in Tenants PROVE o \in OrgIDs /\ Row("tenants", o, o) \in db
    <2>1. PICK r \in db : r.table = "tenants" /\ r.key = o
      BY <1>1 DEF Tenants
    <2>2. r.org \in OrgIDs /\ r \in Bundle(r.org) /\ Bundle(r.org) \subseteq db
      BY <2>1, RowFields DEF TypeOK, RowType, TablesInv
    <2>3. r.org = o /\ Row("tenants", o, o) \in Bundle(o)
      BY <2>1, <2>2, RowFields DEF Bundle, TenantRows
    <2> QED BY <2>2, <2>3
  <1>2. ASSUME Row("tenants", o, o) \in db PROVE o \in Tenants
    BY <1>2, RowFields DEF Tenants
  <1> QED BY <1>1, <1>2

\* The same of the state after a step.
LEMMA TenantsAreNext ==
  (TypeOK /\ TablesInv)' =>
      (\A o : o \in Tenants <=> o \in OrgIDs /\ Row("tenants", o, o) \in db)'
  BY TenantsAre, PTL

\* The inductive invariant, but for the debt.
ProvInv == JobsInv /\ TxnInv /\ GrafanaInv /\ SourceInv

\* A step of a job keeps the invariant.
LEMMA ProvStep ==
  ASSUME ProvInv, NEW j \in Jobs, Step(j) \/ Fails(j) \/ Crash(j)
  PROVE  ProvInv'
PROOF
  <1>1. Shape(j)
    BY Shapes DEF ProvInv, JobsInv
  <1>2. JobsInv'
    BY <1>1, JobsStep, TypeStep DEF ProvInv, JobsInv
  <1>3. TxnInv'
    BY <1>1, TxStep, KeysStep, TablesStep, DoneStep DEF ProvInv, TxnInv
  <1>4. GrafanaInv' /\ SourceInv'
    BY GrafanaStep, SourceStep DEF ProvInv
  <1> QED BY <1>2, <1>3, <1>4 DEF ProvInv

\* Nobody has done anything yet.
LEMMA ProvInit == Init => ProvInv
PROOF
  <1> SUFFICES ASSUME Init PROVE ProvInv
    OBVIOUS
  <1> USE JobsAssumption DEF Init, Jobs, NoOrg, Ended
  <1>1. TypeOK
    BY FS_CardinalityType DEF TypeOK, OrgIDs
  <1>2. CountInv
    <2>1. Asked \subseteq TenantJobs
      BY DEF Asked
    <2> QED BY <2>1, FS_Subset, FS_CardinalityType DEF CountInv
  <1>3. JobInv
    BY DEF JobInv
  <1>4. TxnInv
    BY DEF TxnInv, TxInv, TenantTx, UserTx, KeysInv, TablesInv, DoneInv, Distinct, Apart
  <1>5. GrafanaInv /\ SourceInv
    BY DEF GrafanaInv, SourceInv
  <1> QED BY <1>1, <1>2, <1>3, <1>4, <1>5 DEF ProvInv, JobsInv

\* The invariant speaks of the state alone.
LEMMA ProvStutter == ProvInv /\ UNCHANGED vars => ProvInv'
PROOF
  <1> SUFFICES ASSUME ProvInv, UNCHANGED vars PROVE ProvInv'
    OBVIOUS
  <1>1. UNCHANGED <<orgs, created, sources, db, tx, pc, org, faults>>
    BY DEF vars, grafanaVars
  <1>2. JobsInv'
    BY <1>1 DEF ProvInv, JobsInv, TypeOK, CountInv, Asked, JobInv
  <1>3. TxnInv'
    BY <1>1 DEF ProvInv, TxnInv, TxInv, TenantTx, UserTx, KeysInv, TablesInv, DoneInv
  <1>4. GrafanaInv' /\ SourceInv'
    BY <1>1 DEF ProvInv, GrafanaInv, SourceInv, OrgsInGrafana
  <1> QED BY <1>2, <1>3, <1>4 DEF ProvInv

\* The invariant holds in every state.
LEMMA ProvInvariant == Spec => []ProvInv
PROOF
  <1>1. ProvInv /\ [Next]_vars => ProvInv'
    BY ProvStep, ProvStutter DEF Next
  <1> QED BY <1>1, ProvInit, PTL DEF Spec

\* The types: in particular Grafana never runs out of the numbers of
\* organisations.
THEOREM ProvisioningTypes == Spec => []TypeOK
PROOF
  <1>1. ProvInv => TypeOK
    BY DEF ProvInv, JobsInv
  <1> QED BY <1>1, ProvInvariant, PTL

\* ReportedIsComplete: what the CLI reports as created is there in both
\* systems, and no other job takes a part of it away.
THEOREM WhatIsReportedIsComplete == Spec => []ReportedIsComplete
PROOF
  <1>1. ProvInv => ReportedIsComplete
    BY DEF ProvInv, TxnInv, DoneInv, GrafanaInv, ReportedIsComplete, Bundle
  <1> QED BY <1>1, ProvInvariant, PTL

\* SourcesCanLogIn: a data source can log in, or its organisation is being
\* worked on, or is what a fault has left over.
THEOREM DataSourcesCanLogIn == Spec => []SourcesCanLogIn
PROOF
  <1>1. ASSUME ProvInv PROVE SourcesCanLogIn
    <2> SUFFICES ASSUME NEW s \in sources, s[1] \notin InProgress
                 PROVE  \/ RoleRows(s[1]) \cup MachineRows(s[1]) \subseteq db
                        \/ s[1] \notin Tenants /\ faults > 0
      BY DEF SourcesCanLogIn
    <2>1. PICK j \in TenantJobs : org[j] = s[1] /\ (pc[j] \in {"failed", "crashed"} => faults > 0)
      BY <1>1 DEF ProvInv, SourceInv
    <2>2. CASE pc[j] = "done"
      BY <1>1, <2>1, <2>2 DEF ProvInv, TxnInv, DoneInv, Bundle, Jobs
    <2>3. CASE pc[j] # "done"
      <3>1. faults > 0
        BY <2>1, <2>3 DEF InProgress, Ended
      <3>2. ASSUME s[1] \in Tenants PROVE Bundle(s[1]) \subseteq db
        <4>1. Row("tenants", s[1], s[1]) \in db
          BY <1>1, <3>2, TenantsAre DEF ProvInv, JobsInv, TxnInv
        <4> QED BY <1>1, <4>1, RowFields DEF ProvInv, TxnInv, TablesInv
      <3> QED BY <3>1, <3>2 DEF Bundle
    <2> QED BY <2>2, <2>3
  <1> QED BY <1>1, ProvInvariant, PTL

-----------------------------------------------------------------------------
(* The registry *)

Members == {<<r.key, r.org>> : r \in {q \in db : q.table = "users"}}

\* A user that is about to be committed has a name that nobody has.
LEMMA NameIsFree ==
  ASSUME ProvInv, NEW j \in Jobs, pc[j] = "commit"
  PROVE  \A m \in Members : m[1] # Username[j]
PROOF
  <1> SUFFICES ASSUME NEW r \in db, r.table = "users", r.key = Username[j]
               PROVE  FALSE
    BY DEF Members
  <1>1. PICK v \in Usernames : r \in UserRows(v, r.org) /\ UserRows(v, r.org) \subseteq db
    <2>1. r \notin Bundle(r.org)
      BY RowFields
    <2> QED BY <2>1 DEF ProvInv, TxnInv, TablesInv
  <1>2. Row("accounts", Username[j], r.org) \in db
    BY <1>1, RowFields DEF UserRows
  <1>3. Row("accounts", Username[j], org[j]) \in tx[j]
    <2>1. UserRows(Username[j], org[j]) \subseteq tx[j]
      BY CommitAdds DEF ProvInv, TxnInv
    <2> QED BY <2>1 DEF UserRows
  <1>4. SameKey(Row("accounts", Username[j], r.org), Row("accounts", Username[j], org[j]))
    BY RowFields DEF SameKey, UniqueTables
  <1> QED BY <1>2, <1>3, <1>4 DEF ProvInv, TxnInv, KeysInv, Apart

\* A commit registers a tenant with its first user, or lets a user join.
LEMMA CommitRegisters ==
  ASSUME ProvInv, NEW j \in Jobs, Commits(j)
  PROVE  Registry!Next
PROOF
  <1> DEFINE o == org[j]
             u == Username[j]
  <1>1. pc[j] = "commit" /\ db' = db \cup tx[j]
    BY DEF Commits
  <1>2. /\ o \in OrgIDs /\ u \in Usernames
        /\ UserRows(u, o) \subseteq tx[j]
        /\ tx[j] \subseteq Bundle(o) \cup UserRows(u, o)
        /\ j \in TenantJobs => Bundle(o) \subseteq tx[j]
        /\ j \in UserJobs => tx[j] = UserRows(u, o)
        /\ Bundle(o) \subseteq db \cup tx[j]
    BY <1>1, CommitAdds DEF ProvInv, TxnInv
  <1>3. Members' = Members \cup {<<u, o>>}
    <2>1. Row("users", u, o) \in tx[j]
      BY <1>2 DEF UserRows
    <2>2. \A r \in tx[j] : r.table = "users" => r.key = u /\ r.org = o
      BY <1>2, RowFields
    <2>3. Members \subseteq Members'
      BY <1>1 DEF Members
    <2>4. <<u, o>> \in Members'
      BY <1>1, <2>1, RowFields DEF Members
    <2>5. Members' \subseteq Members \cup {<<u, o>>}
      BY <1>1, <2>2 DEF Members
    <2> QED BY <2>3, <2>4, <2>5
  <1>4. \A m \in Members : m[1] # u
    BY <1>1, NameIsFree
  <1>5. CASE j \in TenantJobs
    <2>1. Row("tenants", o, o) \in tx[j]
      BY <1>2, <1>5 DEF Bundle, TenantRows
    <2>2. Tenants' = Tenants \cup {o}
      <3>1. \A r \in tx[j] : r.table = "tenants" => r.key = o
        BY <1>2, RowFields
      <3> QED BY <1>1, <2>1, <3>1, RowFields DEF Tenants
    <2>3. o \notin Tenants
      <3> SUFFICES ASSUME Row("tenants", o, o) \in db PROVE FALSE
        BY TenantsAre DEF ProvInv, JobsInv, TxnInv
      <3>1. SameKey(Row("tenants", o, o), Row("tenants", o, o))
        BY RowFields DEF SameKey, UniqueTables
      <3> QED BY <2>1, <3>1 DEF ProvInv, TxnInv, KeysInv, Apart
    <2>4. Registry!Register(o, u)
      BY <1>3, <1>4, <2>2, <2>3 DEF Registry!Register, Registry!Free, Members
    <2> QED BY <1>2, <2>4 DEF Registry!Next
  <1>6. CASE j \in UserJobs
    <2>1. o \in Tenants
      <3>1. Row("tenants", o, o) \in db
        BY <1>1, <1>6 DEF ProvInv, TxnInv, TablesInv, Bundle, TenantRows
      <3> QED BY <1>2, <3>1, TenantsAre DEF ProvInv, JobsInv, TxnInv
    <2>2. Tenants' = Tenants
      <3>1. \A r \in tx[j] : r.table # "tenants"
        BY <1>2, <1>6, RowFields
      <3> QED BY <1>1, <3>1 DEF Tenants
    <2>3. Registry!Join(o, u)
      BY <1>3, <1>4, <2>1, <2>2 DEF Registry!Join, Registry!Free, Members
    <2> QED BY <1>2, <2>3 DEF Registry!Next
  <1> QED BY <1>5, <1>6 DEF Jobs

\* ImplementsRegistry: readers of the tables see tenants appear whole, with
\* their first users, and see users join; they never see anything else.
THEOREM ProvisioningImplementsRegistry == Spec => ImplementsRegistry
PROOF
  <1>1. Init => Registry!Init
    BY DEF Init, Registry!Init, Tenants
  <1>2. ASSUME ProvInv, [Next]_vars
        PROVE  [Registry!Next]_(Registry!vars)
    <2>1. ASSUME db' = db PROVE UNCHANGED Registry!vars
      BY <2>1 DEF Registry!vars, Tenants
    <2>2. ASSUME NEW j \in Jobs, Step(j) \/ Fails(j) \/ Crash(j)
          PROVE  Commits(j) \/ db' = db
      <3>1. Shape(j)
        BY <1>2, <2>2, Shapes DEF ProvInv, JobsInv
      <3> QED BY <3>1 DEF Shape, Aborts, Moves, Creates, Writes
    <2>3. CASE Next
      BY <1>2, <2>1, <2>2, <2>3, CommitRegisters DEF Next
    <2>4. CASE UNCHANGED vars
      BY <2>1, <2>4 DEF vars
    <2> QED BY <1>2, <2>3, <2>4
  <1> QED BY <1>1, <1>2, ProvInvariant, PTL DEF Spec, ImplementsRegistry, Registry!Spec

-----------------------------------------------------------------------------
(* What a fault can cost *)

\* Organisations that the two systems disagree about, and those a job is still
\* working on although their tenant is there: it will delete them.
Debt ==
    {o \in OrgIDs : IF o \in InProgress THEN o \in Tenants
                    ELSE ~(o \in OrgsInGrafana <=> o \in Tenants)}

DebtInv == Cardinality(Debt) <= faults

\* The organisation a step of a job is about.
Subject(j) == IF pc[j] = "org" THEN created + 1 ELSE org[j]

\* A step changes nothing of what the two systems have of any other.
LEMMA OthersStay ==
  ASSUME ProvInv, NEW j \in Jobs, Step(j) \/ Fails(j) \/ Crash(j),
         NEW o \in OrgIDs, o # Subject(j)
  PROVE  /\ o \in OrgsInGrafana' <=> o \in OrgsInGrafana
         /\ o \in Tenants' <=> o \in Tenants
         /\ o \in InProgress' <=> o \in InProgress
PROOF
  <1> USE JobsAssumption DEF Jobs
  <1>1. Shape(j)
    BY Shapes DEF ProvInv, JobsInv
  <1>2. o \in OrgsInGrafana' <=> o \in OrgsInGrafana
    <2>1. CASE UNCHANGED orgs
      BY <2>1 DEF OrgsInGrafana
    <2>2. CASE NewOrg(j) /\ pc[j] = "org"
      BY <2>2 DEF NewOrg, OrgsInGrafana, Subject
    <2>3. CASE DeleteOrg(j)
      BY <2>3 DEF DeleteOrg, OrgsInGrafana, Subject
    <2>4. UNCHANGED orgs \/ (NewOrg(j) /\ pc[j] = "org") \/ DeleteOrg(j)
      BY DEF Step, Fails, CreateOrg, CreateOrgFails, Begin, BeginFails, InsertTenant, CreateRole,
             AddPostgres, AddMQTT, AddSource, AddSourceFails, InsertAccount, InsertUser, Exec,
             ExecFails, Commit, CommitFails, Rollback, DeleteOrgFails, Crash, grafanaVars
    <2> QED BY <2>1, <2>2, <2>3, <2>4
  <1>3. o \in Tenants' <=> o \in Tenants
    <2>1. CASE db' = db
      BY <2>1 DEF Tenants
    <2>2. CASE Commits(j)
      <3>1. pc[j] = "commit" /\ db' = db \cup tx[j]
        BY <2>2 DEF Commits
      <3>2. \A r \in tx[j] : r.table = "tenants" => r.key = org[j]
        BY <3>1, CommitAdds, RowFields DEF ProvInv, TxnInv
      <3> QED BY <3>1, <3>2 DEF Tenants, Subject
    <2> QED BY <1>1, <2>1, <2>2 DEF Shape, Aborts, Moves, Creates, Writes
  <1>4. o \in InProgress' <=> o \in InProgress
    <2>1. /\ \A i \in TenantJobs \ {j} : pc'[i] = pc[i] /\ org'[i] = org[i]
          /\ pc[j] = "org" \/ org'[j] = org[j]
          /\ org'[j] \in {org[j], created + 1}
      BY <1>1 DEF Shape, Aborts, Moves, Creates, Writes, Commits, ProvInv, JobsInv, TypeOK
    <2>2. j \in TenantJobs => o # org[j] /\ o # org'[j]
      <3>1. pc[j] = "org" => j \in UserJobs \/ org[j] = NoOrg
        BY DEF ProvInv, JobsInv, JobInv
      <3> QED BY <2>1, <3>1 DEF Subject, OrgIDs, NoOrg
    <2> QED BY <2>1, <2>2 DEF InProgress
  <1> QED BY <1>2, <1>3, <1>4

\* Without a fault, a step leaves no disagreement about its organisation.
LEMMA NoNewDebt ==
  ASSUME ProvInv, NEW j \in Jobs, Step(j), Subject(j) \in Debt'
  PROVE  Subject(j) \in Debt
PROOF
  <1> DEFINE x == Subject(j)
  <1> USE JobsAssumption DEF Jobs, Ended
  <1> HIDE DEF x
  <1>1. ProvInv'
    BY ProvStep
  <1>2. Shape(j)
    BY Shapes DEF ProvInv, JobsInv
  <1>3. x \in OrgIDs
    BY DEF x, Debt
  <1>4. CASE j \in UserJobs
    <2>1. UNCHANGED orgs /\ UNCHANGED org /\ \A i \in TenantJobs : pc'[i] = pc[i]
      BY <1>4 DEF Step, CreateOrg, Begin, InsertTenant, CreateRole, AddPostgres, AddMQTT,
                  InsertAccount, InsertUser, Exec, Abort, GoTo, Commit, Rollback, DeleteOrg,
                  grafanaVars, ProvInv, JobsInv, JobInv, TypeOK
    <2>2. Tenants' = Tenants
      <3>1. CASE Commits(j)
        <4>1. \A r \in tx[j] : r.table # "tenants"
          BY <1>4, <3>1, CommitAdds, RowFields DEF Commits, ProvInv, TxnInv
        <4> QED BY <3>1, <4>1 DEF Commits, Tenants
      <3>2. CASE db' = db
        BY <3>2 DEF Tenants
      <3> QED BY <1>2, <3>1, <3>2 DEF Shape, Aborts, Moves, Creates, Writes
    <2> QED BY <2>1, <2>2 DEF Debt, InProgress, OrgsInGrafana
  <1>5. CASE j \in TenantJobs /\ CreateOrg(j) /\ pc'[j] = "begin"
    <2>1. x = created + 1 /\ org'[j] = x /\ db' = db
      BY <1>5 DEF CreateOrg, GoTo, x, Subject, ProvInv, JobsInv, TypeOK
    <2>2. x \in InProgress'
      BY <1>5, <2>1 DEF InProgress
    <2>3. Row("tenants", x, x) \in db
      <3>1. x \in Tenants'
        BY <2>2 DEF x, Debt
      <3>2. Tenants' = Tenants
        BY <2>1 DEF Tenants
      <3> QED BY <3>1, <3>2, TenantsAre DEF ProvInv, JobsInv, TxnInv
    <2>4. x <= created
      BY <2>3, RowFields DEF ProvInv, TxnInv, TablesInv
    <2> QED BY <2>1, <2>4 DEF ProvInv, JobsInv, TypeOK
  <1>6. CASE j \in TenantJobs /\ DeleteOrg(j)
    <2>1. x = org[j] /\ pc'[j] = "failed" /\ db' = db /\ org' = org
          /\ \A i \in TenantJobs \ {j} : pc'[i] = pc[i]
      BY <1>6 DEF DeleteOrg, GoTo, x, Subject, ProvInv, JobsInv, TypeOK
    <2>2. x \notin OrgsInGrafana' /\ Tenants' = Tenants
      BY <1>6, <2>1 DEF DeleteOrg, OrgsInGrafana, Tenants
    <2>3. x \in InProgress
      BY <1>6, <2>1 DEF DeleteOrg, InProgress
    <2>4. x \notin InProgress'
      BY <1>3, <1>6, <2>1 DEF InProgress, ProvInv, JobsInv, JobInv, OrgIDs, NoOrg
    <2>5. x \in Tenants
      BY <2>2, <2>4 DEF x, Debt
    <2> QED BY <1>3, <2>3, <2>5 DEF x, Debt
  <1>7. CASE j \in TenantJobs /\ Commit(j)
    <2>1. x = org[j] /\ pc[j] = "commit" /\ org' = org /\ orgs' = orgs /\ pc'[j] = "done"
          /\ db' = db \cup tx[j] /\ \A i \in TenantJobs \ {j} : pc'[i] = pc[i]
      BY <1>7 DEF Commit, GoTo, x, Subject, ProvInv, JobsInv, TypeOK, grafanaVars
    <2>2. x \in OrgsInGrafana'
      BY <1>7, <2>1 DEF ProvInv, GrafanaInv, OrgsInGrafana
    <2>3. x \in Tenants'
      <3>1. Row("tenants", x, x) \in tx[j]
        BY <1>7, <2>1, CommitAdds DEF ProvInv, TxnInv, Bundle, TenantRows
      <3> QED BY <2>1, <3>1, RowFields DEF Tenants
    <2>4. x \notin InProgress'
      BY <1>3, <1>7, <2>1 DEF InProgress, ProvInv, JobsInv, JobInv, OrgIDs, NoOrg
    <2> QED BY <2>2, <2>3, <2>4 DEF x, Debt
  <1>8. CASE /\ j \in TenantJobs /\ ~Commit(j) /\ ~DeleteOrg(j)
             /\ ~(CreateOrg(j) /\ pc'[j] = "begin")
    <2>1. UNCHANGED orgs /\ UNCHANGED org /\ UNCHANGED db
      BY <1>8 DEF Step, CreateOrg, Begin, InsertTenant, CreateRole, AddPostgres, AddMQTT, AddSource,
                  InsertAccount, InsertUser, Exec, Rollback, GoTo, grafanaVars, ProvInv, JobsInv,
                  TypeOK
    <2>2. /\ \A i \in TenantJobs \ {j} : pc'[i] = pc[i]
          /\ pc[j] \notin Ended
          /\ pc'[j] \notin Ended \/ org[j] = NoOrg
      BY <1>8 DEF Step, CreateOrg, Begin, InsertTenant, CreateRole, AddPostgres, AddMQTT,
                  InsertAccount, InsertUser, Exec, Abort, Rollback, GoTo, ProvInv, JobsInv,
                  JobInv, TypeOK
    <2>3. x \in InProgress' <=> x \in InProgress
      BY <1>3, <2>1, <2>2 DEF InProgress, OrgIDs, NoOrg
    <2>4. OrgsInGrafana' = OrgsInGrafana /\ Tenants' = Tenants
      BY <2>1 DEF OrgsInGrafana, Tenants
    <2> QED BY <2>3, <2>4 DEF x, Debt
  <1> QED BY <1>4, <1>5, <1>6, <1>7, <1>8 DEF Debt, x

\* A fault can cost one organisation; whatever else happens costs none.
LEMMA DebtStep ==
  ASSUME ProvInv, DebtInv, NEW j \in Jobs, Step(j) \/ Fails(j) \/ Crash(j)
  PROVE  DebtInv'
PROOF
  <1> DEFINE x == Subject(j)
  <1>1. Debt \subseteq OrgIDs /\ IsFiniteSet(OrgIDs)
    BY JobsAssumption, FS_CardinalityType, FS_Interval DEF Debt, OrgIDs
  <1>2. IsFiniteSet(Debt) /\ Cardinality(Debt) \in Nat /\ faults \in Nat
    <2>1. IsFiniteSet(Debt)
      BY <1>1, FS_Subset
    <2>2. faults \in Nat
      BY JobsAssumption DEF ProvInv, JobsInv, TypeOK
    <2> QED BY <2>1, <2>2, FS_CardinalityType
  <1>3. Debt' \subseteq Debt \cup {x}
    <2> SUFFICES ASSUME NEW o \in OrgIDs, o \in Debt', o # x PROVE o \in Debt
      BY DEF Debt
    <2>1. /\ o \in OrgsInGrafana' <=> o \in OrgsInGrafana
          /\ o \in Tenants' <=> o \in Tenants
          /\ o \in InProgress' <=> o \in InProgress
      BY OthersStay
    <2> QED BY <2>1 DEF Debt
  <1>4. IsFiniteSet(Debt \cup {x}) /\ Cardinality(Debt \cup {x}) <= Cardinality(Debt) + 1
    <2>1. /\ IsFiniteSet(Debt \cup {x})
          /\ Cardinality(Debt \cup {x}) = IF x \in Debt THEN Cardinality(Debt) ELSE Cardinality(Debt) + 1
      BY <1>2, FS_AddElement
    <2> QED BY <1>2, <2>1
  <1>5. CASE Step(j)
    <2>1. Debt' \subseteq Debt
      BY <1>3, <1>5, NoNewDebt
    <2>2. Cardinality(Debt') <= Cardinality(Debt) /\ Cardinality(Debt') \in Nat
      BY <1>2, <2>1, FS_Subset, FS_CardinalityType
    <2>3. faults' = faults
      BY <1>5 DEF Step, CreateOrg, Begin, InsertTenant, CreateRole, AddPostgres, AddMQTT,
                  InsertAccount, InsertUser, Exec, Commit, Rollback, DeleteOrg
    <2> QED BY <1>2, <2>2, <2>3 DEF DebtInv
  <1>6. CASE Fails(j) \/ Crash(j)
    <2>1. Cardinality(Debt') <= Cardinality(Debt \cup {x}) /\ Cardinality(Debt') \in Nat
      BY <1>3, <1>4, FS_Subset, FS_CardinalityType
    <2>2. Cardinality(Debt \cup {x}) \in Nat
      BY <1>4, FS_CardinalityType
    <2>3. faults' = faults + 1
      BY <1>6 DEF Fails, CreateOrgFails, BeginFails, ExecFails, AddSourceFails, CommitFails,
                  DeleteOrgFails, Crash, Fault
    <2> QED BY <1>2, <1>4, <2>1, <2>2, <2>3 DEF DebtInv
  <1> QED BY <1>5, <1>6

\* The debt never exceeds the faults.
LEMMA DebtInvariant == Spec => [](ProvInv /\ DebtInv)
PROOF
  <1>1. Init => ProvInv /\ DebtInv
    <2> SUFFICES ASSUME Init PROVE DebtInv
      BY ProvInit
    <2>1. Debt = {}
      BY DEF Init, Debt, InProgress, OrgsInGrafana, Tenants, OrgIDs, NoOrg, Ended, Jobs
    <2> QED BY <2>1, FS_EmptySet DEF Init, DebtInv
  <1>2. ProvInv /\ DebtInv /\ [Next]_vars => (ProvInv /\ DebtInv)'
    <2>1. ProvInv /\ DebtInv /\ UNCHANGED vars => (ProvInv /\ DebtInv)'
      BY ProvStutter DEF vars, grafanaVars, DebtInv, Debt, InProgress, Tenants, OrgsInGrafana
    <2> QED BY <2>1, ProvStep, DebtStep DEF Next
  <1> QED BY <1>1, <1>2, PTL DEF Spec

\* DivergenceCostsAFault: however many jobs run, and in whatever order, the
\* two systems disagree about no more organisations than requests have failed
\* or processes died.
THEOREM DivergenceIsPaidFor == Spec => []DivergenceCostsAFault
PROOF
  <1>1. ASSUME ProvInv, DebtInv PROVE DivergenceCostsAFault
    <2> DEFINE diverged == ((OrgsInGrafana \ Tenants) \cup (Tenants \ OrgsInGrafana)) \ InProgress
    <2>1. diverged \subseteq Debt
      <3>1. OrgsInGrafana \subseteq OrgIDs
        BY <1>1 DEF OrgsInGrafana, ProvInv, JobsInv, TypeOK, OrgRecord
      <3>2. Tenants \subseteq OrgIDs
        BY <1>1, TenantsAre DEF ProvInv, JobsInv, TxnInv
      <3> QED BY <3>1, <3>2 DEF Debt
    <2>2. IsFiniteSet(Debt)
      <3>1. Debt \subseteq OrgIDs /\ IsFiniteSet(OrgIDs)
        BY JobsAssumption, FS_CardinalityType, FS_Interval DEF Debt, OrgIDs
      <3> QED BY <3>1, FS_Subset
    <2> HIDE DEF diverged
    <2>3. /\ Cardinality(diverged) <= Cardinality(Debt)
          /\ Cardinality(diverged) \in Nat /\ Cardinality(Debt) \in Nat
      BY <2>1, <2>2, FS_Subset, FS_CardinalityType
    <2>4. Cardinality(diverged) <= faults
      BY <1>1, <2>3, JobsAssumption DEF DebtInv, ProvInv, JobsInv, TypeOK
    <2> QED BY <2>4 DEF diverged, DivergenceCostsAFault
  <1> QED BY <1>1, DebtInvariant, PTL
=============================================================================
