------------------------- MODULE TenantProvisioning -------------------------
(***************************************************************************)
(* The admin CLI: TenantManager.CreateOrg and CreateUser of                *)
(* cmd/admin/tenants.go.                                                   *)
(*                                                                         *)
(* A tenant is an organisation in Grafana with two data sources, and, in   *)
(* PostgreSQL, a row, a role, an account for the data sources and a first  *)
(* user.  CreateOrg makes the organisation first, does everything else     *)
(* inside one transaction, and compensates: deferred functions roll the    *)
(* transaction back and then ask Grafana to delete the organisation.  The  *)
(* request may fail, and so may every other one, with or without having    *)
(* had its effect; the process may die between any two.                    *)
(*                                                                         *)
(* A job is one invocation of the CLI, a process with a database           *)
(* connection of its own; any number of them run at the same time.         *)
(***************************************************************************)
EXTENDS Integers, FiniteSets

CONSTANTS
    TenantJobs,   \* invocations of "tenant create"
    UserJobs,     \* invocations of "user create"
    OrgName,      \* --name of a tenant job
    Username,     \* --username of a job
    TenantID,     \* --tenant of a user job
    MaxFaults     \* bound: failed requests, lost answers and crashes

Jobs == TenantJobs \cup UserJobs

\* Grafana numbers organisations and never uses a number again.
OrgIDs == 1..Cardinality(TenantJobs)

Names == {OrgName[j] : j \in TenantJobs}
Usernames == {Username[j] : j \in Jobs}

NoOrg == 0

\* The last but one conjunct leaves out a user whose name is that of a
\* machine account, tenant_<id> (tenants.go:119): the code does not forbid
\* it, the unique constraint on the user name then decides who is first.
ASSUME JobsAssumption ==
    /\ IsFiniteSet(TenantJobs)
    /\ TenantJobs \cap UserJobs = {}
    /\ TenantID \in [UserJobs -> OrgIDs]
    /\ Usernames \cap OrgIDs = {}
    /\ MaxFaults \in Nat

VARIABLES
    orgs,      \* Grafana: [id, name] of the organisations
    created,   \* Grafana: how many organisations were ever created
    sources,   \* Grafana: <<organisation, kind>> of the data sources
    db,        \* PostgreSQL: committed rows
    tx,        \* PostgreSQL: per job, the rows of its open transaction
    pc,        \* per job: what it does next
    org,       \* per job: createdOrgID, or the --tenant of a user job
    faults     \* failed requests, lost answers and crashes so far

grafanaVars == <<orgs, created, sources>>
vars == <<grafanaVars, db, tx, pc, org, faults>>

Ended == {"done", "failed", "crashed"}

-----------------------------------------------------------------------------
(* Rows, by table: what identifies them, and the tenant they belong to.  The *)
(* account and the role of the data sources are named after the tenant.      *)

Row(table, key, o) == [table |-> table, key |-> key, org |-> o]

TenantRows(o) == {Row("tenants", o, o)}

RoleRows(o) == {Row("roles", o, o)}

MachineRows(o) == {Row("accounts", o, o), Row("acls", o, o)}

UserRows(u, o) == {Row("accounts", u, o), Row("users", u, o), Row("acls", u, o)}

\* Tables whose key the database keeps unique.
UniqueTables == {"tenants", "roles", "accounts"}

SameKey(r, q) == r.table = q.table /\ r.key = q.key /\ r.table \in UniqueTables

Visible(j) == db \cup tx[j]

\* Another open transaction has a row with the same key: the server waits.
Blocked(j, R) == \E i \in Jobs \ {j} : \E r \in R, q \in tx[i] : SameKey(r, q)

\* A unique key is taken, or an account refers to no tenant.
Violates(j, R) ==
    \/ \E r \in R, q \in Visible(j) : SameKey(r, q)
    \/ \E r \in R : r.table = "accounts" /\ Row("tenants", r.org, r.org) \notin Visible(j)

Init ==
    /\ orgs = {}
    /\ created = 0
    /\ sources = {}
    /\ db = {}
    /\ tx = [j \in Jobs |-> {}]
    /\ pc = [j \in Jobs |-> IF j \in TenantJobs THEN "org" ELSE "begin"]
    /\ org = [j \in Jobs |-> IF j \in TenantJobs THEN NoOrg ELSE TenantID[j]]
    /\ faults = 0

-----------------------------------------------------------------------------

Fault == faults < MaxFaults /\ faults' = faults + 1

GoTo(j, next) == pc' = [pc EXCEPT ![j] = next]

\* Mutant: after an error the transaction stays open.
Abort_LeavesOpen(j, next) ==
    /\ UNCHANGED tx
    /\ GoTo(j, IF j \in UserJobs THEN "failed" ELSE next)

\* An error ends the server's transaction.  CreateOrg's deferred functions
\* are next; CreateUser alone returns, without a Rollback, and the CLI exits.
Abort(j, next) ==
    /\ tx' = [tx EXCEPT ![j] = {}]
    /\ GoTo(j, IF j \in UserJobs THEN "failed" ELSE next)

NewOrg(j) ==
    /\ \A o \in orgs : o.name # OrgName[j]
    /\ created' = created + 1
    /\ orgs' = orgs \cup {[id |-> created + 1, name |-> OrgName[j]]}

\* Grafana refuses a name that is in use.
CreateOrg(j) ==
    /\ pc[j] = "org"
    /\ IF \E o \in orgs : o.name = OrgName[j]
       THEN GoTo(j, "failed") /\ UNCHANGED <<orgs, created, org>>
       ELSE /\ NewOrg(j)
            /\ org' = [org EXCEPT ![j] = created + 1]
            /\ GoTo(j, "begin")
    /\ UNCHANGED <<sources, db, tx, faults>>

\* An error of this first request is returned before anything is deferred,
\* whether or not Grafana has carried it out.
CreateOrgFails(j) ==
    /\ pc[j] = "org"
    /\ Fault
    /\ GoTo(j, "failed")
    /\ NewOrg(j) \/ UNCHANGED <<orgs, created>>
    /\ UNCHANGED <<sources, db, tx, org>>

Begin(j) ==
    /\ pc[j] = "begin"
    /\ GoTo(j, IF j \in TenantJobs THEN "tenant" ELSE "user")
    /\ UNCHANGED <<grafanaVars, db, tx, org, faults>>

\* The Rollback is not deferred yet.
BeginFails(j) ==
    /\ pc[j] = "begin"
    /\ Fault
    /\ Abort(j, "delete")
    /\ UNCHANGED <<grafanaVars, db, org>>

\* A statement of the transaction waits, violates a constraint or succeeds.
Exec(j, R, next) ==
    /\ ~Blocked(j, R)
    /\ IF Violates(j, R)
       THEN Abort(j, "rollback")
       ELSE tx' = [tx EXCEPT ![j] = @ \cup R] /\ GoTo(j, next)
    /\ UNCHANGED <<grafanaVars, db, org, faults>>

ExecFails(j) ==
    /\ pc[j] \in {"tenant", "role", "account", "user"}
    /\ Fault
    /\ Abort(j, "rollback")
    /\ UNCHANGED <<grafanaVars, db, org>>

\* Mutant: executed on the connection, outside the transaction.
InsertTenant_Autocommit(j) ==
    /\ pc[j] = "tenant"
    /\ db' = db \cup TenantRows(org[j])
    /\ GoTo(j, "role")
    /\ UNCHANGED <<grafanaVars, tx, org, faults>>

InsertTenant(j) == pc[j] = "tenant" /\ Exec(j, TenantRows(org[j]), "role")

CreateRole(j) == pc[j] = "role" /\ Exec(j, RoleRows(org[j]), "postgres")

AddSource(j, kind) ==
    /\ sources' = sources \cup {<<org[j], kind>>}
    /\ UNCHANGED <<orgs, created, db, org>>

\* Both data sources hold the password of a role that is not committed yet.
AddPostgres(j) ==
    /\ pc[j] = "postgres"
    /\ AddSource(j, "postgres")
    /\ GoTo(j, "mqtt")
    /\ UNCHANGED <<tx, faults>>

\* Mutant: the error of the second request is not looked at.
AddMQTT_IgnoresError(j) ==
    /\ pc[j] = "mqtt"
    /\ AddSource(j, "mqtt") \/ UNCHANGED <<grafanaVars, db, org>>
    /\ GoTo(j, "account")
    /\ UNCHANGED <<tx, faults>>

AddMQTT(j) ==
    /\ pc[j] = "mqtt"
    /\ AddSource(j, "mqtt")
    /\ GoTo(j, "account")
    /\ UNCHANGED <<tx, faults>>

AddSourceFails(j) ==
    /\ pc[j] \in {"postgres", "mqtt"}
    /\ Fault
    /\ GoTo(j, "rollback")
    /\ AddSource(j, pc[j]) \/ UNCHANGED <<grafanaVars, db, org>>
    /\ UNCHANGED tx

InsertAccount(j) == pc[j] = "account" /\ Exec(j, MachineRows(org[j]), "user")

\* CreateUser, in the transaction of CreateOrg or in its own.
InsertUser(j) == pc[j] = "user" /\ Exec(j, UserRows(Username[j], org[j]), "commit")

Commit(j) ==
    /\ pc[j] = "commit"
    /\ db' = db \cup tx[j]
    /\ tx' = [tx EXCEPT ![j] = {}]
    /\ GoTo(j, "done")
    /\ UNCHANGED <<grafanaVars, org, faults>>

\* Commit returns an error: the server has committed, or it has not.
CommitFails(j) ==
    /\ pc[j] = "commit"
    /\ Fault
    /\ db' \in {db, db \cup tx[j]}
    /\ Abort(j, "rollback")
    /\ UNCHANGED <<grafanaVars, org>>

\* The deferred functions, last one first.
Rollback(j) ==
    /\ pc[j] = "rollback"
    /\ tx' = [tx EXCEPT ![j] = {}]
    /\ GoTo(j, "delete")
    /\ UNCHANGED <<grafanaVars, db, org, faults>>

\* Mutant: the deferred function looks at an err that is always nil.
DeleteOrg_Skipped(j) ==
    /\ pc[j] = "delete"
    /\ GoTo(j, "failed")
    /\ UNCHANGED <<grafanaVars, db, tx, org, faults>>

\* Grafana deletes the organisation with its data sources.
DeleteOrg(j) ==
    /\ pc[j] = "delete"
    /\ orgs' = {o \in orgs : o.id # org[j]}
    /\ sources' = {s \in sources : s[1] # org[j]}
    /\ GoTo(j, "failed")
    /\ UNCHANGED <<created, db, tx, org, faults>>

\* "there is a bug in Grafana 13.1 that prevents org deletion"
DeleteOrgFails(j) ==
    /\ pc[j] = "delete"
    /\ Fault
    /\ GoTo(j, "failed")
    /\ UNCHANGED <<grafanaVars, db, tx, org>>

\* The process dies; the server ends its transaction.
Crash(j) ==
    /\ pc[j] \notin Ended
    /\ Fault
    /\ tx' = [tx EXCEPT ![j] = {}]
    /\ GoTo(j, "crashed")
    /\ UNCHANGED <<grafanaVars, db, org>>

-----------------------------------------------------------------------------

Fails(j) ==
    \/ CreateOrgFails(j)
    \/ BeginFails(j)
    \/ ExecFails(j)
    \/ AddSourceFails(j)
    \/ CommitFails(j)
    \/ DeleteOrgFails(j)

Step(j) ==
    \/ CreateOrg(j)
    \/ Begin(j)
    \/ InsertTenant(j)
    \/ CreateRole(j)
    \/ AddPostgres(j)
    \/ AddMQTT(j)
    \/ InsertAccount(j)
    \/ InsertUser(j)
    \/ Commit(j)
    \/ Rollback(j)
    \/ DeleteOrg(j)

Next == \E j \in Jobs : Step(j) \/ Fails(j) \/ Crash(j)

Spec == Init /\ [][Next]_vars

\* Requests are answered, or fail, in the end; a statement that waits for
\* another transaction goes on when that has ended.
FairSpec == Spec /\ \A j \in Jobs : WF_vars(Step(j) \/ Fails(j))

-----------------------------------------------------------------------------
(* Properties *)

OrgRecord == [id : OrgIDs, name : Names]

RowType ==
    [table : {"tenants", "roles", "accounts", "acls", "users"},
     key : OrgIDs \cup Usernames, org : OrgIDs]

\* Every variable has its type, and organisation numbers are never reused.
TypeOK ==
    /\ orgs \subseteq OrgRecord
    /\ \A o \in orgs : o.id <= created
    /\ created \in 0..Cardinality(TenantJobs)
    /\ sources \subseteq OrgIDs \X {"postgres", "mqtt"}
    /\ db \subseteq RowType
    /\ tx \in [Jobs -> SUBSET RowType]
    /\ pc \in [Jobs -> Ended \cup {"org", "begin", "tenant", "role", "postgres", "mqtt",
                                   "account", "user", "commit", "rollback", "delete"}]
    /\ org \in [Jobs -> OrgIDs \cup {NoOrg}]
    /\ faults \in 0..MaxFaults

OrgsInGrafana == {o.id : o \in orgs}
Tenants == {r.key : r \in {q \in db : q.table = "tenants"}}

\* Organisations a running job is still responsible for.
InProgress == {org[j] : j \in {i \in TenantJobs : pc[i] \notin Ended}}

\* The two systems agree on who is a tenant, except where a request failed or
\* a process died: each fault leaves at most one organisation without tenant,
\* or tenant without organisation, whatever the jobs do to each other.
DivergenceCostsAFault ==
    Cardinality(((OrgsInGrafana \ Tenants) \cup (Tenants \ OrgsInGrafana)) \ InProgress)
        <= faults

\* What the CLI reports as created is there, in both systems, and stays: no
\* other job, failing or compensating, ever takes a part of it away.
ReportedIsComplete ==
    \A j \in Jobs : pc[j] = "done" =>
        /\ UserRows(Username[j], org[j]) \subseteq db
        /\ j \in TenantJobs =>
              /\ org[j] \in OrgsInGrafana
              /\ {<<org[j], "postgres">>, <<org[j], "mqtt">>} \subseteq sources
              /\ TenantRows(org[j]) \cup RoleRows(org[j]) \cup MachineRows(org[j]) \subseteq db

\* The data sources of an organisation can log in, or somebody is still at
\* work on it, or it is one of the left-overs that a fault has cost.
SourcesCanLogIn ==
    \A s \in sources :
        \/ RoleRows(s[1]) \cup MachineRows(s[1]) \subseteq db
        \/ s[1] \in InProgress
        \/ s[1] \notin Tenants /\ faults > 0

Registry == INSTANCE TenantRegistry WITH
    tenants <- Tenants,
    members <- {<<r.key, r.org>> : r \in {q \in db : q.table = "users"}}

\* Readers of the tables never see a part of a tenant: rows appear as
\* TenantRegistry lets them, through failures, crashes and unknown commits.
ImplementsRegistry == Registry!Spec

\* Every invocation ends, also when two want the same user name and one of
\* them has to wait for the other's transaction.
JobsEnd == \A j \in Jobs : <>(pc[j] \in Ended)

=============================================================================
