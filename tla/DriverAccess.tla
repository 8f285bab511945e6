---------------------------- MODULE DriverAccess ----------------------------
(***************************************************************************)
(* What becomes of the credentials that the admin CLI reports: the         *)
(* configuration of cmd/ingest (main.go, F123IngestConfig of f123.go) and  *)
(* the broker's checks against the tables that TenantProvisioning fills.   *)
(*                                                                         *)
(* An ingest reads its user name, token and tenant from the environment    *)
(* and then from flags, validates them, connects with name and token, and  *)
(* publishes under formulatel/f123/<tenant>/<user name>/.  The broker asks *)
(* auth.accounts who may connect and auth.mqtt_acls who may publish where; *)
(* a message it refuses is dropped without a word to the publisher.  The   *)
(* live dashboard of an organisation reads the topics of its tenant.       *)
(* This is the listener that drivers use, on port 9001.  The broker has    *)
(* another one, on port 1883, for persist and Grafana inside the cluster,  *)
(* which asks nobody for a password (formulatel-values.yaml:125-127) and   *)
(* is not modelled.                                                        *)
(***************************************************************************)
EXTENDS TenantProvisioning

CONSTANTS
    Ingests,   \* processes of cmd/ingest
    Unset      \* an empty user name or token

ASSUME AccessAssumption == Unset \notin Usernames \cup Jobs

VARIABLES
    hashes,   \* auth.accounts: <<user name, job>>, the job that made the token
    ingest,   \* per ingest: its state, environment and flags
    live      \* <<organisation, user name>>: telemetry a dashboard has shown

accessVars == <<hashes, ingest, live>>

-----------------------------------------------------------------------------
(* Settings.  A token is named after the job that has generated it.          *)

\* What the CLI logs when a job is done.
Reported(j) == [username |-> Username[j], token |-> j, tenant |-> org[j]]

DoneJobs == {j \in Jobs : pc[j] = "done"}

\* TENANT_ID has no default: an unset one is 0.
NoEnv == [username |-> Unset, token |-> Unset, tenant |-> 0]

NoFlags == [username |-> Unset, token |-> Unset, tenant |-> -1]

\* The environment may be that of another job, and the tenant may be left out.
Environments == {NoEnv} \cup {Reported(j) : j \in DoneJobs}

FlagSets ==
    LET all == {Reported(j) : j \in DoneJobs}
    IN  {NoFlags} \cup all \cup {[f EXCEPT !.tenant = -1] : f \in all}

Override(flag, env) == IF flag # Unset THEN flag ELSE env

\* Mutant: only what is not in the environment is taken from the flags.
Config_EnvironmentFirst(env, flags) ==
    [username |-> Override(env.username, flags.username),
     token |-> Override(env.token, flags.token),
     tenant |-> IF env.tenant > 0 THEN env.tenant ELSE flags.tenant]

\* Mutant: a tenant flag that is not given is not recognised.
Config_AnyTenantFlag(env, flags) ==
    [username |-> Override(flags.username, env.username),
     token |-> Override(flags.token, env.token),
     tenant |-> IF flags.tenant # 0 THEN flags.tenant ELSE env.tenant]

Config(env, flags) ==
    [username |-> Override(flags.username, env.username),
     token |-> Override(flags.token, env.token),
     tenant |-> IF flags.tenant > -1 THEN flags.tenant ELSE env.tenant]

\* The token is validated after it has been replaced by "***".
Validate(c) == c.username # Unset /\ c.tenant >= 0

\* Mutant: user name before tenant.
Topic_Swapped(c) == [tenant |-> c.username, user |-> c.tenant]

\* prefixTopic
Topic(c) == [tenant |-> c.tenant, user |-> c.username]

-----------------------------------------------------------------------------
(* The broker *)

LetsIn(c) == <<c.username, c.token>> \in hashes

\* Mutant: the ACL is formulatel/+/+/<user name>/#.
Accepts_AnyTenant(u, topic) ==
    (\E o \in OrgIDs : Row("acls", u, o) \in db) /\ topic.user = u

\* The ACL of a user is formulatel/+/<tenant>/<user name>/#.
Accepts(u, topic) == Row("acls", u, topic.tenant) \in db /\ topic.user = u

\* Dashboards whose data source may read the topic: the ACL of an
\* organisation's account is formulatel/+/<organisation>/#.
Dashboards(topic) ==
    {o \in OrgIDs : <<o, "mqtt">> \in sources /\ MachineRows(o) \subseteq db /\ topic.tenant = o}

-----------------------------------------------------------------------------
(* Actions *)

AccessInit ==
    /\ Init
    /\ hashes = {}
    /\ ingest = [i \in Ingests |-> [state |-> "off", env |-> NoEnv, flags |-> NoFlags]]
    /\ live = {}

Settings(i) == Config(ingest[i].env, ingest[i].flags)

\* The password hash becomes visible with the rows of the transaction.
Job(j) ==
    /\ Step(j) \/ Fails(j) \/ Crash(j)
    /\ hashes' = IF Row("accounts", Username[j], org[j]) \in db' \ db
                 THEN hashes \cup {<<Username[j], j>>} ELSE hashes
    /\ UNCHANGED <<ingest, live>>

\* An invalid configuration, or a refused connection, ends the process.
Start(i, env, flags) ==
    /\ ingest[i].state = "off"
    /\ LET c == Config(env, flags)
           state == IF ~Validate(c) THEN "invalid"
                    ELSE IF LetsIn(c) THEN "connected" ELSE "refused"
       IN  ingest' = [ingest EXCEPT ![i] = [state |-> state, env |-> env, flags |-> flags]]
    /\ UNCHANGED <<vars, hashes, live>>

\* In MQTT 3.1.1 a PUBLISH that is not authorised is acknowledged all the same.
Publish(i) ==
    LET c == Settings(i)
        accepted == Accepts(c.username, Topic(c))
    IN  /\ ingest[i].state \in {"connected", "mute", "heard"}
        /\ ingest' = [ingest EXCEPT ![i].state = IF accepted THEN "heard" ELSE "mute"]
        /\ live' = IF accepted THEN live \cup (Dashboards(Topic(c)) \X {c.username}) ELSE live
        /\ UNCHANGED <<vars, hashes>>

AccessNext ==
    \/ \E j \in Jobs : Job(j)
    \/ \E i \in Ingests, env \in Environments, flags \in FlagSets : Start(i, env, flags)
    \/ \E i \in Ingests : Publish(i)

\* Jobs are fair as in TenantProvisioning; an ingest may never be started.
AccessSpec ==
    /\ AccessInit
    /\ [][AccessNext]_<<vars, accessVars>>
    /\ \A j \in Jobs : WF_vars(Step(j) \/ Fails(j))

-----------------------------------------------------------------------------
(* Properties *)

\* Every variable has its type.
AccessTypeOK ==
    /\ TypeOK
    /\ hashes \subseteq Usernames \X Jobs
    /\ \A i \in Ingests :
          /\ ingest[i].state \in {"off", "invalid", "refused", "connected", "mute", "heard"}
          /\ ingest[i].state # "off" =>
                Settings(i) \in [username : Usernames \cup {Unset}, token : Jobs \cup {Unset},
                                 tenant : OrgIDs \cup {0}]
    /\ live \subseteq OrgIDs \X Usernames

\* The driver passes what a done job has reported, as flags or, with no flag,
\* in the environment.
GivenAccess(i, j) ==
    \/ ingest[i].flags = Reported(j)
    \/ ingest[i].flags = NoFlags /\ ingest[i].env = Reported(j)

\* What the CLI reports works: whoever starts ingest with it is let in, is
\* never mute, and is seen on the live dashboard of a tenant the CLI has
\* reported, whatever is left in the environment, whatever other jobs have done
\* in between and however they failed.
ReportedAccessWorks ==
    \A i \in Ingests, j \in DoneJobs : GivenAccess(i, j) =>
        /\ ingest[i].state \notin {"invalid", "refused", "mute"}
        /\ ingest[i].state = "heard" /\ (\E k \in DoneJobs \cap TenantJobs : org[k] = org[j])
              => <<org[j], Username[j]>> \in live

\* An ingest that is connected and mute, which it cannot notice, has somebody's
\* credentials and not that account's tenant; nothing else leads there.
MuteOnlyWithoutTenant ==
    \A i \in Ingests : ingest[i].state = "mute" =>
        /\ Row("users", Settings(i).username, Settings(i).tenant) \notin db
        /\ \E j \in DoneJobs : Settings(i).username = Username[j] /\ Settings(i).token = j

\* A dashboard shows the telemetry of users of its own organisation only.
DashboardsShowTheirOwn ==
    \A x \in live : Row("users", x[2], x[1]) \in db

=============================================================================
