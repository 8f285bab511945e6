-------------------------- MODULE DriverAccessProofs --------------------------
(***************************************************************************)
(* Theorems about DriverAccess, for any jobs, ingests and number of        *)
(* faults, under JobsAssumption and AccessAssumption.                      *)
(*                                                                         *)
(* The jobs behave as in TenantProvisioning (AccessImplementsProvisioning),*)
(* so everything proved there holds here, and its inductive invariant      *)
(* ProvInv may be assumed of both states of a step.  What is added:        *)
(*   HashInv   who has an account, and with which job's token              *)
(*   SettingsInv   a user name and a token always come from the same job;  *)
(*             what has become of an ingest follows from its settings      *)
(*   LiveInv   who is seen on which dashboard                              *)
(***************************************************************************)
EXTENDS DriverAccess, TenantProvisioningProofs

\* The jobs of DriverAccess are those of TenantProvisioning: no ingest takes
\* part in what they do.
THEOREM AccessImplementsProvisioning == AccessSpec => Spec
PROOF
  <1>1. AccessInit => Init
    BY DEF AccessInit
  <1>2. [AccessNext]_<<vars, accessVars>> => [Next]_vars
    BY DEF AccessNext, Job, Start, Publish, Next
  <1> QED BY <1>1, <1>2, PTL DEF AccessSpec, Spec

-----------------------------------------------------------------------------
(* The invariant *)

HashInv ==
    /\ hashes \subseteq {<<Username[j], j>> : j \in Jobs}
    /\ \A j \in DoneJobs : <<Username[j], j>> \in hashes

\* Settings an ingest can have: complete ones, of a job that is done, but for
\* the tenant, which may be another job's or nobody's.
Sound(c) ==
    /\ c \in [username : Usernames \cup {Unset}, token : Jobs \cup {Unset}, tenant : OrgIDs \cup {0}]
    /\ \/ c.username = Unset /\ c.token = Unset
       \/ c.token \in DoneJobs /\ c.username = Username[c.token]

\* What has become of an ingest with these settings.
Outcome(state, c) ==
    /\ state \in {"off", "invalid", "connected", "mute", "heard"}
    /\ state = "invalid" => c.username = Unset
    /\ state \in {"connected", "mute", "heard"} => c.username # Unset
    /\ state = "mute" => c.tenant # org[c.token]
    /\ state = "heard" =>
          /\ Row("acls", c.username, c.tenant) \in db
          /\ \A k \in DoneJobs \cap TenantJobs :
                org[k] = c.tenant => <<c.tenant, c.username>> \in live

SettingsInv ==
    /\ ingest = [i \in Ingests |->
          [state |-> ingest[i].state, env |-> ingest[i].env, flags |-> ingest[i].flags]]
    /\ \A i \in Ingests : Sound(Settings(i)) /\ Outcome(ingest[i].state, Settings(i))

LiveInv ==
    /\ live \subseteq OrgIDs \X Usernames
    /\ DashboardsShowTheirOwn

AccessInv == HashInv /\ SettingsInv /\ LiveInv

-----------------------------------------------------------------------------
(* Jobs that are done *)

\* A job that is done has an organisation with a tenant, and its user is there.
LEMMA DoneFacts ==
  ASSUME ProvInv, NEW j \in DoneJobs
  PROVE  /\ j \in Jobs /\ Username[j] \in Usernames /\ org[j] \in OrgIDs
         /\ UserRows(Username[j], org[j]) \subseteq db /\ Bundle(org[j]) \subseteq db
PROOF
  <1>1. j \in Jobs /\ pc[j] = "done"
    BY DEF DoneJobs
  <1>2. Username[j] \in Usernames
    BY <1>1 DEF Usernames
  <1>3. UserRows(Username[j], org[j]) \subseteq db
    BY <1>1 DEF ProvInv, TxnInv, DoneInv
  <1>4. Row("users", Username[j], org[j]) \in db
    BY <1>3 DEF UserRows
  <1>5. org[j] \in OrgIDs /\ Bundle(org[j]) \subseteq db
    BY <1>4, RowFields DEF ProvInv, JobsInv, TypeOK, RowType, TxnInv, TablesInv
  <1> QED BY <1>1, <1>2, <1>3, <1>5

\* A step finishes at most the job that takes it, by committing.
LEMMA DoneGrows ==
  ASSUME ProvInv, NEW j \in Jobs, Step(j) \/ Fails(j) \/ Crash(j)
  PROVE  /\ db \subseteq db' /\ DoneJobs \subseteq DoneJobs'
         /\ \A k \in DoneJobs : org'[k] = org[k]
         /\ \A k \in DoneJobs' \ DoneJobs :
               k = j /\ pc[j] = "commit" /\ db' = db \cup tx[j] /\ org'[j] = org[j]
PROOF
  <1>1. Shape(j)
    BY Shapes DEF ProvInv, JobsInv
  <1>2. db \subseteq db'
    BY <1>1, DoneStep DEF ProvInv, TxnInv
  <1>3. pc = [i \in Jobs |-> pc[i]] /\ org = [i \in Jobs |-> org[i]]
    BY DEF ProvInv, JobsInv, TypeOK
  <1>4. pc[j] # "done"
    BY <1>1 DEF Shape, Aborts, Moves, Creates, Writes, Commits, Ended
  <1>5. \A k \in Jobs \ {j} : pc'[k] = pc[k] /\ org'[k] = org[k]
    BY <1>1, <1>3 DEF Shape, Aborts, Moves, Creates, Writes, Commits
  <1>6. pc'[j] = "done" => pc[j] = "commit" /\ db' = db \cup tx[j] /\ org'[j] = org[j]
    BY <1>1, <1>3 DEF Shape, Aborts, Moves, Creates, Writes, Commits
  <1> QED BY <1>2, <1>4, <1>5, <1>6 DEF DoneJobs

\* A tenant job cannot be done after somebody has become a user of its tenant.
LEMMA TenantFirst ==
  ASSUME ProvInv, NEW j \in Jobs, pc[j] = "commit", j \in TenantJobs
  PROVE  \A u : Row("acls", u, org[j]) \notin db
PROOF
  <1> SUFFICES ASSUME NEW u, Row("acls", u, org[j]) \in db PROVE FALSE
    OBVIOUS
  <1>1. Bundle(org[j]) \subseteq db
    BY RowFields DEF ProvInv, TxnInv, TablesInv
  <1>2. Bundle(org[j]) \subseteq tx[j]
    BY CommitAdds DEF ProvInv, TxnInv
  <1>3. Row("tenants", org[j], org[j]) \in db /\ Row("tenants", org[j], org[j]) \in tx[j]
    BY <1>1, <1>2 DEF Bundle, TenantRows
  <1>4. SameKey(Row("tenants", org[j], org[j]), Row("tenants", org[j], org[j]))
    BY RowFields DEF SameKey, UniqueTables
  <1> QED BY <1>3, <1>4 DEF ProvInv, TxnInv, KeysInv, Apart

-----------------------------------------------------------------------------
(* Steps *)

\* Accounts: the token of a job is stored with its rows, and with no others'.
LEMMA HashStep ==
  ASSUME ProvInv, HashInv, NEW j \in Jobs, Job(j)
  PROVE  HashInv'
PROOF
  <1>1. hashes' = hashes \/ hashes' = hashes \cup {<<Username[j], j>>}
    BY DEF Job
  <1>2. ASSUME NEW k \in DoneJobs' PROVE <<Username[k], k>> \in hashes'
    <2>1. CASE k \in DoneJobs
      BY <1>1, <2>1 DEF HashInv
    <2>2. CASE k \notin DoneJobs
      <3>1. k = j /\ pc[j] = "commit" /\ db' = db \cup tx[j]
        BY <2>2, DoneGrows DEF Job
      <3>2. Row("accounts", Username[j], org[j]) \in tx[j]
        BY <3>1, CommitAdds DEF ProvInv, TxnInv, UserRows
      <3>3. Row("accounts", Username[j], org[j]) \notin db
        <4>1. SameKey(Row("accounts", Username[j], org[j]), Row("accounts", Username[j], org[j]))
          BY RowFields DEF SameKey, UniqueTables
        <4> QED BY <3>2, <4>1 DEF ProvInv, TxnInv, KeysInv, Apart
      <3> QED BY <3>1, <3>2, <3>3 DEF Job
    <2> QED BY <2>1, <2>2
  <1> QED BY <1>1, <1>2 DEF HashInv

\* An ingest's settings stay sound, and what has become of it stays true,
\* whatever the jobs do.
LEMMA OutcomeStays ==
  ASSUME ProvInv, NEW j \in Jobs, Step(j) \/ Fails(j) \/ Crash(j), UNCHANGED live,
         NEW c, NEW state, Sound(c), Outcome(state, c)
  PROVE  Sound(c)' /\ Outcome(state, c)'
PROOF
  <1>1. /\ db \subseteq db' /\ DoneJobs \subseteq DoneJobs'
        /\ \A k \in DoneJobs : org'[k] = org[k]
        /\ \A k \in DoneJobs' \ DoneJobs :
              k = j /\ pc[j] = "commit" /\ org'[j] = org[j]
    BY DoneGrows
  <1>2. Sound(c)'
    BY <1>1 DEF Sound
  <1>3. state = "mute" => c.tenant # org'[c.token]
    BY <1>1, AccessAssumption DEF Sound, Outcome
  <1>4. ASSUME state = "heard", NEW k \in DoneJobs' \cap TenantJobs, org'[k] = c.tenant
        PROVE  <<c.tenant, c.username>> \in live
    <2>1. CASE k \in DoneJobs
      BY <1>1, <1>4, <2>1 DEF Outcome
    <2>2. CASE k \notin DoneJobs
      <3>1. k = j /\ pc[j] = "commit" /\ org[j] = c.tenant
        BY <1>1, <1>4, <2>2
      <3> QED BY <1>4, <3>1, TenantFirst DEF Outcome
    <2> QED BY <2>1, <2>2
  <1> QED BY <1>1, <1>2, <1>3, <1>4 DEF Outcome

\* What a job reports, given in the environment or as flags, with or without
\* the tenant, or partly, makes sound settings.
LEMMA SettingsAreSound ==
  ASSUME ProvInv, NEW env \in Environments, NEW flags \in FlagSets
  PROVE  Sound(Config(env, flags))
PROOF
  <1> DEFINE c == Config(env, flags)
  <1>1. /\ c.username = IF flags.username # Unset THEN flags.username ELSE env.username
        /\ c.token = IF flags.token # Unset THEN flags.token ELSE env.token
        /\ c.tenant = IF flags.tenant > -1 THEN flags.tenant ELSE env.tenant
        /\ c = [username |-> c.username, token |-> c.token, tenant |-> c.tenant]
    BY DEF Config, Override
  <1>2. /\ env.tenant \in OrgIDs \cup {0}
        /\ \/ env.username = Unset /\ env.token = Unset
           \/ env.token \in DoneJobs /\ env.username = Username[env.token]
    BY DoneFacts DEF Environments, NoEnv, Reported
  <1>3. /\ flags.tenant \in OrgIDs \cup {-1}
        /\ \/ flags.username = Unset /\ flags.token = Unset
           \/ flags.token \in DoneJobs /\ flags.username = Username[flags.token]
    BY DoneFacts DEF FlagSets, NoFlags, Reported
  <1>4. \A j \in DoneJobs : j \in Jobs /\ Username[j] \in Usernames /\ j # Unset /\ Username[j] # Unset
    BY DoneFacts, AccessAssumption
  <1>5. /\ c.tenant \in OrgIDs \cup {0}
        /\ \/ c.username = Unset /\ c.token = Unset
           \/ c.token \in DoneJobs /\ c.username = Username[c.token]
    BY <1>1, <1>2, <1>3, <1>4 DEF OrgIDs
  <1> QED BY <1>1, <1>4, <1>5 DEF Sound

\* Sound settings with a user name are let in.
LEMMA SoundIsLetIn ==
  ASSUME HashInv, NEW c, Sound(c), c.username # Unset
  PROVE  LetsIn(c) /\ Validate(c)
  BY DEF HashInv, Sound, LetsIn, Validate, OrgIDs

\* The broker accepts the topic of a driver's own tenant, and no other.
LEMMA AcceptsOwn ==
  ASSUME ProvInv, NEW c, Sound(c), c.username # Unset
  PROVE  Accepts(c.username, Topic(c)) <=> c.tenant = org[c.token]
PROOF
  <1> DEFINE u == c.username
             o == c.tenant
             j == c.token
  <1>1. j \in DoneJobs /\ u = Username[j] /\ UserRows(u, org[j]) \subseteq db /\ u \in Usernames
    BY DoneFacts DEF Sound
  <1>2. Accepts(u, Topic(c)) <=> Row("acls", u, o) \in db
    BY DEF Accepts, Topic
  <1>3. Row("acls", u, org[j]) \in db /\ Row("accounts", u, org[j]) \in db
    BY <1>1 DEF UserRows
  <1>4. ASSUME Row("acls", u, o) \in db PROVE o = org[j]
    <2>1. PICK v \in Usernames : Row("acls", u, o) \in UserRows(v, o) /\ UserRows(v, o) \subseteq db
      <3>1. o \in OrgIDs
        BY <1>4, RowFields DEF ProvInv, JobsInv, TypeOK, RowType
      <3>2. Row("acls", u, o) \notin Bundle(o)
        BY <1>1, <3>1, RowFields, JobsAssumption
      <3> QED BY <1>4, <3>2, RowFields DEF ProvInv, TxnInv, TablesInv
    <2>2. Row("accounts", u, o) \in db
      BY <2>1, RowFields DEF UserRows
    <2>3. SameKey(Row("accounts", u, o), Row("accounts", u, org[j]))
      BY RowFields DEF SameKey, UniqueTables
    <2>4. Row("accounts", u, o) = Row("accounts", u, org[j])
      BY <1>3, <2>2, <2>3 DEF ProvInv, TxnInv, KeysInv, Distinct
    <2> QED BY <2>4, RowFields
  <1> QED BY <1>2, <1>3, <1>4

\* An ingest that starts is let in, or has no user name.
LEMMA StartStep ==
  ASSUME ProvInv, AccessInv, NEW i \in Ingests, NEW env \in Environments, NEW flags \in FlagSets,
         Start(i, env, flags)
  PROVE  AccessInv'
PROOF
  <1> DEFINE c == Config(env, flags)
  <1>1. UNCHANGED <<orgs, created, sources, db, tx, pc, org, faults, hashes, live>>
    BY DEF Start, vars, grafanaVars
  <1>2. Sound(c)
    BY SettingsAreSound
  <1>3. PICK state \in {"invalid", "connected", "refused"} :
           /\ state = IF ~Validate(c) THEN "invalid" ELSE IF LetsIn(c) THEN "connected" ELSE "refused"
           /\ ingest' = [ingest EXCEPT ![i] = [state |-> state, env |-> env, flags |-> flags]]
    BY DEF Start
  <1>4. Outcome(state, c)
    <2>1. state = "invalid" => c.username = Unset
      BY <1>2, <1>3, SoundIsLetIn DEF AccessInv
    <2>2. c.username = Unset => state = "invalid"
      BY <1>3 DEF Validate
    <2>3. c.username # Unset => state = "connected"
      BY <1>2, <1>3, SoundIsLetIn DEF AccessInv
    <2> QED BY <2>1, <2>2, <2>3 DEF Outcome
  <1>5. Settings(i)' = c /\ ingest'[i].state = state
    BY <1>3 DEF AccessInv, SettingsInv, Settings
  <1>6. \A k \in Ingests \ {i} : ingest'[k] = ingest[k] /\ Settings(k)' = Settings(k)
    BY <1>3 DEF AccessInv, SettingsInv, Settings
  <1>7. SettingsInv'
    <2>1. Sound(Settings(i))' /\ Outcome(ingest[i].state, Settings(i))'
      BY <1>1, <1>2, <1>4, <1>5 DEF Sound, Outcome, DoneJobs
    <2>2. ASSUME NEW k \in Ingests \ {i}
          PROVE  Sound(Settings(k))' /\ Outcome(ingest[k].state, Settings(k))'
      BY <1>1, <1>6 DEF Sound, Outcome, DoneJobs, AccessInv, SettingsInv
    <2>3. ingest' = [k \in Ingests |->
             [state |-> ingest'[k].state, env |-> ingest'[k].env, flags |-> ingest'[k].flags]]
      BY <1>3 DEF AccessInv, SettingsInv
    <2> QED BY <2>1, <2>2, <2>3 DEF SettingsInv
  <1>8. HashInv' /\ LiveInv'
    BY <1>1 DEF AccessInv, HashInv, LiveInv, DashboardsShowTheirOwn, DoneJobs
  <1> QED BY <1>7, <1>8 DEF AccessInv

\* A message is shown by the dashboard of its sender's tenant, or refused
\* because its topic has another one.
LEMMA PublishStep ==
  ASSUME ProvInv, AccessInv, NEW i \in Ingests, Publish(i)
  PROVE  AccessInv'
PROOF
  <1> DEFINE c == Settings(i)
             u == c.username
             o == c.tenant
  <1>1. UNCHANGED <<orgs, created, sources, db, tx, pc, org, faults, hashes>>
    BY DEF Publish, vars, grafanaVars
  <1>2. /\ Sound(c) /\ u # Unset
        /\ ingest = [k \in Ingests |->
              [state |-> ingest[k].state, env |-> ingest[k].env, flags |-> ingest[k].flags]]
    BY DEF Publish, AccessInv, SettingsInv, Outcome
  <1>3. u \in Usernames /\ c.token \in DoneJobs /\ UserRows(u, org[c.token]) \subseteq db
    BY <1>2, DoneFacts DEF Sound
  <1>4. Dashboards(Topic(c)) \subseteq OrgIDs \cap {o}
    BY DEF Dashboards, Topic
  <1>5. PICK state \in {"mute", "heard"} :
           /\ state = IF Accepts(u, Topic(c)) THEN "heard" ELSE "mute"
           /\ ingest' = [ingest EXCEPT ![i].state = state]
           /\ live' = IF Accepts(u, Topic(c)) THEN live \cup (Dashboards(Topic(c)) \X {u}) ELSE live
    BY DEF Publish
  <1>6. Accepts(u, Topic(c)) <=> o = org[c.token]
    BY <1>2, AcceptsOwn
  <1>7. /\ ingest'[i].state = state /\ Settings(i)' = c
        /\ \A k \in Ingests \ {i} : ingest'[k] = ingest[k] /\ Settings(k)' = Settings(k)
        /\ ingest' = [k \in Ingests |->
              [state |-> ingest'[k].state, env |-> ingest'[k].env, flags |-> ingest'[k].flags]]
    <2>1. /\ ingest'[i] = [state |-> state, env |-> ingest[i].env, flags |-> ingest[i].flags]
          /\ \A k \in Ingests \ {i} : ingest'[k] = ingest[k]
          /\ ingest' = [k \in Ingests |-> ingest'[k]]
      BY <1>2, <1>5
    <2> QED BY <1>2, <2>1 DEF Settings
  <1>8. live \subseteq live'
    BY <1>5
  <1>9. state = "heard" =>
           /\ Row("acls", u, o) \in db
           /\ \A k \in DoneJobs \cap TenantJobs : org[k] = o => <<o, u>> \in live'
    <2> SUFFICES ASSUME state = "heard"
                 PROVE  /\ Row("acls", u, o) \in db
                        /\ \A k \in DoneJobs \cap TenantJobs : org[k] = o => <<o, u>> \in live'
      OBVIOUS
    <2>1. Accepts(u, Topic(c)) /\ Row("acls", u, o) \in db
      BY <1>5 DEF Accepts, Topic
    <2>2. ASSUME NEW k \in DoneJobs \cap TenantJobs, org[k] = o
          PROVE  <<o, u>> \in live'
      <3>1. <<o, "mqtt">> \in sources /\ pc[k] = "done"
        BY <2>2 DEF ProvInv, GrafanaInv, DoneJobs
      <3>2. o \in OrgIDs /\ MachineRows(o) \subseteq db
        BY <2>2, DoneFacts DEF Bundle
      <3>3. o \in Dashboards(Topic(c))
        BY <3>1, <3>2 DEF Dashboards, Topic
      <3> QED BY <1>5, <2>1, <3>3
    <2> QED BY <2>1, <2>2
  <1>10. Sound(Settings(i))' /\ Outcome(ingest[i].state, Settings(i))'
    <2>1. Sound(Settings(i))'
      BY <1>1, <1>2, <1>7 DEF Sound, DoneJobs
    <2>2. Outcome(ingest[i].state, Settings(i))'
      <3>1. ingest'[i].state = state /\ Settings(i)' = c
        BY <1>7
      <3>2. state \in {"mute", "heard"} /\ c.username # Unset
        BY <1>2, <1>5
      <3>3. state = "mute" => c.tenant # org[c.token]
        BY <1>5, <1>6
      <3> HIDE DEF c
      <3>4. UNCHANGED <<db, pc, org, DoneJobs>>
        BY <1>1 DEF DoneJobs
      <3> QED BY <1>9, <3>1, <3>2, <3>3, <3>4 DEF Outcome
    <2> QED BY <2>1, <2>2
  <1>11. ASSUME NEW k \in Ingests \ {i}
         PROVE  Sound(Settings(k))' /\ Outcome(ingest[k].state, Settings(k))'
    BY <1>1, <1>7, <1>8 DEF Sound, Outcome, DoneJobs, AccessInv, SettingsInv
  <1>12. SettingsInv'
    BY <1>7, <1>10, <1>11 DEF SettingsInv
  <1>13. LiveInv'
    <2>1. \A x \in live' : x \in live \/ (x = <<o, u>> /\ o = org[c.token] /\ o \in OrgIDs)
      BY <1>4, <1>5, <1>6
    <2>2. o = org[c.token] => Row("users", u, o) \in db
      BY <1>3 DEF UserRows
    <2> QED BY <1>1, <1>3, <2>1, <2>2 DEF AccessInv, LiveInv, DashboardsShowTheirOwn
  <1>14. HashInv'
    BY <1>1 DEF AccessInv, HashInv, DoneJobs
  <1> QED BY <1>12, <1>13, <1>14 DEF AccessInv

\* A step of a job keeps what is known of accounts, ingests and dashboards.
LEMMA JobStep ==
  ASSUME ProvInv, AccessInv, NEW j \in Jobs, Job(j)
  PROVE  AccessInv'
PROOF
  <1>1. (Step(j) \/ Fails(j) \/ Crash(j)) /\ ingest' = ingest /\ live' = live
    BY DEF Job
  <1>2. HashInv'
    BY HashStep DEF AccessInv
  <1>3. ASSUME NEW i \in Ingests
        PROVE  Sound(Settings(i))' /\ Outcome(ingest[i].state, Settings(i))'
    <2>1. Settings(i)' = Settings(i) /\ ingest'[i].state = ingest[i].state
      BY <1>1 DEF Settings
    <2>2. PICK c, state : c = Settings(i) /\ state = ingest[i].state
      OBVIOUS
    <2>3. Sound(c)' /\ Outcome(state, c)'
      BY <1>1, <2>2, OutcomeStays DEF AccessInv, SettingsInv
    <2> QED BY <2>1, <2>2, <2>3 DEF Sound, Outcome
  <1>4. SettingsInv'
    BY <1>1, <1>3 DEF AccessInv, SettingsInv
  <1>5. LiveInv'
    BY <1>1, DoneGrows DEF AccessInv, LiveInv, DashboardsShowTheirOwn
  <1> QED BY <1>2, <1>4, <1>5 DEF AccessInv

\* Both invariants hold in every state.
LEMMA AccessInvariant == AccessSpec => [](ProvInv /\ AccessInv)
PROOF
  <1>1. AccessInit => ProvInv /\ AccessInv
    <2> SUFFICES ASSUME AccessInit PROVE AccessInv
      BY ProvInit DEF AccessInit
    <2>1. DoneJobs = {}
      BY DEF AccessInit, Init, DoneJobs
    <2>2. \A i \in Ingests : Settings(i) = [username |-> Unset, token |-> Unset, tenant |-> 0]
      BY DEF AccessInit, Settings, Config, Override, NoEnv, NoFlags
    <2> QED BY <2>1, <2>2 DEF AccessInit, AccessInv, HashInv, SettingsInv, Sound, Outcome, LiveInv,
                              DashboardsShowTheirOwn
  <1>2. ProvInv /\ AccessInv /\ [AccessNext]_<<vars, accessVars>> => AccessInv'
    <2>1. ASSUME ProvInv, AccessInv, UNCHANGED <<vars, accessVars>>
          PROVE  AccessInv'
      <3>1. UNCHANGED <<orgs, created, sources, db, tx, pc, org, faults, hashes, ingest, live>>
        BY <2>1 DEF vars, grafanaVars, accessVars
      <3>2. DoneJobs' = DoneJobs /\ \A i \in Ingests : Settings(i)' = Settings(i)
        BY <3>1 DEF DoneJobs, Settings
      <3> QED BY <2>1, <3>1, <3>2 DEF AccessInv, HashInv, SettingsInv, Sound, Outcome, LiveInv,
                                      DashboardsShowTheirOwn
    <2> QED BY <2>1, JobStep, StartStep, PublishStep DEF AccessNext
  <1> QED BY <1>1, <1>2, AccessImplementsProvisioning, ProvInvariant, PTL DEF AccessSpec

\* AccessTypeOK: types, and in particular settings that an ingest has validated
\* are those of a job, or none.
THEOREM AccessTypes == AccessSpec => []AccessTypeOK
PROOF
  <1>1. ASSUME ProvInv, AccessInv PROVE AccessTypeOK
    <2>1. hashes \subseteq Usernames \X Jobs
      BY <1>1 DEF AccessInv, HashInv, Usernames
    <2> QED BY <1>1, <2>1 DEF ProvInv, JobsInv, AccessInv, SettingsInv, Sound, Outcome, LiveInv,
                              AccessTypeOK
  <1> QED BY <1>1, AccessInvariant, PTL

\* ReportedAccessWorks: whoever starts ingest with what the CLI has reported is
\* let in, is heard when they publish, and is seen on their tenant's dashboard.
THEOREM WhatIsReportedWorks == AccessSpec => []ReportedAccessWorks
PROOF
  <1>1. ASSUME ProvInv, AccessInv, NEW i \in Ingests, NEW j \in DoneJobs, GivenAccess(i, j)
        PROVE  /\ ingest[i].state \notin {"invalid", "refused", "mute"}
               /\ ingest[i].state = "heard" /\ (\E k \in DoneJobs \cap TenantJobs : org[k] = org[j])
                     => <<org[j], Username[j]>> \in live
    <2>1. j \in Jobs /\ Username[j] \in Usernames /\ org[j] \in OrgIDs /\ org[j] > -1
      BY <1>1, DoneFacts DEF OrgIDs
    <2>2. Settings(i) = Reported(j)
      <3>1. Username[j] # Unset /\ j # Unset
        BY <2>1, AccessAssumption
      <3> QED BY <1>1, <2>1, <3>1 DEF GivenAccess, Settings, Config, Override, Reported, NoFlags
    <2>3. Outcome(ingest[i].state, Reported(j))
      BY <1>1, <2>2 DEF AccessInv, SettingsInv
    <2>4. /\ Reported(j).username = Username[j] /\ Reported(j).token = j
          /\ Reported(j).tenant = org[j]
      BY DEF Reported
    <2> QED BY <2>1, <2>3, <2>4, AccessAssumption DEF Outcome
  <1>2. ProvInv /\ AccessInv => ReportedAccessWorks
    BY <1>1 DEF ReportedAccessWorks
  <1> QED BY <1>2, AccessInvariant, PTL

\* MuteOnlyWithoutTenant: an ingest is connected and not heard only if its
\* tenant is not that of the account it uses.
THEOREM OnlyAWrongTenantIsMute == AccessSpec => []MuteOnlyWithoutTenant
PROOF
  <1>1. ASSUME ProvInv, AccessInv, NEW i \in Ingests, ingest[i].state = "mute"
        PROVE  /\ Row("users", Settings(i).username, Settings(i).tenant) \notin db
               /\ \E j \in DoneJobs : Settings(i).username = Username[j] /\ Settings(i).token = j
    <2> DEFINE c == Settings(i)
    <2>1. Sound(c) /\ c.username # Unset /\ c.tenant # org[c.token]
      BY <1>1 DEF AccessInv, SettingsInv, Outcome
    <2>2. c.token \in DoneJobs /\ c.username = Username[c.token]
      BY <2>1 DEF Sound
    <2>3. ASSUME Row("users", c.username, c.tenant) \in db PROVE FALSE
      <3>1. PICK v \in Usernames : /\ Row("users", c.username, c.tenant) \in UserRows(v, c.tenant)
                                   /\ UserRows(v, c.tenant) \subseteq db
        <4>1. Row("users", c.username, c.tenant) \notin Bundle(c.tenant)
          BY RowFields
        <4> QED BY <1>1, <2>3, <4>1, RowFields DEF ProvInv, TxnInv, TablesInv
      <3>2. Row("acls", c.username, c.tenant) \in db
        BY <3>1, RowFields DEF UserRows
      <3>3. Accepts(c.username, Topic(c))
        BY <3>2 DEF Accepts, Topic
      <3> QED BY <1>1, <2>1, <3>3, AcceptsOwn
    <2> QED BY <2>2, <2>3
  <1>2. ProvInv /\ AccessInv => MuteOnlyWithoutTenant
    BY <1>1 DEF MuteOnlyWithoutTenant
  <1> QED BY <1>2, AccessInvariant, PTL

\* DashboardsShowTheirOwn: nobody is seen on the dashboard of an organisation
\* they are not a user of.
THEOREM DashboardsAreSeparate == AccessSpec => []DashboardsShowTheirOwn
PROOF
  <1>1. ProvInv /\ AccessInv => DashboardsShowTheirOwn
    BY DEF AccessInv, LiveInv
  <1> QED BY <1>1, AccessInvariant, PTL

\* What is proved of the jobs holds with ingests and a broker around them.
COROLLARY ProvisioningHolds ==
  AccessSpec => [](ReportedIsComplete /\ SourcesCanLogIn /\ DivergenceCostsAFault)
                /\ ImplementsRegistry
BY AccessImplementsProvisioning, WhatIsReportedIsComplete, DataSourcesCanLogIn,
   DivergenceIsPaidFor, ProvisioningImplementsRegistry, PTL
=============================================================================
