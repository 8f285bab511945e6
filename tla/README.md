# Formulatel: a TLA+ model of the telemetry pipeline

Formulatel carries the telemetry of the racing game F1 23 from UDP packets to a
TimescaleDB. This directory holds TLA+ specifications of its concurrent and
failure-prone parts, TLC configurations that check them on small instances, and
proofs, checked by TLAPS, that the central properties hold for every size.
Paths below are relative to `src/formulatel` unless they start with `src/`.

## The system

    game --UDP--> ingest --MQTT, QoS 1--> broker --MQTT--> persist --SQL--> TimescaleDB
                                                                              ^
    administrator --> admin --HTTP--> Grafana ------- reads as a tenant ------+

| component | state | operations | hard behaviour | what makes it correct |
|---|---|---|---|---|
| **ingest: listener** (`f123/f123.go` `Listen`) | socket, packet in hand, `PacketBuffer` | read with a deadline, enqueue, end on cancellation or error | the send does not look at the context | no packet read is dropped; it returns when cancelled |
| **ingest: transformer** (`Consume`, `Route`) | current packet, five telemetry channels, `LatestLapData` | decode, normalise, send one message per packet or one per finished lap | one full channel stops all kinds; a malformed packet panics | every message goes to its topic, once, in order |
| **ingest: lap cache** (`f123/latest_lapdata.go`) | lap count per session and car, in memory | `Get`, `Set` (raises only) | history packets reordered, repeated, lost; restarts | a lap it counts is stored or on its way, but for one per message lost |
| **ingest: publishers** (`cmd/ingest/mqtt_v3.go`) | one message waiting for its token | publish and wait, log a token error | outages, resends, cancellation during an outage | at least once, in order |
| **ingest: process** (`cmd/ingest/main.go`) | context, wait group | start seven goroutines, cancel on error or panic, wait | who cancels whom, who waits for whom | all stop together |
| **persist: handler and router** (`cmd/persist/main.go`, `BatchRouter`) | one goroutine per message, five channels | `Add` starts a goroutine that sends on the table's channel; the closer closes the channels | sends race with closing | a message goes to its table; nothing crashes |
| **persist: table batchers** (`internal/timescale/batcher.go`) | channel, buffer, batch being written, `bufferMu` | receive, buffer, flush when full, on a tick and when stopping; write laps one by one | interleaved flushes, failed writes, cancellation | at most once, all or nothing, bounded batches |
| **TimescaleDB** | five hypertables, a unique constraint on laps | COPY, INSERT ... ON CONFLICT DO NOTHING | failures | the first row of a lap wins |
| **admin** (`cmd/admin/tenants.go`) | Grafana orgs, data sources and users; roles, `tenants`, `accounts`, `telemetry.users` | create a tenant, create a user, install dashboards (not modelled) | a transaction spanning two systems, compensated by a deferred delete | no org without tenant, no tenant without org |
| **mqttutil and persist's subscription** | MQTT connection, the broker's session | connect with a timeout, subscribe once, reconnect | outages with a clean session, several replicas | replicas divide the messages; a subscriber keeps receiving |
| **ingest: configuration** (`cmd/ingest/main.go`, `F123IngestConfig`) | settings, connection | flags over environment, validate, connect, publish under a topic of tenant and user | a setting left out or left over; a broker that drops what is not allowed and says nothing | what the CLI reports lets its driver in and be seen |
| **broker** (external) | sessions, subscriptions, the tables of the admin CLI | authenticate, authorise, deliver to one of a shared group | QoS 1 on one side, QoS 0 on the other | each account publishes for its tenant only |
| **replay** (`cmd/replay/main.go`) | captured packets | send them to ingest again and again | old packets among new ones | nothing stored becomes false by it |
| **persist's configuration, dashboards, `FormulaTelPersist`** | none | validation of strings, one request, an unused loop | | |

Interactions: inside each process goroutines share bounded channels and a
context. In persist SIGINT and SIGTERM cancel it. In ingest an interrupt or the end
of a goroutine does (`main.go:77` also names `os.Kill`, which no process can catch;
SIGTERM is not named and ends ingest outright, as a crash would). Between the
processes there is only MQTT, with QoS 1 on the publishing side.

## Modules

| module | models | checked by |
|---|---|---|
| `PersistBatching` | the persist service: handler, router, batchers, database writes, shutdown | `persist_*` |
| `TelemetrySink` | abstract: what persist promises to a publisher, without goroutines, channels or buffers | `persist_liveness` |
| `PersistBatchingProofs`, `PersistSinkProofs` | theorems about `PersistBatching`; that it implements `TelemetrySink` | TLAPS |
| `Ingest` | the ingest process: listener, transformer, publishers, context, MQTT client | `ingest_*` |
| `SessionLaps` | finished laps from the game, live or replayed, to their rows, across ingest and persist | `session_laps` |
| `DriveRecord` | the content of packets, messages and columns: times, lap numbers, validity, wheels | `drive_record`, `drive_record_lap_time` |
| `TenantProvisioning` | the admin CLI's creation of tenants and users, over Grafana and PostgreSQL | `tenants` |
| `TenantRegistry` | abstract: what readers of the authentication tables may rely on | `tenants` |
| `DriverAccess` | extends `TenantProvisioning`: configuration of ingest, the broker's checks, the live dashboards | `tenants` |
| `MqttSession` | connections and subscriptions of replicas of persist, and the broker's sessions | `pipeline`, `mqtt_session_stays` |
| `Pipeline` | extends `MqttSession`: from ingest's publisher to the hypertables, across all processes | `pipeline` |
| `IngestProofs`, `SessionLapsProofs`, `DriveRecordProofs`, `TenantProvisioningProofs`, `DriverAccessProofs`, `PipelineProofs` (with `MqttSession`) | theorems about the module each is named after | TLAPS |
| `MCPersistBatching`, `MCIngest`, `MCSessionLaps`, `MCDriveRecord`, `MCDriverAccess`, `MCMqttSession`, `MCPipeline` | instances: model values, routing functions, symmetry | |

`Ingest` abstracts a packet to its topic and its number of messages and treats
losses and resends between client and broker in detail; `SessionLaps` follows
the content of the one kind of message that is not a plain copy of a packet,
from the game's list to the table, and abstracts the channels to one queue.
`PersistBatching` starts where the broker hands a message to the handler.
`DriveRecord` follows the content of all kinds through ideal processes that only
reorder. `Pipeline` composes publisher, broker, replicas and database for one topic;
of the batching layer it keeps what `TelemetrySink` promises. The modules overlap
on purpose at their borders: what `Ingest` promises (an unbroken ordered stream to
the client) is more than `SessionLaps` uses.

Definitions named `X_Something` with the comment "Mutant:" are not part of a
model: each is a plausible bug, used to show that a property can fail.

### PersistBatching

*State.* `senders` are the goroutines of `Add` blocked on a channel; `chan`,
`buffer`, `batch`, `pc`, `locked` are per table the channel `msgChan`, `b.buffer`,
the rows of the `CopyFrom` in progress, where `flusherWorker` is, and whether
`bufferMu` is held at its select; `lapWriters` are the `WriteLapRow` goroutines;
`rows` is the database, a count per table and delivery so that duplicates can be
seen. `ignored`, `lost`, `faults` are history: what ON CONFLICT dropped, what was
given up after an error that the code logs, how many writes failed.

*Actions.* `Arrive` is the subscription callback with `Add`; `Send` and
`SendPanics` are what the goroutine does then. `ReceiveRow`, `ReceiveLap`,
`ReceiveNilField`, `Tick`, `StopWorker` are the branches of the worker's select;
a full buffer is flushed in the iteration that fills it, so `Buffer` and `Flush`
are parts of `ReceiveRow`. A flush empties the buffer at once and ends with
`CopySucceeds` or `CopyFails`; meanwhile the worker does nothing else.
With a cancelled context `CopyFrom` fails before it reaches the server, which
`Flush` does in one step. `Interrupt`, `CloseNext` and `Exit` are the signal, the
closer goroutine and the return of `main` after its sleep. The sleep itself is
not timed: `Exit` may come at any moment after the signal, except that
`connPool.Close` waits for a `CopyFrom` in progress.

*A row is named by its delivery.* What its columns hold is in `DriveRecord`. A redelivered
MQTT message is another delivery. `Unset` says which of Tires and the wheels a delivery
lacks, since two row builders dereference these unchecked (`Dereferenced`).

### Ingest

*State.* `listener`, `transformer`, `publisher[t]` say where the goroutines are;
`inHand`, `packets`, `outbox`, `chan`, `current` are what they hold; `accepted`,
`settled`, `received` are the history of packets read, messages whose token was
waited for, and messages the broker has seen; `failed` is what the client has
stored of messages whose token had an error.

*Actions.* `CheckContext`, `ReadPacket`, `ReadTimeout`, `SocketError`, `Enqueue`
are the steps of `Listen`, which looks at the context only between reads.
`Consume` is `Consume` with `handlePacket` and the decoding of `Route`;
`SendMessage` is one send of `Route`, which blocks. `TakeMessage`,
`BrokerReceives`, `Acknowledged`, `TokenError` are a round of a publisher;
`ConnectionLost`, `Reconnect`, `LateDelivery` are the client. `Cancel` is
`serverCancel`, called by a signal, by a socket error and by the deferred
function that recovers the transformer's panic.

### SessionLaps

The game (`FinishLap`, `AmendLastLap`, `Flashback`, `EndSession`, `SendHistory`) is
external, modelled from `src/formulatel/f123` and its packet description. The list a
history packet shows ends with the lap in progress, unless the session is over.
`HandleHistory` is `handlePacket` and `Route` with `normalizeSessionHistoryData`, the
cache and the sends; the cache is raised before the sends, as in the code. `Capture`
is `handleCapture`, which writes some of the packets to files, and `Replay` is
`cmd/replay`, which sends those again at any later time. `RestartIngest` loses the
cache and what is queued. `WriteLapRow` is persist's insert.

### DriveRecord

*State.* `drive` is what each car has really driven, with exact times; `wire`,
`latest`, `clock`, `messages`, `tables`, `session` are packets on their way, the lap
cache, the time at which ingest transforms, telemetry between the processes, the
hypertables and the lap table. Properties compare the tables with `drive`.

*Actions.* `SendPacket` sends one of `Packets`, whose fields are those of
`f123/model.go`: a sector as minutes and a rest (`Minutes`, `InMS`), validity as bit
flags, wheels as arrays in the game's order, most things for every car.
`HandlePacket` is `Route` with the normalise functions, which take the player's entry,
drop the minutes of sectors, give wheels their names and number finished laps from 0.
`StoreRow` is a row builder and `writeBatch`, which copies by column names taken from
the iteration of a map (`RowKeys`); `WriteLapRow` is the insert. A value that is copied
under one name is represented by a `Reading`: which car's and which wheel's it is.

### Pipeline

*State.* `publisher` is ingest's publisher of one topic with the number of the attempt,
`online` its connection, `failed` what the client still has of messages whose token had
an error. `routed`, `handled`, `lost`, `stored` follow attempts from the broker into a
replica and on to the database or to the reason of a loss.

*Actions.* `Take`, `BrokerReceives`, `Acknowledged`, `TokenError`, `LateDelivery` are a
round of the publisher and its client; `IngestLosesConnection` makes the client send
again what is not acknowledged (`Resent`), as a new attempt that the broker may give to
another replica. Persist's side is `MqttSession`'s; `ReplicaLosesConnection` loses what
is on its way at QoS 0, `ReplicaExits` what a replica holds (its last flush uses a
cancelled context), `Write` and `WriteFails` settle any part of it.

### DriverAccess

*State.* `hashes` says which job made the token whose hash is in `auth.accounts`,
`ingest` is the state, environment and flags of an ingest, `live` what dashboards have
shown.

*Actions.* `Job` is a step of `TenantProvisioning`. `Start` is the start of
`cmd/ingest`: `Config` puts flags over the environment, `Validate` checks the result
(its token is already replaced by `***`, `main.go:54`, so an empty token passes), and
the broker lets a user in whose token it has the hash of. `Publish` uses `prefixTopic`;
the broker acknowledges a message in either case and hands it on only if the account's
ACL allows its topic, to the dashboards whose data source may read it.

### TenantProvisioning

*State.* `orgs`, `created`, `sources` are Grafana: its organisations, the counter of
their numbers, their data sources. `db` is what PostgreSQL has committed, `tx[j]` what
job `j` has written in its open transaction. `pc[j]` is the statement a job is at,
`org[j]` its `createdOrgID`. A job is one invocation of the CLI.

*Actions.* One per request, in the order of `CreateOrg`; `CreateUser` is the step `user`
of a tenant job, in the transaction it is passed, or a job of its own. Every request
has a failing variant: without effect, and, where the answer can be lost, with it
(`CreateOrgFails`, `AddSourceFails`, `CommitFails`). `Rollback` and `DeleteOrg` are the
deferred functions, last one first; `CreateUser` alone has none, and an error ends it.
`Blocked` is PostgreSQL's wait for another transaction that has the same unique key,
`Violates` the constraint itself. `Crash` may come between any two steps.

The early return for an answer of Grafana without payload (`tenants.go:74-77`) is left
out: the client library always fills the payload of a successful answer.

### MqttSession

*State.* `main[p]` is where replica `p` of persist is; `connection[p]` its connection;
`requested` and `sessions` are SUBSCRIBEs on their way and the broker's subscriptions;
`inFlight` and `handled` follow messages to the callback.

*Actions.* `Connect` and `ConnectTimesOut` are `NewMQTTv3Connection`, whose error makes
`main` exit. `Subscribe` is the one call of `main`: the client drops a subscription it
is given while it reconnects, and nobody looks at the token. `ConnectionLost` ends the
broker's session, which is clean because the options do not say otherwise (`Forget`);
`Reconnect` is `AutoReconnect` with an `OnConnect` that only logs. `Publish` gives a
message to one subscriber, because the topic starts with `$share/persist`; at QoS 0 it
is lost if there is none.

## Runs

| run | question | result |
|---|---|---|
| `persist_safety` | does the batching layer duplicate or misplace a row, exceed a batch or lock itself out? what can it lose, and what can crash it? | no; a failed write costs a batch at most, a shutdown or a panic what has not been flushed; a shutdown, or a message with an unset field |
| `persist_liveness` | is every accepted message settled, and does the process end after a signal? does the service implement `TelemetrySink`? | yes |
| `persist_flush_on_stop` | does the last flush write the buffered rows? | **no**: it uses the cancelled context |
| `ingest_safety` | is each topic an unbroken, ordered, at-least-once stream, and does one failure stop all? | yes |
| `ingest_liveness` | is every packet published if outages end, and does a shutdown end, but for three named ways of hanging? | yes |
| `ingest_listen_returns` | does `Listen` return when cancelled, as its comment says? | **no**: it hangs on a full `PacketBuffer` |
| `session_laps` | does the cache hide more laps that the database lacks than messages were lost, or a row hold what the game never showed? how many rows are out of date? does every finished lap get its row? | no; one per change the game makes; yes, but for the last lap of a session that has ended |
| `drive_record` | do times, lap numbers, validity flags, wheels and readings in the tables mean what their columns say? does time order restore the drive's order? | yes, but sectors of a minute and more are stored without their minutes; yes |
| `drive_record_lap_time` | is `lap_time` of a live row "time since the beginning of current lap"? | **no**: it is the previous lap's time |
| `tenants` | do Grafana and PostgreSQL agree, but for one organisation per fault? is what was reported complete, and stays so? does a reader see parts of a tenant? does every invocation end? does what was reported let a driver in and be seen, by whom, and who is mute? | yes, yes, never, yes; yes, by his own tenant only, and only who gives a wrong tenant |
| `pipeline` | do two replicas ever handle the same message? what may telemetry be lost or stored twice for? does a replica hang while it starts? | no; the reasons named in `LossIsExplained`, a lost connection or token of ingest; no |
| `mqtt_session_stays` | does persist keep receiving? | **no**: after a reconnection it has no subscription |

The four runs with answer **no** in bold are violations: each checks a sentence of
the repository's own comments, and TLC's counterexample shows how the code departs
from it. They are listed under `findings` in `PROJECT.json`.

More departures are inside runs that pass. `SessionRowsAreTrue` says what the sector
columns lack (`f123.go:440-442` take the rest in milliseconds and not the minutes).
`LossIsExplained` names what an acknowledged message may still be lost for, since
persist subscribes at QoS 0. `MuteOnlyWithoutTenant` names how an ingest publishes into
the void: a tenant that is not given is 0, and 0 is valid (`f123.go:529`).
`CrashOnlyAtShutdown` names the two kinds of panic in persist, both of which the model
takes: a send on a channel that the closer has closed (`SendPanics`, `batcher.go:451` and
`:493`), for a message that arrives or waits during a shutdown; and the dereference of an
unset field (`ReceiveNilField`), which is Tires, below a comment that says they may be nil,
or one of their wheels in a vehicle message (`batcher.go:117-132`), or a wheel in a wheel
message (`batcher.go:167-201`). `NothingForgotten` names what disappears without a log: a
stopped worker does not drain its channel (the TODO at `batcher.go:275-276`), an exiting
process waits for a `CopyFrom` only, and a panic takes the memory along. What it excludes is
that a live worker forgets a row, or that one that stops has received rows it gives no
account of. `StopsOrSticks` names the three ways in which a shutdown of ingest hangs: the
listener or the transformer on a full channel whose consumer is gone (`f123.go:115`,
`:188`), and a publisher in `token.Wait` (`mqtt_v3.go:54`) while the broker stays away.
`CacheIsBacked` says what a lost message costs for good: the lap it carried.

### Bounds

Every bound is a constant whose name starts with `Max`, or a channel capacity.

* *Capacities.* `ChanCap` (100 in the code) and `BufferCap` (1000) are 1, `BatchSize`
  (500) is 2. One is the smallest channel that can be full and empty, two the
  smallest batch that can be partial and full; larger values only add states in
  which nothing blocks. The theorems lift these and all other bounds from the safety
  properties and the two refinements.
* *Messages.* `persist_safety` has seven deliveries: three of the vehicle table (a full
  batch and one over it, one of them without tires), two of the wheel table (one of them
  without a wheel), two of one lap. Three tables show what several workers do to each
  other; the five of the code differ in their columns, and in what the row builders of
  these two dereference.
  `persist_liveness` has a full batch, a lap and a message without data: its fairness is
  costly, and batches, their loss and the shutdown are what the refinement is about; that
  a lap may be superseded is exercised by `persist_safety`.
* *Faults.* One failed write, one lost connection, one token error, one change by
  the game, one restart and one lost message can each come at any moment and,
  where a run has several kinds, together; in `pipeline` any two of three kinds,
  beside a lost connection and a restart of each replica.
* *Sessions and drives.* One session of two laps, one datagram in flight and one
  captured packet: that an older list comes after a newer one is exercised by the
  replay, that a list is out of date when it arrives by the datagram. A drive of two
  laps with one cut sector, of sectors below and above a minute, and two packets of
  which one may overtake the other: two are enough to compare rows of different tables
  and times.
* *Ingest.* Two topics: the lap topic, with zero to two messages a packet, and one
  with one message each. Three packets fill the socket's hand, the buffer and the
  transformer at once. `ingest_listen_returns` has no outage and no failed publish: the
  hang it shows needs neither.
* *Tenants.* Three tenant jobs and a user job: two want one organisation name, two
  pairs want one user name, in different places of their transactions. Two faults are
  one for the job and one for its compensation, or one for each of two jobs.
* *Replicas.* Two replicas, so that one may be lost while the other is served; one
  piece of telemetry with up to three attempts to publish it, one lost connection and
  one restart per replica. Pieces meet in a replica's pending rows only, which
  `persist_safety` examines with several.
* *Symmetry* is used in safety runs only, over deliveries of one table and kind and
  over lap values; no operator tells these apart.

### Fairness

`FairSpec` of each module states what Go and the network give. Goroutines that can
run do (WF). `select` chooses at random among ready branches, and blocked senders
of a channel are served in order, so a branch or a send that keeps becoming
possible is taken in the end (SF). A write ends one way or the other, by an
answer or by the TCP timeouts of its connection (WF). In `Ingest` nothing makes an
outage end: `EventuallySettled` has it as a premise (`OutagesEnd`), and `StopsOrSticks`
holds without it. The game repeats its history packets for ever, and not all
packets that show the current laps are lost (SF). Requests of
the admin CLI are answered or fail (WF of a job's steps and failures together). persist's
`main` goes on, a connect ends one way or the other, and an open connection delivers
(WF). In `Pipeline` the publisher goes on, its client reconnects, and workers write or
fail to write what is pending (WF); there, and in `MqttSession`, that a client reconnects
(`AutoReconnect`, with a broker that comes back) is assumed, because their liveness
properties say nothing of a broker that stays away; a replica need not be restarted, so that telemetry
may find nobody subscribed for ever. No fairness is assumed of arrivals, signals, faults, restarts, or outages ending in a particular order.

## Proofs

Every invariant that a passing run checks is also a theorem, for every value of the
constants, and so are the refinements of `TelemetrySink` and `TenantRegistry`. What is
assumed of the constants is the named ASSUME of each module (`RoutingAssumption` and
`SizeAssumption`, `IngestAssumption`, `JobsAssumption`, ...), which TLC evaluates on each
run: that sizes are positive, bounds natural numbers, a routing function total.

The checked properties are seldom inductive. Each section names what is, each part
relative to the ones before.

### PersistBatching

`StoredOnceInItsTable`, for instance,
is preserved by a `CopySucceeds` only if no row of the batch is stored already and
no row is twice in it, which depends on where else a delivery may be. Inductive are:

1. `TypeOK`: `TypeCorrect`.
2. `Located`: whatever is in a channel, buffer, batch or table has that table's
   payload and has arrived; the lap table has no buffer or batch; only a writing
   worker has a batch; no lock is leaked. From it `NeverLeaksALock`: the row builder
   never fails, so the path that skips the unlock is dead.
3. `Exclusive`: no delivery is twice in, or in two of, channel, buffer, batch,
   senders, lap writers and settled. From it `AtMostOneRow` and `AlwaysOnePlace`.
4. `AllAccounted`: a routed delivery is in one of these places; and `OrderlyStop`: channels
   are closed and workers stop only after the signal, a stopped worker has an empty buffer,
   the process does not leave `main` during a `CopyFrom`. From both (`WhereItIs`)
   `NeverForgotten`: what is not settled is in the hands of somebody alive, or one of the
   two named losses.
5. Beside these: `NeverMoreThanABatch`, `NoCrashWhileServing` (strengthened by
   "channels are closed only after the context is cancelled", and resting on `Located`: the
   builder of a table only sees that table's payload), `FirstLapRowWins`,
   and `ABatchAFault` (strengthened by the finiteness of `lost`, and resting on
   the bound of a batch).

The effect lemmas (`FlushEffect`, `ReceiveRowEffect`, `OwnFlushEffect`,
`ReceiveLapEffect`) state once what a branch of the worker does under `TypeOK` and
`Located`, so that the step lemmas do not expand it again.

`PersistImplementsSink` has one lemma per action: a step of `TelemetrySink`, or a
stutter. `Exclusive` is what makes it possible: only because a delivery is in one place
do the cases of `Status`, which map a place to what the sink calls it, exclude each other.
`WritingRows`, that a `CopyFrom` in progress has rows, is new: a failed write must cost
the sink something.

### Ingest

1. `ShapeInv`: types; the packets read are numbered (`Numbered`), those in hand and in
   `PacketBuffer` are the last ones read (`Queued`), a goroutine holds work exactly while
   it says so (`Working`), what is left of a packet goes to one topic (`OneTopic`). From
   it `IngestTypes` and `NobodyStopsAlone`.
2. `FlowIntact`: for every topic, what is settled, with the publisher, in the channel and
   still to send is in order and without repetition, and is all that the packets taken
   from the buffer are due. With `Queued` it is `StreamsAreIntact`.
3. `InOrder`: as long as no publish has failed, the broker has received only what is settled
   or with the publisher, in order. It rests on the order of `FlowIntact`: what a topic is
   given next comes after all it has had.

### SessionLaps

A row is as good as the packet it comes from: `ReportInv` says that the game has shown
the laps it lists, each history packet under way or captured for replay, each lap message
and each row. It gives `RowsAreTrue`. `TheCacheIsBacked` is inductive beside it, with the finiteness of
the set it counts (`LossesPay`): a step that does not touch the cache suppresses a lap only
by removing the message that carries it (`SuppressedBy`), which a loss does to one message
and any other step only by storing it or handing it on.
`StaleRowsCostAChange` is not, and no bound on stale rows alone is: a row becomes stale
when an old message arrives, long after the change that is to blame. `ChangesPay` counts
what a change costs at once: `Contested` are the laps of which the game has shown
something that its list does not say (now, or any more); only a change makes one
contested, and stale rows are among them.

### DriveRecord

Packets and messages are about a drive that has gone on since they were sent. What stays
true of them is what they say of laps that are over (`LapsStay`): completed laps are only
ever added. `Told` carries that from the packets on the wire through the messages to the
rows, `Ordered` relates the time of each live stamp to the place it tells of and to what
is still on the wire. With `Forms` (types) and `ReadingsKeepTheirPlace` they are the
inductive invariant `DriveInv`. The theorems then are about data: validity flags give back
the sectors they were made of (`FlagsAreRead`), a lap's stored sectors fall short by whole
minutes (`MinutesAreMissing`, for every length of a minute), a copy by column names gives
each column its value in whatever order a map is iterated (`CopiesColumns`).

### TenantProvisioning and DriverAccess

`ProvInv` follows a job through its transaction: organisations are numbered
(`JobsInv`), a transaction holds what its job has written so far, unique keys are
unique across tables and open transactions, and a tenant's rows are all there or none
(`TxnInv`); what Grafana has for jobs that have not failed (`GrafanaInv`); who a data
source belongs to (`SourceInv`). The steps have five shapes (`Aborts`, `Moves`,
`Creates`, `Writes`, `Commits`), and what is about the tables is proved once per shape. `DivergenceIsPaidFor` needs a debt that is incurred when the fault happens:
`Debt` are the organisations that the systems disagree on, and those a running job will
still delete although their tenant is committed; it grows by at most one with each fault.
`ProvisioningImplementsRegistry` is `TablesInv` read as a refinement: a commit is the one step readers of the tables see.

An `AccessSpec` step is a step of provisioning or none (`AccessImplementsProvisioning`), so
`ProvInv` holds in `DriverAccess` (`ProvisioningHolds`). `AccessInv` adds who has
an account with which job's token (`HashInv`), that a user name and a token in somebody's
settings are from the same job and what follows for the connection (`SettingsInv`), and
who is seen where (`LiveInv`).

### MqttSession and Pipeline

`OneReplica`, that a message is with one replica in one place, is inductive and gives
`ReplicasDivideTheWork`. `PipelineSpec` implements `Spec` of the sessions, so the theorem
holds of the pipeline too. Its own invariant says what the publisher is at
(`PublisherInv`), that what the broker has routed is in flight, handled or lost
(`RoutedInv`), and that settled telemetry has been published or has failed
(`SettledInv`), from which
`NoLossWithoutAReason`. For `ADuplicateCostsAnOutage`, `ExtraInv` counts attempts beside
the first: rows are among attempts, and each further attempt has cost a connection or a
token.

### Only proved, only checked

`AlwaysOnePlace`, `FirstLapRowWins` (rows of the lap table never share a key),
`SessionTypes`, `ProvisioningTypes`, `PipelineImplementsSessions` and
`AccessImplementsProvisioning` are only proved; the runs check the others of these
properties.

Checked by TLC only: liveness (`EventuallySettled`, `Terminates`, `StopsOrSticks`,
`LapsEventuallyStored`, `JobsEnd`, `StartsServing`, `EventuallyStored`), because it
rests on fairness and ENABLED, which are outside TLAPS's reach; and the four violations.
The models avoid what cannot be reasoned about there: `StreamIntact` is stated with sets and
an order, not as a recursive selection from a sequence, and the times in `DriveRecord` are
sums of three sectors, not folds.

## Not modelled, and why

* The byte layout of packets (`binary.Read` over packed structs) and of messages
  (protojson, generated code): formats without state. What their fields mean is in
  `DriveRecord`.
* A message that cannot be marshalled, which the publisher logs and drops
  (`mqtt_v3.go:43-47`): ingest builds none. The values of readings, so that a tire pressure
  loses its fraction (`f123.go:357`) is not seen. A human user named like a machine account,
  `tenant_<id>` (`tenants.go:119`), which `JobsAssumption` excludes. The broker's anonymous
  listener (`src/kubernetes/config/local/formulatel-values.yaml:125-127`), which persist and
  Grafana use inside the cluster: `DriverAccess` is about the authenticated one.
* Tracing, logging, health of the pods, charts, Terraform, dashboards' panels: no
  program logic.
* `admin`'s `CreateDashboard`: one request that overwrites, nothing to go out of step
  with.
* `cmd/persist`'s configuration (a validation of strings before anything runs) and
  `FormulaTelPersist` (a sequential loop that no binary uses).
* Two ingests of one account, which have the same client ID (`cmd/ingest/main.go:120`)
  and end each other's connections: what a broker does then is not in the repository.
  The number of goroutines of `BatchRouter.Add`, which nothing bounds while the database
  is slow. The client ID that `cmd/persist/main.go:93` cuts to 25 characters, which
  panics at the start if `MQTT_CLIENT_ID` is shorter than 18: there is no behaviour to
  check beyond that line.
* Time: tickers, deadlines and the half second of persist's shutdown are
  nondeterministic choices of when a step happens.

## Plan

Modelled first is what carries the telemetry: (1) `PersistBatching` with
`TelemetrySink`, (2) `Ingest`, (3) `SessionLaps`, which cuts across both; then
(4) `TenantProvisioning` with `TenantRegistry` and (5) `MqttSession`; then what composes
them: (6) `Pipeline`, (7) `DriverAccess`, (8) `DriveRecord`. Nothing that changes state
is left to model; what is left are proofs.

The theorems followed in the order of the modules: the invariants of `PersistBatching`
first, then its refinement, then each of the others. What is left is to prove more about what is
only implied so far:

1. `TelemetrySink` and `TenantRegistry` by themselves: that what they promise (a delivery
   is stored at most once; a name is taken once) follows from their own `Spec`, so that
   the refinements hand it down.
2. Action properties: settled work stays settled, reported results stay reported,
   the lap cache only grows between restarts.
3. `Pipeline`: that `Write` and `WriteFails`, as it uses them, are what `TelemetrySink`
   allows.
