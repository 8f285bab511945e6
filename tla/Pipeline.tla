------------------------------ MODULE Pipeline ------------------------------
(***************************************************************************)
(* Telemetry from ingest's publisher to the hypertables, across the        *)
(* processes: RunMQTTv3Publisher (cmd/ingest/mqtt_v3.go), the replicas of  *)
(* persist and their sessions with the broker (MqttSession), and in each   *)
(* replica the batching layer, reduced to what TelemetrySink promises of   *)
(* it: rows are written or dropped in batches, and what is pending when    *)
(* the process ends is lost.                                               *)
(*                                                                         *)
(* Ingest publishes one message of a topic at a time, at QoS 1, and        *)
(* publishes it again if the connection is lost before the PUBACK; persist *)
(* subscribes at QoS 0.  A message is a piece of telemetry and the number  *)
(* of the attempt to publish it.                                           *)
(***************************************************************************)
EXTENDS MqttSession

CONSTANTS
    MaxTelemetry,   \* bound: pieces of telemetry, numbered in their order
    MaxFaults       \* bound: lost connections of ingest, token errors, failed writes

Telemetry == 1..MaxTelemetry

ASSUME PipelineAssumption ==
    /\ {MaxTelemetry, MaxFaults} \subseteq Nat
    /\ Messages = Telemetry \X (1..(1 + MaxFaults))

VARIABLES
    publisher,  \* its state, the telemetry it is at and the attempt
    online,     \* ingest's connection
    outages,    \* connections ingest has lost so far
    failed,     \* messages whose token had an error, still stored by the client
    errors,     \* tokens with an error so far
    routed,     \* history: <<message, replica>>, sent by the broker
    lost,       \* history: <<message, replica>>, lost by that replica
    stored,     \* <<message, replica>>: rows in the database
    writeFaults \* failed writes so far

ingestVars == <<publisher, online, outages, failed, errors>>
sinkVars == <<lost, stored, writeFaults>>
pipelineVars == <<vars, ingestVars, routed, sinkVars>>

PipelineInit ==
    /\ Init
    /\ publisher = [state |-> "select", item |-> 0, attempt |-> 0]
    /\ online = TRUE
    /\ outages = 0
    /\ failed = {}
    /\ errors = 0
    /\ routed = {}
    /\ lost = {}
    /\ stored = {}
    /\ writeFaults = 0

\* At most one fault of a kind.
MayFail(kind) == kind = 0 /\ outages + errors + writeFaults < MaxFaults

-----------------------------------------------------------------------------
(* Ingest *)

Message == <<publisher.item, publisher.attempt>>

Take ==
    /\ publisher.state = "select"
    /\ publisher.item < MaxTelemetry
    /\ publisher' = [state |-> "publish", item |-> publisher.item + 1, attempt |-> 1]
    /\ UNCHANGED <<vars, online, outages, failed, errors, routed, sinkVars>>

\* The broker receives a message and sends it to a replica, if there is one.
ToBroker(m) ==
    /\ online
    /\ Publish(m)
    /\ routed' = routed \cup (inFlight' \ inFlight)
    /\ UNCHANGED <<online, outages, errors, sinkVars>>

BrokerReceives ==
    /\ publisher.state = "publish"
    /\ ToBroker(Message)
    /\ publisher' = [publisher EXCEPT !.state = "ack"]
    /\ UNCHANGED failed

\* Mutant: the result of the token is tested the wrong way round.
Acknowledged_Retries ==
    /\ publisher.state = "ack"
    /\ online
    /\ publisher' = [publisher EXCEPT !.state = "publish", !.attempt = @ + 1]
    /\ UNCHANGED <<vars, online, outages, failed, errors, routed, sinkVars>>

\* The PUBACK, whether or not there was a replica.
Acknowledged ==
    /\ publisher.state = "ack"
    /\ online
    /\ publisher' = [publisher EXCEPT !.state = "select"]
    /\ UNCHANGED <<vars, online, outages, failed, errors, routed, sinkVars>>

\* The error is logged; the client still has the message.
TokenError ==
    /\ publisher.state \in {"publish", "ack"}
    /\ MayFail(errors)
    /\ errors' = errors + 1
    /\ failed' = failed \cup {<<publisher.item, publisher.attempt + 1>>}
    /\ publisher' = [publisher EXCEPT !.state = "select"]
    /\ UNCHANGED <<vars, online, outages, routed, sinkVars>>

LateDelivery(m) ==
    /\ m \in failed
    /\ ToBroker(m)
    /\ failed' = failed \ {m}
    /\ UNCHANGED publisher

\* Mutant: the token of a message that was not sent yet comes back without error.
Resent_Never == [publisher EXCEPT !.state = "select"]

\* What is not acknowledged is sent again.
Resent ==
    IF publisher.state = "ack"
    THEN [publisher EXCEPT !.state = "publish", !.attempt = @ + 1] ELSE publisher

IngestLosesConnection ==
    /\ online
    /\ MayFail(outages)
    /\ online' = FALSE
    /\ outages' = outages + 1
    /\ publisher' = Resent
    /\ UNCHANGED <<vars, failed, errors, routed, sinkVars>>

\* Mutant: AutoReconnect is off.
IngestReconnects_Never == FALSE

IngestReconnects ==
    /\ ~online
    /\ online' = TRUE
    /\ UNCHANGED <<vars, publisher, outages, failed, errors, routed, sinkVars>>

-----------------------------------------------------------------------------
(* Persist *)

Pending(p) == {d \in handled : d[2] = p} \ (stored \cup lost)

SentTo(p) == {d \in inFlight : d[2] = p}

ReplicaStep(p) ==
    /\ \/ Connect(p) \/ ConnectTimesOut(p) \/ Subscribe(p) \/ Restart(p)
       \/ Reconnect(p) \/ Acknowledge(p)
       \/ \E m \in published : Receive(m, p)
    /\ UNCHANGED <<ingestVars, routed, sinkVars>>

\* At QoS 0 the broker does not send again what was on its way.
ReplicaLosesConnection(p) ==
    /\ ConnectionLost(p)
    /\ lost' = lost \cup SentTo(p)
    /\ UNCHANGED <<ingestVars, routed, stored, writeFaults>>

\* The worker's last flush uses a cancelled context: what is pending is lost.
ReplicaExits(p) ==
    /\ Exit(p)
    /\ lost' = lost \cup Pending(p) \cup SentTo(p)
    /\ UNCHANGED <<ingestVars, routed, stored, writeFaults>>

Write(p) ==
    /\ \E S \in SUBSET Pending(p) \ {{}} : stored' = stored \cup S
    /\ UNCHANGED <<vars, ingestVars, routed, lost, writeFaults>>

WriteFails(p) ==
    /\ MayFail(writeFaults)
    /\ writeFaults' = writeFaults + 1
    /\ \E S \in SUBSET Pending(p) \ {{}} : lost' = lost \cup S
    /\ UNCHANGED <<vars, ingestVars, routed, stored>>

-----------------------------------------------------------------------------

PipelineNext ==
    \/ Take
    \/ BrokerReceives
    \/ Acknowledged
    \/ TokenError
    \/ \E m \in failed : LateDelivery(m)
    \/ IngestLosesConnection
    \/ IngestReconnects
    \/ \E p \in Replicas :
          \/ ReplicaStep(p)
          \/ ReplicaLosesConnection(p)
          \/ ReplicaExits(p)
          \/ Write(p)
          \/ WriteFails(p)

(***************************************************************************)
(* Fairness: that of MqttSession; the publisher and its client go on, and  *)
(* workers write what is pending.  Nothing has to fail or to be restarted. *)
(***************************************************************************)
PipelineSpec ==
    /\ PipelineInit
    /\ [][PipelineNext]_pipelineVars
    /\ Fairness
    /\ WF_pipelineVars(Take \/ BrokerReceives \/ Acknowledged)
    /\ WF_pipelineVars(IngestReconnects)
    /\ \A p \in Replicas : WF_pipelineVars(Write(p) \/ WriteFails(p))

-----------------------------------------------------------------------------
(* Properties *)

\* Every variable has its type, and a row was handled by the replica it is from.
PipelineTypeOK ==
    /\ TypeOK
    /\ publisher \in [state : {"select", "publish", "ack"}, item : 0..MaxTelemetry,
                      attempt : 0..(1 + outages)]
    /\ online \in BOOLEAN
    /\ failed \subseteq Messages
    /\ routed \subseteq published \X Replicas
    /\ lost \subseteq routed
    /\ stored \subseteq handled \ lost
    /\ {outages, errors, writeFaults} \subseteq Nat
    /\ outages + errors + writeFaults <= MaxFaults

Attempts(t) == {m \in Messages : m[1] = t}

Settled(t) == t < publisher.item \/ (t = publisher.item /\ publisher.state = "select")

\* No replica was subscribed when the broker received it.
Unheard(m) == m \in published /\ \A p \in Replicas : <<m, p>> \notin routed

Lost(m) == \E p \in Replicas : <<m, p>> \in lost

OnItsWay(m) == \E p \in Replicas : <<m, p>> \in inFlight \cup Pending(p)

Stored(t) == \E d \in stored : d[1][1] = t

\* The publisher was told that telemetry is delivered: then it is stored or on
\* its way, or it is lost for one of these reasons: its token had an error,
\* nobody was subscribed, or the replica that had got it lost its connection,
\* failed to write it or was stopped.  An outage of ingest is none of them.
LossIsExplained ==
    \A t \in Telemetry : Settled(t) =>
        \/ Stored(t)
        \/ Attempts(t) \cap failed # {}
        \/ \E m \in Attempts(t) : OnItsWay(m) \/ Unheard(m) \/ Lost(m)

\* The hypertables have no unique key: telemetry is stored twice only if ingest
\* has lost a connection or a token, however replicas come and go.
DuplicatesCostAnOutage ==
    Cardinality(stored) <= Cardinality({t \in Telemetry : Stored(t)}) + outages + errors

\* Telemetry that ingest takes up is stored in the end, whatever connections
\* ingest loses and however replicas come and go, or one of these reasons holds.
EventuallyStored ==
    \A t \in Telemetry :
        publisher.item >= t ~>
            \/ Stored(t)
            \/ errors > 0
            \/ \E m \in Attempts(t) : Unheard(m) \/ Lost(m)

=============================================================================
