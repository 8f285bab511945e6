---------------------------- MODULE PipelineProofs ----------------------------
(***************************************************************************)
(* Theorems about MqttSession and Pipeline, for any replicas, messages and *)
(* bounds.                                                                 *)
(*                                                                         *)
(* A step of the pipeline is a step of MqttSession or leaves its variables *)
(* alone, so PipelineSpec implements Spec, and what is proved of the       *)
(* sessions holds in the pipeline.  There, the inductive invariant says    *)
(*   SessionInv    TypeOK; a message is with one replica, in one place     *)
(*   PipelineTypeOK, PublisherInv   types; what the publisher is at        *)
(*   RoutedInv     what the broker has sent is in one place, or lost       *)
(*   SettledInv    what is settled has been published or has failed        *)
(*   ExtraInv      each attempt but the first has cost a fault of ingest   *)
(***************************************************************************)
EXTENDS Pipeline, FiniteSetTheorems, TLAPS

-----------------------------------------------------------------------------
(* Sessions: each message is with one replica *)

\* No message is with two replicas, or both in flight and handled.
OneReplica ==
    /\ \A m \in Messages, p, q \in Replicas :
          <<m, p>> \in inFlight \cup handled /\ <<m, q>> \in inFlight \cup handled => p = q
    /\ inFlight \cap handled = {}

SessionInv == TypeOK /\ OneReplica

\* A clean session takes what the broker was sending with it.
LEMMA ForgetEffect ==
  ASSUME SessionInv, NEW p \in Replicas, NEW c \in {"none", "lost"},
         Forget(p), connection' = [connection EXCEPT ![p] = c],
         UNCHANGED <<published, handled>>
  PROVE  /\ requested' \cup sessions' \subseteq {q \in Replicas : connection'[q] = "open"}
         /\ connection' \in [Replicas -> {"none", "open", "lost"}]
         /\ inFlight' \subseteq inFlight
         /\ inFlight' \cup handled' \subseteq published' \X Replicas
         /\ OneReplica'
  BY DEF SessionInv, TypeOK, Forget, OneReplica

\* Publish sends a new message to one subscriber at most.
LEMMA PublishEffect ==
  ASSUME SessionInv, NEW m \in Messages, Publish(m)
  PROVE  /\ SessionInv'
         /\ inFlight \subseteq inFlight'
         /\ \A d \in inFlight' \ inFlight : d \in {m} \X Replicas
         /\ published' = published \cup {m}
         /\ UNCHANGED handled
PROOF
  <1>1. \A d \in inFlight \cup handled : d \in published \X Replicas
    BY DEF SessionInv, TypeOK
  <1>2. /\ m \notin published /\ published' = published \cup {m}
        /\ UNCHANGED <<main, connection, requested, sessions, handled, losses, restarts>>
    BY DEF Publish
  <1>3. CASE inFlight' = inFlight
    BY <1>1, <1>2, <1>3 DEF SessionInv, TypeOK, OneReplica
  <1>4. ASSUME NEW r \in sessions, inFlight' = inFlight \cup {<<m, r>>}
        PROVE  /\ SessionInv'
               /\ inFlight \subseteq inFlight'
               /\ \A d \in inFlight' \ inFlight : d \in {m} \X Replicas
    <2>1. r \in Replicas
      BY DEF SessionInv, TypeOK
    <2>2. TypeOK'
      BY <1>1, <1>2, <1>4, <2>1 DEF SessionInv, TypeOK
    <2>3. \A p \in Replicas : <<m, p>> \notin inFlight \cup handled
      BY <1>1, <1>2
    <2>4. OneReplica'
      BY <1>2, <1>4, <2>1, <2>3 DEF SessionInv, OneReplica
    <2> QED BY <1>4, <2>1, <2>2, <2>4 DEF SessionInv
  <1>5. inFlight' = inFlight \/ \E r \in sessions : inFlight' = inFlight \cup {<<m, r>>}
    BY DEF Publish, Receivers
  <1> QED BY <1>2, <1>3, <1>4, <1>5

\* Every step keeps a message with its replica.
LEMMA SessionStep ==
  ASSUME SessionInv, [Next]_vars
  PROVE  SessionInv'
PROOF
  <1> USE DEF messageVars, GoTo, Connection, At
  <1>1. ASSUME NEW p \in Replicas, Connect(p) PROVE SessionInv'
    BY <1>1 DEF Connect, SessionInv, TypeOK, OneReplica
  <1>2. ASSUME NEW p \in Replicas, ConnectTimesOut(p) PROVE SessionInv'
    BY <1>2 DEF ConnectTimesOut, SessionInv, TypeOK, OneReplica
  <1>3. ASSUME NEW p \in Replicas, Subscribe(p) PROVE SessionInv'
    BY <1>3 DEF Subscribe, SessionInv, TypeOK, OneReplica
  <1>4. ASSUME NEW p \in Replicas, Exit(p) PROVE SessionInv'
    <2>1. /\ Forget(p) /\ connection' = [connection EXCEPT ![p] = "none"]
          /\ UNCHANGED <<published, handled, losses, restarts>>
          /\ main' = [main EXCEPT ![p] = "exited"]
      BY <1>4 DEF Exit
    <2> QED BY <2>1, ForgetEffect DEF SessionInv, TypeOK
  <1>5. ASSUME NEW p \in Replicas, Restart(p) PROVE SessionInv'
    <2>1. /\ restarts' \in [Replicas -> 0..MaxRestarts]
          /\ losses' \in [Replicas -> 0..MaxLosses]
      BY <1>5, SessionAssumption DEF Restart, SessionInv, TypeOK
    <2> QED BY <1>5, <2>1 DEF Restart, SessionInv, TypeOK, OneReplica
  <1>6. ASSUME NEW p \in Replicas, ConnectionLost(p) PROVE SessionInv'
    <2>1. /\ Forget(p) /\ connection' = [connection EXCEPT ![p] = "lost"]
          /\ UNCHANGED <<main, published, handled, restarts>>
          /\ losses' \in [Replicas -> 0..MaxLosses]
      BY <1>6, SessionAssumption DEF ConnectionLost, SessionInv, TypeOK
    <2> QED BY <2>1, ForgetEffect DEF SessionInv, TypeOK
  <1>7. ASSUME NEW p \in Replicas, Reconnect(p) PROVE SessionInv'
    BY <1>7 DEF Reconnect, SessionInv, TypeOK, OneReplica
  <1>8. ASSUME NEW p \in Replicas, Acknowledge(p) PROVE SessionInv'
    BY <1>8 DEF Acknowledge, SessionInv, TypeOK, OneReplica
  <1>9. ASSUME NEW m \in Messages, Publish(m) PROVE SessionInv'
    BY <1>9, PublishEffect
  <1>10. ASSUME NEW m \in Messages, NEW p \in Replicas, Receive(m, p) PROVE SessionInv'
    BY <1>10 DEF Receive, SessionInv, TypeOK, OneReplica
  <1>11. CASE UNCHANGED vars
    BY <1>11 DEF vars, SessionInv, TypeOK, OneReplica
  <1> QED
    BY <1>1, <1>2, <1>3, <1>4, <1>5, <1>6, <1>7, <1>8, <1>9, <1>10, <1>11
    DEF Next, Replica, Network

LEMMA SessionInit == Init => SessionInv
  BY SessionAssumption DEF Init, SessionInv, TypeOK, OneReplica

LEMMA SessionInvHolds == Spec => []SessionInv
  BY SessionInit, SessionStep, PTL DEF Spec

\* Variables keep their types, and the broker has subscriptions of connected
\* replicas only, however they lose connections and are restarted.
THEOREM SessionTypes == Spec => []TypeOK
PROOF
  <1>1. SessionInv => TypeOK
    BY DEF SessionInv
  <1> QED BY <1>1, SessionInvHolds, PTL

\* A shared subscription gives a message to one replica only, while replicas
\* connect, subscribe, lose connections and restart in any order.
LEMMA OneReplicaHandles == SessionInv => HandledByOne
PROOF
  <1> SUFFICES ASSUME SessionInv, NEW m \in Messages
               PROVE  Cardinality({p \in Replicas : <<m, p>> \in inFlight \cup handled}) <= 1
    BY DEF HandledByOne
  <1> DEFINE H == {p \in Replicas : <<m, p>> \in inFlight \cup handled}
  <1>1. \A r \in H : H = {r}
    BY DEF SessionInv, OneReplica
  <1> HIDE DEF H
  <1>2. ASSUME H = {} PROVE Cardinality(H) <= 1
    BY <1>2, FS_EmptySet
  <1>3. ASSUME NEW r \in H PROVE Cardinality(H) <= 1
    <2>1. H = {r}
      BY <1>1, <1>3
    <2>2. Cardinality({r}) = 1
      BY FS_Singleton
    <2> QED BY <2>1, <2>2
  <1>4. Cardinality(H) <= 1
    BY <1>2, <1>3
  <1> QED BY <1>4 DEF H

THEOREM ReplicasDivideTheWork == Spec => []HandledByOne
  BY SessionInvHolds, OneReplicaHandles, PTL

-----------------------------------------------------------------------------
(* The pipeline: what the publisher is at, and where a message is *)

PublisherInv ==
    /\ publisher.state # "select" => publisher.item >= 1 /\ publisher.attempt >= 1
    /\ publisher.state = "ack" => Message \in published

RoutedInv == routed = inFlight \cup handled \cup lost

SettledInv ==
    \A t \in Telemetry : Settled(t) => Attempts(t) \cap (published \cup failed) # {}

PipelineInv ==
    /\ SessionInv
    /\ PipelineTypeOK
    /\ PublisherInv
    /\ RoutedInv
    /\ SettledInv

\* The record of the publisher and the counters, taken apart.
LEMMA PublisherType ==
  ASSUME PipelineInv
  PROVE  /\ publisher.state \in {"select", "publish", "ack"}
         /\ publisher.item \in 0..MaxTelemetry /\ publisher.item \in Int
         /\ publisher.attempt \in 0..(1 + outages) /\ publisher.attempt \in Int
         /\ outages \in Nat /\ errors \in Nat /\ writeFaults \in Nat
         /\ MaxTelemetry \in Nat /\ MaxFaults \in Nat
         /\ outages <= MaxFaults
         /\ publisher = [state |-> publisher.state, item |-> publisher.item,
                         attempt |-> publisher.attempt]
  BY PipelineAssumption DEF PipelineInv, PipelineTypeOK

\* The message at hand, and the one a failed token leaves behind, are among
\* those that there may be: an attempt costs a fault.
LEMMA MessageType ==
  ASSUME PipelineInv, publisher.state # "select"
  PROVE  /\ publisher.item \in Telemetry
         /\ Message \in Messages
         /\ MayFail(errors) => <<publisher.item, publisher.attempt + 1>> \in Messages
PROOF
  <1>1. /\ publisher.item \in 1..MaxTelemetry
        /\ publisher.attempt \in 1..(1 + MaxFaults)
    BY PublisherType DEF PipelineInv, PublisherInv
  <1>2. MayFail(errors) => publisher.attempt + 1 \in 1..(1 + MaxFaults)
    BY PublisherType DEF PipelineInv, PublisherInv, MayFail
  <1> QED BY <1>1, <1>2, PipelineAssumption DEF Message, Telemetry

\* A message is an attempt to publish one piece of telemetry.
LEMMA AttemptsOf ==
  \A m \in Messages : /\ m[1] \in Telemetry /\ m[2] \in 1..(1 + MaxFaults)
                      /\ m = <<m[1], m[2]>>
                      /\ \A t \in Telemetry : m \in Attempts(t) <=> m[1] = t
  BY PipelineAssumption DEF Attempts

\* The broker gets a message: it is published, and routed to a replica or none.
LEMMA ToBrokerEffect ==
  ASSUME PipelineInv, NEW m \in Messages, ToBroker(m)
  PROVE  /\ SessionInv' /\ RoutedInv'
         /\ published' = published \cup {m}
         /\ routed' \subseteq published' \X Replicas
         /\ routed \subseteq routed'
         /\ UNCHANGED <<handled, lost, stored, writeFaults, online, outages, errors>>
PROOF
  <1>1. /\ Publish(m) /\ routed' = routed \cup (inFlight' \ inFlight)
        /\ UNCHANGED <<lost, stored, writeFaults, online, outages, errors>>
    BY DEF ToBroker, sinkVars
  <1>2. /\ SessionInv' /\ inFlight \subseteq inFlight' /\ UNCHANGED handled
        /\ published' = published \cup {m}
        /\ \A d \in inFlight' \ inFlight : d \in {m} \X Replicas
    BY <1>1, PublishEffect DEF PipelineInv
  <1>3. RoutedInv'
    BY <1>1, <1>2 DEF PipelineInv, RoutedInv
  <1>4. routed' \subseteq published' \X Replicas
    BY <1>1, <1>2 DEF PipelineInv, PipelineTypeOK
  <1> QED BY <1>1, <1>2, <1>3, <1>4

\* Each step of the pipeline is a step of the sessions or of none of them.
LEMMA StepOfSessions ==
  ASSUME PipelineInv, [PipelineNext]_pipelineVars
  PROVE  [Next]_vars
PROOF
  <1>1. ASSUME NEW m \in Messages, ToBroker(m) PROVE Next
    BY <1>1 DEF ToBroker, Next
  <1>2. CASE UNCHANGED pipelineVars
    BY <1>2 DEF pipelineVars
  <1>3. CASE Take \/ Acknowledged \/ TokenError \/ IngestLosesConnection \/ IngestReconnects
    BY <1>3 DEF Take, Acknowledged, TokenError, IngestLosesConnection, IngestReconnects
  <1>4. CASE BrokerReceives
    <2>1. Message \in Messages /\ ToBroker(Message)
      BY <1>4, MessageType DEF BrokerReceives
    <2> QED BY <1>1, <2>1 DEF ToBroker, Next
  <1>5. ASSUME NEW m \in failed, LateDelivery(m) PROVE Next
    <2>1. m \in Messages
      BY DEF PipelineInv, PipelineTypeOK
    <2> QED BY <1>1, <1>5, <2>1 DEF LateDelivery
  <1>6. ASSUME NEW p \in Replicas, ReplicaStep(p) PROVE Next
    <2>1. \A m \in published : m \in Messages
      BY DEF PipelineInv, SessionInv, TypeOK
    <2> QED BY <1>6, <2>1 DEF ReplicaStep, Next, Replica, Network
  <1>7. ASSUME NEW p \in Replicas, ReplicaLosesConnection(p) \/ ReplicaExits(p) PROVE Next
    BY <1>7 DEF ReplicaLosesConnection, ReplicaExits, Next, Replica, Network
  <1>8. ASSUME NEW p \in Replicas, Write(p) \/ WriteFails(p) PROVE UNCHANGED vars
    BY <1>8 DEF Write, WriteFails
  <1> QED
    BY <1>2, <1>3, <1>4, <1>5, <1>6, <1>7, <1>8 DEF PipelineNext

\* What is settled stays explained while nothing that was published or has
\* failed is forgotten.
LEMMA SettledKeeps ==
  ASSUME PipelineInv, published \cup failed \subseteq published' \cup failed',
         publisher'.item = publisher.item,
         publisher'.state = "select" => publisher.state = "select"
  PROVE  SettledInv'
  BY DEF PipelineInv, SettledInv, Settled, Attempts

\* Steps of the publisher that the sessions do not see.
LEMMA PublisherStep ==
  ASSUME PipelineInv, SessionInv',
         \/ Take \/ Acknowledged \/ TokenError \/ IngestLosesConnection \/ IngestReconnects
  PROVE  PipelineInv'
PROOF
  <1> USE DEF vars, messageVars, ingestVars, sinkVars
  <1>1. CASE Take
    <2>1. /\ publisher' = [state |-> "publish", item |-> publisher.item + 1, attempt |-> 1]
          /\ publisher.state = "select" /\ publisher.item < MaxTelemetry
          /\ UNCHANGED <<vars, online, outages, failed, errors, routed, sinkVars>>
      BY <1>1 DEF Take
    <2>2. PipelineTypeOK'
      BY <2>1, PublisherType DEF PipelineInv, PipelineTypeOK, SessionInv
    <2>3. \A t \in Telemetry : Settled(t)' => Settled(t)
      BY <2>1, PublisherType DEF Settled, Telemetry
    <2>4. SettledInv'
      BY <2>1, <2>3 DEF PipelineInv, SettledInv, Attempts
    <2> QED
      BY <2>1, <2>2, <2>4, PublisherType DEF PipelineInv, PublisherInv, RoutedInv
  <1>2. CASE Acknowledged
    <2>1. /\ publisher' = [publisher EXCEPT !.state = "select"]
          /\ publisher.state = "ack"
          /\ UNCHANGED <<vars, online, outages, failed, errors, routed, sinkVars>>
      BY <1>2 DEF Acknowledged
    <2>2. /\ publisher'.state = "select" /\ publisher'.item = publisher.item
          /\ publisher' \in [state : {"select", "publish", "ack"}, item : 0..MaxTelemetry,
                             attempt : 0..(1 + outages)]
      BY <2>1, PublisherType
    <2>3. PipelineTypeOK'
      BY <2>1, <2>2 DEF PipelineInv, PipelineTypeOK, SessionInv
    <2>4. SettledInv'
      <3> SUFFICES ASSUME NEW t \in Telemetry, Settled(t)'
                   PROVE  Attempts(t) \cap (published \cup failed) # {}
        BY <2>1 DEF SettledInv, Attempts
      <3>1. CASE Settled(t)
        BY <3>1 DEF PipelineInv, SettledInv
      <3>2. CASE t = publisher.item
        <4>1. Message \in Messages /\ Message \in published /\ Message[1] = t
          BY <2>1, <3>2, MessageType DEF PipelineInv, PublisherInv, Message
        <4> QED BY <4>1, AttemptsOf
      <3> QED BY <2>2, <3>1, <3>2 DEF Settled
    <2> QED
      BY <2>1, <2>2, <2>3, <2>4 DEF PipelineInv, PublisherInv, RoutedInv
  <1>3. CASE TokenError
    <2> DEFINE a == <<publisher.item, publisher.attempt + 1>>
    <2>1. /\ publisher' = [publisher EXCEPT !.state = "select"]
          /\ publisher.state # "select" /\ MayFail(errors)
          /\ errors' = errors + 1 /\ failed' = failed \cup {a}
          /\ UNCHANGED <<vars, online, outages, routed, sinkVars>>
      BY <1>3 DEF TokenError
    <2>2. /\ publisher'.state = "select" /\ publisher'.item = publisher.item
          /\ publisher' \in [state : {"select", "publish", "ack"}, item : 0..MaxTelemetry,
                             attempt : 0..(1 + outages)]
      BY <2>1, PublisherType
    <2>3. a \in Messages /\ a[1] = publisher.item
      BY <2>1, MessageType
    <2>4. errors' \in Nat /\ outages + errors' + writeFaults <= MaxFaults
      BY <2>1, PublisherType DEF MayFail
    <2>5. PipelineTypeOK'
      BY <2>1, <2>2, <2>3, <2>4 DEF PipelineInv, PipelineTypeOK, SessionInv
    <2>6. SettledInv'
      <3> SUFFICES ASSUME NEW t \in Telemetry, Settled(t)'
                   PROVE  Attempts(t) \cap (published \cup failed') # {}
        BY <2>1 DEF SettledInv, Attempts
      <3>1. CASE Settled(t)
        BY <2>1, <3>1 DEF PipelineInv, SettledInv
      <3>2. CASE t = publisher.item
        BY <2>1, <2>3, <3>2, AttemptsOf
      <3> QED BY <2>2, <3>1, <3>2 DEF Settled
    <2> QED
      BY <2>1, <2>2, <2>5, <2>6 DEF PipelineInv, PublisherInv, RoutedInv
  <1>4. CASE IngestLosesConnection
    <2>1. /\ publisher' = Resent /\ MayFail(outages) /\ outages' = outages + 1
          /\ online' = FALSE
          /\ UNCHANGED <<vars, failed, errors, routed, sinkVars>>
      BY <1>4 DEF IngestLosesConnection
    <2>2. /\ publisher'.item = publisher.item
          /\ publisher'.state # "ack"
          /\ publisher'.state = "select" <=> publisher.state = "select"
          /\ publisher'.attempt \in {publisher.attempt, publisher.attempt + 1}
          /\ publisher' \in [state : {"select", "publish", "ack"}, item : 0..MaxTelemetry,
                             attempt : 0..(1 + outages')]
      <3>1. CASE publisher.state = "ack"
        <4>1. publisher' = [state |-> "publish", item |-> publisher.item,
                            attempt |-> publisher.attempt + 1]
          BY <2>1, <3>1, PublisherType DEF Resent
        <4> QED BY <2>1, <3>1, <4>1, PublisherType
      <3>2. CASE publisher.state # "ack"
        <4>1. publisher' = publisher
          BY <2>1, <3>2 DEF Resent
        <4> QED BY <2>1, <3>2, <4>1, PublisherType
      <3> QED BY <3>1, <3>2
    <2>3. outages' \in Nat /\ outages' + errors + writeFaults <= MaxFaults
      BY <2>1, PublisherType DEF MayFail
    <2>4. PipelineTypeOK'
      BY <2>1, <2>2, <2>3 DEF PipelineInv, PipelineTypeOK, SessionInv
    <2>5. SettledInv'
      BY <2>1, <2>2, SettledKeeps
    <2>6. PublisherInv'
      BY <2>2, PublisherType DEF PipelineInv, PublisherInv
    <2> QED BY <2>1, <2>4, <2>5, <2>6 DEF PipelineInv, RoutedInv
  <1>5. CASE IngestReconnects
    BY <1>5
    DEF IngestReconnects, PipelineInv, PipelineTypeOK, SessionInv, PublisherInv, Message,
        RoutedInv, SettledInv, Settled, Attempts
  <1> QED BY <1>1, <1>2, <1>3, <1>4, <1>5

\* Messages that reach the broker, in time or late.
LEMMA BrokerStep ==
  ASSUME PipelineInv,
         BrokerReceives \/ \E m \in failed : LateDelivery(m)
  PROVE  PipelineInv'
PROOF
  <1>1. CASE BrokerReceives
    <2>1. /\ publisher.state = "publish" /\ ToBroker(Message)
          /\ publisher' = [publisher EXCEPT !.state = "ack"] /\ failed' = failed
      BY <1>1 DEF BrokerReceives
    <2>2. Message \in Messages
      BY <2>1, MessageType
    <2>3. /\ SessionInv' /\ RoutedInv'
          /\ published' = published \cup {Message}
          /\ routed' \subseteq published' \X Replicas
          /\ routed \subseteq routed'
          /\ UNCHANGED <<handled, lost, stored, writeFaults, online, outages, errors>>
      BY <2>1, <2>2, ToBrokerEffect
    <2>4. /\ publisher'.item = publisher.item /\ publisher'.attempt = publisher.attempt
          /\ publisher'.state = "ack" /\ Message' = Message
          /\ publisher' \in [state : {"select", "publish", "ack"}, item : 0..MaxTelemetry,
                             attempt : 0..(1 + outages)]
      BY <2>1, PublisherType DEF Message
    <2>5. PipelineTypeOK'
      BY <2>1, <2>3, <2>4 DEF PipelineInv, PipelineTypeOK, SessionInv
    <2>6. SettledInv'
      BY <2>1, <2>3, <2>4, SettledKeeps
    <2>7. PublisherInv'
      BY <2>1, <2>3, <2>4 DEF PipelineInv, PublisherInv
    <2> QED BY <2>3, <2>5, <2>6, <2>7 DEF PipelineInv
  <1>2. ASSUME NEW m \in failed, LateDelivery(m) PROVE PipelineInv'
    <2>1. ToBroker(m) /\ failed' = failed \ {m} /\ publisher' = publisher
      BY <1>2 DEF LateDelivery
    <2>2. m \in Messages
      BY DEF PipelineInv, PipelineTypeOK
    <2>3. /\ SessionInv' /\ RoutedInv'
          /\ published' = published \cup {m}
          /\ routed' \subseteq published' \X Replicas
          /\ routed \subseteq routed'
          /\ UNCHANGED <<handled, lost, stored, writeFaults, online, outages, errors>>
      BY <2>1, <2>2, ToBrokerEffect
    <2>4. PipelineTypeOK'
      BY <2>1, <2>3 DEF PipelineInv, PipelineTypeOK, SessionInv
    <2>5. SettledInv'
      BY <2>1, <2>3, SettledKeeps
    <2>6. PublisherInv'
      BY <2>1, <2>3 DEF PipelineInv, PublisherInv, Message
    <2> QED BY <2>3, <2>4, <2>5, <2>6 DEF PipelineInv
  <1> QED BY <1>1, <1>2

\* What a replica does: messages move from the broker to the callback, to the
\* database, or are lost, and what the publisher has been told stays true.
LEMMA ReplicaKeeps ==
  ASSUME PipelineInv, SessionInv', NEW p \in Replicas,
         \/ ReplicaStep(p) \/ ReplicaLosesConnection(p) \/ ReplicaExits(p)
         \/ Write(p) \/ WriteFails(p)
  PROVE  PipelineInv'
PROOF
  <1> USE DEF ingestVars, sinkVars
  <1>1. ASSUME UNCHANGED <<published, publisher, failed, outages, errors, online>>,
               RoutedInv', routed' = routed, lost' \subseteq routed,
               stored' \subseteq handled' \ lost',
               writeFaults' \in Nat, outages + errors + writeFaults' <= MaxFaults
        PROVE  PipelineInv'
    <2>1. SettledInv'
      BY <1>1, SettledKeeps
    <2>2. PipelineTypeOK'
      BY <1>1 DEF PipelineInv, PipelineTypeOK, SessionInv
    <2>3. PublisherInv'
      BY <1>1 DEF PipelineInv, PublisherInv, Message
    <2> QED BY <1>1, <2>1, <2>2, <2>3 DEF PipelineInv
  <1>2. /\ stored \subseteq handled \ lost /\ routed = inFlight \cup handled \cup lost
        /\ inFlight \cap handled = {} /\ writeFaults \in Nat
        /\ outages + errors + writeFaults <= MaxFaults
    BY DEF PipelineInv, PipelineTypeOK, RoutedInv, SessionInv, OneReplica
  <1>3. CASE ReplicaStep(p)
    <2>1. UNCHANGED <<publisher, online, outages, failed, errors, routed, lost, stored, writeFaults>>
      BY <1>3 DEF ReplicaStep
    <2>2. /\ UNCHANGED published
          /\ inFlight' \cup handled' = inFlight \cup handled /\ handled \subseteq handled'
      BY <1>3
      DEF ReplicaStep, Connect, ConnectTimesOut, Subscribe, Restart, Reconnect,
          Acknowledge, Receive, messageVars
    <2>3. RoutedInv'
      BY <1>2, <2>1, <2>2 DEF RoutedInv
    <2>4. stored' \subseteq handled' \ lost'
      BY <1>2, <2>1, <2>2
    <2> QED BY <1>1, <1>2, <2>1, <2>2, <2>3, <2>4
  <1>4. CASE ReplicaLosesConnection(p) \/ ReplicaExits(p)
    <2>1. /\ UNCHANGED <<published, handled, publisher, online, outages, failed, errors,
                         routed, stored, writeFaults>>
          /\ inFlight' = {d \in inFlight : d[2] # p}
          /\ \/ lost' = lost \cup SentTo(p)
             \/ lost' = lost \cup Pending(p) \cup SentTo(p)
      BY <1>4 DEF ReplicaLosesConnection, ReplicaExits, ConnectionLost, Exit, Forget
    <2>2. SentTo(p) = inFlight \ inFlight' /\ Pending(p) \subseteq handled \ stored
      BY <2>1 DEF SentTo, Pending
    <2>3. RoutedInv' /\ lost' \subseteq routed
      BY <1>2, <2>1, <2>2 DEF RoutedInv
    <2>4. stored' \subseteq handled' \ lost'
      BY <1>2, <2>1, <2>2
    <2> QED BY <1>1, <1>2, <2>1, <2>3, <2>4
  <1>5. CASE Write(p)
    <2>1. /\ UNCHANGED <<published, handled, inFlight, publisher, online, outages, failed,
                         errors, routed, lost, writeFaults>>
          /\ stored' \subseteq stored \cup Pending(p)
      BY <1>5 DEF Write, vars, messageVars
    <2>2. RoutedInv' /\ stored' \subseteq handled' \ lost'
      BY <1>2, <2>1 DEF RoutedInv, Pending
    <2> QED BY <1>1, <1>2, <2>1, <2>2
  <1>6. CASE WriteFails(p)
    <2>1. /\ UNCHANGED <<published, handled, inFlight, publisher, online, outages, failed,
                         errors, routed, stored>>
          /\ lost \subseteq lost' /\ lost' \subseteq lost \cup Pending(p)
          /\ writeFaults' = writeFaults + 1 /\ MayFail(writeFaults)
      BY <1>6 DEF WriteFails, vars, messageVars
    <2>2. RoutedInv' /\ lost' \subseteq routed /\ stored' \subseteq handled' \ lost'
      BY <1>2, <2>1 DEF RoutedInv, Pending
    <2>3. writeFaults' \in Nat /\ outages + errors + writeFaults' <= MaxFaults
      BY <2>1, PublisherType DEF MayFail
    <2> QED BY <1>1, <2>1, <2>2, <2>3
  <1> QED BY <1>3, <1>4, <1>5, <1>6

LEMMA PipelineStep ==
  ASSUME PipelineInv, [PipelineNext]_pipelineVars
  PROVE  PipelineInv'
PROOF
  <1>1. SessionInv'
    BY StepOfSessions, SessionStep DEF PipelineInv
  <1>2. CASE UNCHANGED pipelineVars
    BY <1>1, <1>2
    DEF pipelineVars, vars, messageVars, ingestVars, sinkVars, PipelineInv, PipelineTypeOK,
        SessionInv, PublisherInv, Message, RoutedInv, SettledInv, Settled, Attempts
  <1> QED
    BY <1>1, <1>2, PublisherStep, BrokerStep, ReplicaKeeps DEF PipelineNext

LEMMA PipelineStart == PipelineInit => PipelineInv
PROOF
  <1> SUFFICES ASSUME PipelineInit PROVE PipelineInv
    OBVIOUS
  <1>1. SessionInv
    BY SessionInit DEF PipelineInit
  <1>2. PipelineTypeOK
    BY <1>1, PipelineAssumption DEF PipelineInit, PipelineTypeOK, SessionInv
  <1>3. \A t \in Telemetry : ~Settled(t)
    BY PipelineAssumption DEF PipelineInit, Settled, Telemetry
  <1> QED
    BY <1>1, <1>2, <1>3
    DEF PipelineInit, Init, PipelineInv, PublisherInv, RoutedInv, SettledInv

LEMMA PipelineInvHolds == PipelineSpec => []PipelineInv
  BY PipelineStart, PipelineStep, PTL DEF PipelineSpec

\* A row is from a message that its replica handled and has not lost, and what
\* is lost had been sent to that replica, through all faults and restarts.
THEOREM PipelineTypes == PipelineSpec => []PipelineTypeOK
PROOF
  <1>1. PipelineInv => PipelineTypeOK
    BY DEF PipelineInv
  <1> QED BY <1>1, PipelineInvHolds, PTL

\* The pipeline implements the sessions: whatever ingest publishes, publishes
\* again or late, and whatever happens to rows, brokers and replicas see no
\* step that MqttSession does not allow.
THEOREM PipelineImplementsSessions == PipelineSpec => Spec
PROOF
  <1>1. PipelineInit => Init
    BY DEF PipelineInit
  <1>2. PipelineInv /\ [PipelineNext]_pipelineVars => [Next]_vars
    BY StepOfSessions
  <1> QED BY <1>1, <1>2, PipelineInvHolds, PTL DEF PipelineSpec, Spec

\* In the pipeline, too, the replicas divide the telemetry.
THEOREM PipelineDividesTheWork == PipelineSpec => []HandledByOne
  BY PipelineImplementsSessions, ReplicasDivideTheWork, PTL

\* What the publisher was told is delivered is stored or on its way, or one of
\* the reasons that the property lists explains its loss: an outage of ingest
\* between the message and its PUBACK is none of them.
THEOREM NoLossWithoutAReason == PipelineSpec => []LossIsExplained
PROOF
  <1>1. PipelineInv => LossIsExplained
    <2> SUFFICES ASSUME PipelineInv, NEW t \in Telemetry, Settled(t)
                 PROVE  \/ Stored(t)
                        \/ Attempts(t) \cap failed # {}
                        \/ \E m \in Attempts(t) : OnItsWay(m) \/ Unheard(m) \/ Lost(m)
      BY DEF LossIsExplained
    <2>1. PICK m \in Attempts(t) : m \in published \cup failed
      BY DEF PipelineInv, SettledInv
    <2>2. m[1] = t
      BY DEF Attempts
    <2>3. CASE m \in failed
      BY <2>3
    <2>4. CASE m \in published /\ \A p \in Replicas : <<m, p>> \notin routed
      BY <2>4 DEF Unheard
    <2>5. ASSUME NEW p \in Replicas, <<m, p>> \in routed
          PROVE  Stored(t) \/ OnItsWay(m) \/ Lost(m)
      <3>1. <<m, p>> \in inFlight \cup handled \cup lost
        BY <2>5 DEF PipelineInv, RoutedInv
      <3>2. <<m, p>> \in inFlight => OnItsWay(m)
        BY DEF OnItsWay
      <3>3. <<m, p>> \in lost => Lost(m)
        BY DEF Lost
      <3>4. <<m, p>> \in stored => Stored(t)
        BY <2>2 DEF Stored
      <3>5. <<m, p>> \in handled \ (stored \cup lost) => OnItsWay(m)
        BY DEF OnItsWay, Pending
      <3> QED BY <3>1, <3>2, <3>3, <3>4, <3>5
    <2> QED BY <2>1, <2>3, <2>4, <2>5
  <1> QED BY <1>1, PipelineInvHolds, PTL

-----------------------------------------------------------------------------
(* What a duplicate costs *)

\* Attempts after the first, made or about to be made.
ExtraAttempts ==
    {m \in published \cup failed \cup (IF publisher.state = "publish" THEN {Message} ELSE {}) :
        m[2] # 1}

ExtraInv == Cardinality(ExtraAttempts) <= outages + errors

\* There are finitely many attempts.
LEMMA ExtraFinite ==
  ASSUME PipelineInv
  PROVE  /\ ExtraAttempts \subseteq Messages
         /\ IsFiniteSet(ExtraAttempts) /\ Cardinality(ExtraAttempts) \in Nat
PROOF
  <1>1. IsFiniteSet(Messages)
    <2>1. MaxTelemetry \in Int /\ 1 + MaxFaults \in Int
      BY PipelineAssumption
    <2>2. IsFiniteSet(1..MaxTelemetry) /\ IsFiniteSet(1..(1 + MaxFaults))
      BY <2>1, FS_Interval
    <2>3. IsFiniteSet((1..MaxTelemetry) \X (1..(1 + MaxFaults)))
      BY <2>2, FS_Product
    <2> QED BY <2>3, PipelineAssumption DEF Telemetry
  <1>2. ExtraAttempts \subseteq Messages
    BY MessageType DEF ExtraAttempts, PipelineInv, PipelineTypeOK, SessionInv, TypeOK
  <1> QED BY <1>1, <1>2, FS_Subset, FS_CardinalityType

\* Only a lost connection and a token error start another attempt, and each
\* starts one.
LEMMA ExtraStep ==
  ASSUME PipelineInv, ExtraInv, [PipelineNext]_pipelineVars
  PROVE  ExtraInv'
PROOF
  <1> USE DEF vars, messageVars, ingestVars, sinkVars
  <1>1. /\ IsFiniteSet(ExtraAttempts) /\ Cardinality(ExtraAttempts) \in Nat
        /\ outages \in Nat /\ errors \in Nat
    BY ExtraFinite, PublisherType
  <1>2. ASSUME ExtraAttempts' \subseteq ExtraAttempts, UNCHANGED <<outages, errors>>
        PROVE  ExtraInv'
    <2>1. /\ Cardinality(ExtraAttempts') <= Cardinality(ExtraAttempts)
          /\ Cardinality(ExtraAttempts') \in Nat
      BY <1>1, <1>2, FS_Subset, FS_CardinalityType
    <2> QED BY <1>1, <1>2, <2>1 DEF ExtraInv
  <1>3. ASSUME NEW x, ExtraAttempts' \subseteq ExtraAttempts \cup {x},
               outages' + errors' = outages + errors + 1
        PROVE  ExtraInv'
    <2>1. /\ IsFiniteSet(ExtraAttempts \cup {x})
          /\ Cardinality(ExtraAttempts \cup {x}) =
                IF x \in ExtraAttempts THEN Cardinality(ExtraAttempts)
                                       ELSE Cardinality(ExtraAttempts) + 1
      BY <1>1, FS_AddElement
    <2>2. /\ Cardinality(ExtraAttempts') <= Cardinality(ExtraAttempts \cup {x})
          /\ Cardinality(ExtraAttempts') \in Nat
      BY <1>3, <2>1, FS_Subset, FS_CardinalityType
    <2> QED BY <1>1, <1>3, <2>1, <2>2 DEF ExtraInv
  <1>4. CASE UNCHANGED pipelineVars
    BY <1>2, <1>4 DEF pipelineVars, ExtraAttempts, Message
  <1>5. CASE Take
    <2>1. publisher'.attempt = 1 /\ UNCHANGED <<published, failed, outages, errors>>
      BY <1>5 DEF Take
    <2>2. ExtraAttempts' \subseteq ExtraAttempts
      BY <2>1 DEF ExtraAttempts, Message
    <2> QED BY <1>2, <2>1, <2>2
  <1>6. CASE BrokerReceives
    <2>1. /\ publisher.state = "publish" /\ publisher'.state # "publish"
          /\ published' = published \cup {Message}
          /\ UNCHANGED <<failed, outages, errors>>
      <3>1. publisher'.state = "ack"
        BY <1>6, PublisherType DEF BrokerReceives
      <3> QED BY <1>6, <3>1 DEF BrokerReceives, ToBroker, Publish
    <2>2. ExtraAttempts' \subseteq ExtraAttempts
      BY <2>1 DEF ExtraAttempts
    <2> QED BY <1>2, <2>1, <2>2
  <1>7. CASE Acknowledged
    <2>1. publisher'.state = "select" /\ UNCHANGED <<published, failed, outages, errors>>
      BY <1>7, PublisherType DEF Acknowledged
    <2>2. ExtraAttempts' \subseteq ExtraAttempts
      BY <2>1 DEF ExtraAttempts
    <2> QED BY <1>2, <2>1, <2>2
  <1>8. CASE TokenError
    <2> DEFINE a == <<publisher.item, publisher.attempt + 1>>
    <2>1. /\ publisher'.state = "select" /\ failed' = failed \cup {a}
          /\ errors' = errors + 1 /\ UNCHANGED <<published, outages>>
      BY <1>8, PublisherType DEF TokenError
    <2> HIDE DEF a
    <2>2. ExtraAttempts' \subseteq ExtraAttempts \cup {a}
      BY <2>1 DEF ExtraAttempts
    <2>3. outages' + errors' = outages + errors + 1
      BY <1>1, <2>1
    <2> QED BY <1>3, <2>2, <2>3
  <1>9. ASSUME NEW m \in failed, LateDelivery(m) PROVE ExtraInv'
    <2>1. /\ published' = published \cup {m} /\ failed' = failed \ {m}
          /\ UNCHANGED <<publisher, outages, errors>>
      BY <1>9 DEF LateDelivery, ToBroker, Publish
    <2>2. ExtraAttempts' \subseteq ExtraAttempts
      BY <2>1 DEF ExtraAttempts, Message
    <2> QED BY <1>2, <2>1, <2>2
  <1>10. CASE IngestLosesConnection
    <2>1. /\ publisher' = Resent /\ outages' = outages + 1
          /\ UNCHANGED <<published, failed, errors>>
      BY <1>10 DEF IngestLosesConnection
    <2>2. publisher.state # "ack" => publisher' = publisher
      BY <2>1 DEF Resent
    <2>3. ExtraAttempts' \subseteq ExtraAttempts \cup {Message'}
      BY <2>1, <2>2 DEF ExtraAttempts
    <2>4. outages' + errors' = outages + errors + 1
      BY <1>1, <2>1
    <2> HIDE DEF Message
    <2> QED BY <1>3, <2>3, <2>4
  <1>11. CASE IngestReconnects
    BY <1>2, <1>11 DEF IngestReconnects, ExtraAttempts, Message
  <1>12. ASSUME NEW p \in Replicas,
                \/ ReplicaStep(p) \/ ReplicaLosesConnection(p) \/ ReplicaExits(p)
                \/ Write(p) \/ WriteFails(p)
         PROVE  ExtraInv'
    <2>1. UNCHANGED <<publisher, failed, outages, errors, published>>
      BY <1>12
      DEF ReplicaStep, Connect, ConnectTimesOut, Subscribe, Restart, Reconnect, Acknowledge,
          Receive, ReplicaLosesConnection, ConnectionLost, ReplicaExits, Exit, Write, WriteFails
    <2> QED BY <1>2, <2>1 DEF ExtraAttempts, Message
  <1> QED
    BY <1>4, <1>5, <1>6, <1>7, <1>8, <1>9, <1>10, <1>11, <1>12 DEF PipelineNext

\* The number of elements does not grow along an injective map.
LEMMA InjectiveMap ==
  ASSUME NEW S, NEW T, IsFiniteSet(T), NEW f \in [S -> T],
         \A x, y \in S : f[x] = f[y] => x = y
  PROVE  /\ IsFiniteSet(S) /\ Cardinality(S) <= Cardinality(T)
         /\ Cardinality(S) \in Nat /\ Cardinality(T) \in Nat
PROOF
  <1>1. f \in Injection(S, T)
    BY DEF Injection, IsInjective
  <1> QED BY <1>1, FS_Injection, FS_CardinalityType

\* Rows of one piece of telemetry, beyond the first, are from further attempts,
\* and these are no more than ingest has lost connections and tokens: no
\* replica, restart or failed write adds a row.
THEOREM ADuplicateCostsAnOutage == PipelineSpec => []DuplicatesCostAnOutage
PROOF
  <1>1. PipelineInit => ExtraInv
    <2> SUFFICES ASSUME PipelineInit PROVE ExtraInv
      OBVIOUS
    <2>1. ExtraAttempts = {}
      BY DEF PipelineInit, Init, ExtraAttempts
    <2> QED BY <2>1, FS_EmptySet DEF PipelineInit, ExtraInv
  <1>2. PipelineInv /\ ExtraInv => DuplicatesCostAnOutage
    <2> SUFFICES ASSUME PipelineInv, ExtraInv PROVE DuplicatesCostAnOutage
      OBVIOUS
    <2> DEFINE First == {d \in stored : d[1][2] = 1}
               Later == {d \in stored : d[1][2] # 1}
               T == {t \in Telemetry : Stored(t)}
    <2>1. \A d \in stored : /\ d[1] \in published /\ d[1] \in Messages /\ d[2] \in Replicas
                            /\ d = <<d[1], d[2]>> /\ d \in handled
      BY DEF PipelineInv, PipelineTypeOK, SessionInv, TypeOK
    <2>2. \A d, e \in stored : d[1] = e[1] => d = e
      BY <2>1 DEF PipelineInv, SessionInv, OneReplica
    <2>3. IsFiniteSet(T)
      <3>1. MaxTelemetry \in Int
        BY PipelineAssumption
      <3>2. IsFiniteSet(Telemetry)
        BY <3>1, FS_Interval DEF Telemetry
      <3> QED BY <3>2, FS_Subset
    <2>4. /\ IsFiniteSet(First) /\ Cardinality(First) <= Cardinality(T)
          /\ Cardinality(First) \in Nat /\ Cardinality(T) \in Nat
      <3> DEFINE f == [d \in First |-> d[1][1]]
      <3>1. f \in [First -> T]
        BY <2>1, AttemptsOf DEF Stored
      <3>2. ASSUME NEW d \in First, NEW e \in First, f[d] = f[e] PROVE d = e
        <4>1. d[1][1] = e[1][1] /\ d[1][2] = e[1][2]
          BY <3>2
        <4>2. d[1] = e[1]
          BY <2>1, <4>1, AttemptsOf
        <4> QED BY <2>2, <4>2
      <3> HIDE DEF f, First, T
      <3> QED BY <2>3, <3>1, <3>2, InjectiveMap
    <2>5. /\ IsFiniteSet(Later) /\ Cardinality(Later) <= Cardinality(ExtraAttempts)
          /\ Cardinality(Later) \in Nat /\ Cardinality(ExtraAttempts) \in Nat
      <3> DEFINE f == [d \in Later |-> d[1]]
      <3>1. f \in [Later -> ExtraAttempts]
        BY <2>1 DEF ExtraAttempts
      <3>2. \A d, e \in Later : f[d] = f[e] => d = e
        BY <2>2
      <3> HIDE DEF f, Later
      <3> QED BY <3>1, <3>2, ExtraFinite, InjectiveMap
    <2>6. stored = First \cup Later /\ First \cap Later = {}
      OBVIOUS
    <2> HIDE DEF First, Later
    <2>7. Cardinality(First \cup Later) = Cardinality(First) + Cardinality(Later) - Cardinality(First \cap Later)
      BY <2>4, <2>5, FS_Union
    <2>8. Cardinality(First \cap Later) = 0
      BY <2>6, FS_EmptySet
    <2>9. Cardinality(stored) = Cardinality(First) + Cardinality(Later)
      BY <2>4, <2>5, <2>6, <2>7, <2>8
    <2> QED
      BY <2>4, <2>5, <2>9, PublisherType DEF ExtraInv, DuplicatesCostAnOutage
  <1> QED BY <1>1, <1>2, ExtraStep, PipelineInvHolds, PTL DEF PipelineSpec
=============================================================================
