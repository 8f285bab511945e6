------------------------------- MODULE Ingest -------------------------------
(***************************************************************************)
(* The ingest process: cmd/ingest/main.go with the listener and the        *)
(* transformer of f123/f123.go and the publishers of cmd/ingest/mqtt_v3.go.*)
(*                                                                         *)
(* Seven goroutines share a context.  Listen reads UDP packets into the    *)
(* bounded channel PacketBuffer; Consume takes them one by one, decodes    *)
(* them and sends the resulting messages on one bounded channel per kind   *)
(* of telemetry; each channel has a publisher that hands one message at a  *)
(* time to the MQTT client at QoS 1 and waits for its token.  A signal, a  *)
(* socket error or a panic of the transformer cancels the context; main    *)
(* waits for all seven goroutines.  Sends on the channels and token.Wait   *)
(* do not look at the context.                                             *)
(*                                                                         *)
(* Packets are numbered in the order in which they are read.  What a       *)
(* packet decodes to is its topic and its number of messages (a session    *)
(* history packet carries one message per finished lap, or none); which    *)
(* laps those are is the subject of SessionLaps.                           *)
(***************************************************************************)
EXTENDS Integers, Sequences, FiniteSets, SequencesExt

CONSTANTS
    Topics,        \* the five kinds of telemetry, one channel and topic each
    LapTopic,      \* lap times: the kind with any number of messages a packet
    Ignored,       \* packets of other kinds, and bodies that do not decode
    Malformed,     \* datagrams that Route cannot handle
    BufferCap,     \* cfg.MaxPacketsBuffered, 1000 by default
    ChanCap,       \* capacity of each telemetry channel, 100 in the code
    MaxPackets,    \* bound: packets read
    MaxLaps,       \* bound: messages of one lap packet
    MaxDrops,      \* bound: losses of the broker connection
    MaxErrors      \* bound: tokens that end with an error

ASSUME IngestAssumption ==
    /\ LapTopic \in Topics
    /\ {Ignored, Malformed} \cap Topics = {}
    /\ BufferCap \in Nat \ {0}
    /\ ChanCap \in Nat \ {0}
    /\ {MaxPackets, MaxDrops, MaxErrors} \subseteq Nat
    /\ MaxLaps \in Nat \ {0}

VARIABLES
    ctxDone,      \* serverContext has been cancelled
    cause,        \* history: why ("none", "signal", "socket", "panic")
    listener,     \* Listen: "check", "read", "send" or "stopped"
    inHand,       \* the packets Listen has read and not sent (none or one)
    packets,      \* the channel PacketBuffer
    transformer,  \* Consume: "select", "send" or "stopped"
    outbox,       \* messages of the current packet that Route has still to send
    chan,         \* per topic: the channel of its messages
    publisher,    \* per topic: "select", "publish", "ack" or "stopped"
    current,      \* per topic: the message being published (none or one)
    connected,    \* the connection to the broker is up
    drops,        \* connection losses so far
    errors,       \* tokens that ended with an error so far
    accepted,     \* history: the packets read, in order
    settled,      \* history, per topic: messages whose token was waited for
    failed,       \* messages whose token had an error; the client still has them
    received      \* per topic: what the broker received, duplicates included

readVars == <<listener, inHand, accepted>>
routeVars == <<transformer, outbox>>
publishVars == <<publisher, current, settled, failed, received, connected, drops, errors>>
vars == <<ctxDone, cause, readVars, packets, routeVars, chan, publishVars>>

-----------------------------------------------------------------------------
(* Packets and messages *)

Packet == [id : 1..MaxPackets, topic : Topics \cup {Ignored, Malformed}, n : 0..MaxLaps]

\* A packet yields one message; a lap packet any number; others none.
IsPacket(p) ==
    p.topic # LapTopic => p.n = IF p.topic \in Topics THEN 1 ELSE 0

Message == [topic : Topics, id : 1..MaxPackets, part : 1..MaxLaps]

\* The messages of packet p, in the order in which Route sends them.
Messages(p) == [i \in 1..p.n |-> [topic |-> p.topic, id |-> p.id, part |-> i]]

Init ==
    /\ ctxDone = FALSE
    /\ cause = "none"
    /\ listener = "check"
    /\ inHand = <<>>
    /\ packets = <<>>
    /\ transformer = "select"
    /\ outbox = <<>>
    /\ chan = [t \in Topics |-> <<>>]
    /\ publisher = [t \in Topics |-> "select"]
    /\ current = [t \in Topics |-> <<>>]
    /\ connected = TRUE
    /\ drops = 0
    /\ errors = 0
    /\ accepted = <<>>
    /\ settled = [t \in Topics |-> <<>>]
    /\ failed = {}
    /\ received = [t \in Topics |-> <<>>]

-----------------------------------------------------------------------------
(* Cancellation *)

Cancel(c) ==
    /\ ctxDone' = TRUE
    /\ cause' = IF ctxDone THEN cause ELSE c

Interrupt ==
    /\ ~ctxDone
    /\ Cancel("signal")
    /\ UNCHANGED <<readVars, packets, routeVars, chan, publishVars>>

-----------------------------------------------------------------------------
(* F123PacketListener.Listen *)

\* Mutant: the loop does not look at the context.
CheckContext_Ignores ==
    /\ listener = "check"
    /\ listener' = "read"
    /\ UNCHANGED <<ctxDone, cause, inHand, accepted, packets, routeVars, chan, publishVars>>

\* The select at the top of the loop: the only look at the context.
CheckContext ==
    /\ listener = "check"
    /\ listener' = IF ctxDone THEN "stopped" ELSE "read"
    /\ UNCHANGED <<ctxDone, cause, inHand, accepted, packets, routeVars, chan, publishVars>>

\* ReadFrom returns a packet (with or without an error: the bytes count).
ReadPacket ==
    /\ listener = "read"
    /\ Len(accepted) < MaxPackets
    /\ \E p \in Packet :
          /\ p.id = Len(accepted) + 1
          /\ IsPacket(p)
          /\ inHand' = <<p>>
          /\ accepted' = Append(accepted, p)
    /\ listener' = "send"
    /\ UNCHANGED <<ctxDone, cause, packets, routeVars, chan, publishVars>>

\* The read deadline of one second passes (or an empty datagram arrives).
ReadTimeout ==
    /\ listener = "read"
    /\ listener' = "check"
    /\ UNCHANGED <<ctxDone, cause, inHand, accepted, packets, routeVars, chan, publishVars>>

\* Mutant: Listen returns its error, but nobody cancels the context.
SocketError_NoCancel ==
    /\ listener = "read"
    /\ listener' = "stopped"
    /\ UNCHANGED <<ctxDone, cause, inHand, accepted, packets, routeVars, chan, publishVars>>

\* Any other error ends Listen, and main cancels the context.
SocketError ==
    /\ listener = "read"
    /\ listener' = "stopped"
    /\ Cancel("socket")
    /\ UNCHANGED <<inHand, accepted, packets, routeVars, chan, publishVars>>

\* Mutant: a packet is dropped when the channel is full.
Enqueue_DropsWhenFull ==
    /\ listener = "send"
    /\ packets' = IF Len(packets) < BufferCap THEN packets \o inHand ELSE packets
    /\ inHand' = <<>>
    /\ listener' = "check"
    /\ UNCHANGED <<ctxDone, cause, accepted, routeVars, chan, publishVars>>

\* The send on PacketBuffer blocks while the channel is full.
Enqueue ==
    /\ listener = "send"
    /\ Len(packets) < BufferCap
    /\ packets' = packets \o inHand
    /\ inHand' = <<>>
    /\ listener' = "check"
    /\ UNCHANGED <<ctxDone, cause, accepted, routeVars, chan, publishVars>>

-----------------------------------------------------------------------------
(* F123PacketTransformer: Consume, handlePacket and Route *)

\* A packet is taken.  If it is shorter than a header Route dereferences nil;
\* if its player car or its number of laps is beyond the array an index is out
\* of range.  main's deferred function recovers the panic and cancels the context.
Consume ==
    LET p == Head(packets) IN
    /\ transformer = "select"
    /\ packets # <<>>
    /\ packets' = Tail(packets)
    /\ outbox' = Messages(p)
    /\ IF p.topic = Malformed
       THEN transformer' = "stopped" /\ Cancel("panic")
       ELSE /\ transformer' = IF p.n = 0 THEN "select" ELSE "send"
            /\ UNCHANGED <<ctxDone, cause>>
    /\ UNCHANGED <<readVars, chan, publishVars>>

\* Mutant: no bound on the telemetry channels.
SendMessage_Unbounded ==
    LET m == Head(outbox) IN
    /\ transformer = "send"
    /\ chan' = [chan EXCEPT ![m.topic] = Append(@, m)]
    /\ outbox' = Tail(outbox)
    /\ transformer' = IF Tail(outbox) = <<>> THEN "select" ELSE "send"
    /\ UNCHANGED <<ctxDone, cause, readVars, packets, publishVars>>

\* Mutant: one goroutine per message, as persist does it.
SendMessage_Spawned ==
    /\ transformer = "send"
    /\ \E i \in DOMAIN outbox :
          /\ Len(chan[outbox[i].topic]) < ChanCap
          /\ chan' = [chan EXCEPT ![outbox[i].topic] = Append(@, outbox[i])]
          /\ outbox' = RemoveAt(outbox, i)
    /\ transformer' = IF Len(outbox) = 1 THEN "select" ELSE "send"
    /\ UNCHANGED <<ctxDone, cause, readVars, packets, publishVars>>

\* The send on a telemetry channel blocks while that channel is full, and
\* with it the packets of every other kind.
SendMessage ==
    LET m == Head(outbox) IN
    /\ transformer = "send"
    /\ Len(chan[m.topic]) < ChanCap
    /\ chan' = [chan EXCEPT ![m.topic] = Append(@, m)]
    /\ outbox' = Tail(outbox)
    /\ transformer' = IF Tail(outbox) = <<>> THEN "select" ELSE "send"
    /\ UNCHANGED <<ctxDone, cause, readVars, packets, publishVars>>

StopConsume ==
    /\ transformer = "select"
    /\ ctxDone
    /\ transformer' = "stopped"
    /\ UNCHANGED <<ctxDone, cause, readVars, packets, outbox, chan, publishVars>>

-----------------------------------------------------------------------------
(* RunMQTTv3Publisher and the MQTT client *)

\* A message is taken and marshalled.  The `continue` for a message that does
\* not marshal is left out: every field of the messages Route builds has a
\* value that protojson accepts.
TakeMessage(t) ==
    /\ publisher[t] = "select"
    /\ chan[t] # <<>>
    /\ current' = [current EXCEPT ![t] = <<Head(chan[t])>>]
    /\ chan' = [chan EXCEPT ![t] = Tail(@)]
    /\ publisher' = [publisher EXCEPT ![t] = "publish"]
    /\ UNCHANGED <<ctxDone, cause, readVars, packets, routeVars, settled, failed,
                   received, connected, drops, errors>>

\* The broker receives the PUBLISH; its PUBACK is still to come.
BrokerReceives(t) ==
    /\ publisher[t] = "publish"
    /\ connected
    /\ received' = [received EXCEPT ![t] = @ \o current[t]]
    /\ publisher' = [publisher EXCEPT ![t] = "ack"]
    /\ UNCHANGED <<ctxDone, cause, readVars, packets, routeVars, chan, current,
                   settled, failed, connected, drops, errors>>

\* token.Wait returns and the loop goes on.
Settle(t) ==
    /\ current' = [current EXCEPT ![t] = <<>>]
    /\ settled' = [settled EXCEPT ![t] = @ \o current[t]]
    /\ publisher' = [publisher EXCEPT ![t] = "select"]
    /\ UNCHANGED <<ctxDone, cause, readVars, packets, routeVars, chan, received,
                   connected, drops>>

\* The PUBACK arrives.
Acknowledged(t) ==
    /\ publisher[t] = "ack"
    /\ connected
    /\ Settle(t)
    /\ UNCHANGED <<failed, errors>>

\* The token carries an error, which is logged; the message is not published
\* again, but the client keeps what it has stored until it is acknowledged.
TokenError(t) ==
    /\ publisher[t] \in {"publish", "ack"}
    /\ errors < MaxErrors
    /\ errors' = errors + 1
    /\ failed' = failed \cup ToSet(current[t])
    /\ Settle(t)

\* Mutant: the publisher returns when the connection is down.
StopPublisher_OnOutage(t) ==
    /\ publisher[t] = "select"
    /\ ctxDone \/ ~connected
    /\ publisher' = [publisher EXCEPT ![t] = "stopped"]
    /\ UNCHANGED <<ctxDone, cause, readVars, packets, routeVars, chan, current,
                   settled, failed, received, connected, drops, errors>>

StopPublisher(t) ==
    /\ publisher[t] = "select"
    /\ ctxDone
    /\ publisher' = [publisher EXCEPT ![t] = "stopped"]
    /\ UNCHANGED <<ctxDone, cause, readVars, packets, routeVars, chan, current,
                   settled, failed, received, connected, drops, errors>>

\* The connection is lost; unacknowledged messages will be sent again.
ConnectionLost ==
    /\ connected
    /\ drops < MaxDrops
    /\ connected' = FALSE
    /\ drops' = drops + 1
    /\ publisher' = [t \in Topics |-> IF publisher[t] = "ack" THEN "publish" ELSE publisher[t]]
    /\ UNCHANGED <<ctxDone, cause, readVars, packets, routeVars, chan, current,
                   settled, failed, received, errors>>

\* The client sends a stored message whose token had an error after all.
LateDelivery(m) ==
    /\ connected
    /\ m \in failed
    /\ failed' = failed \ {m}
    /\ received' = [received EXCEPT ![m.topic] = Append(@, m)]
    /\ UNCHANGED <<ctxDone, cause, readVars, packets, routeVars, chan, publisher,
                   current, settled, connected, drops, errors>>

\* AutoReconnect: the client tries again until the broker is back, if ever.
Reconnect ==
    /\ ~connected
    /\ connected' = TRUE
    /\ UNCHANGED <<ctxDone, cause, readVars, packets, routeVars, chan, publisher,
                   current, settled, failed, received, drops, errors>>

-----------------------------------------------------------------------------

Listener == CheckContext \/ ReadPacket \/ ReadTimeout \/ SocketError \/ Enqueue

Transformer == Consume \/ SendMessage \/ StopConsume

Publisher(t) ==
    TakeMessage(t) \/ BrokerReceives(t) \/ Acknowledged(t) \/ TokenError(t) \/ StopPublisher(t)

Next ==
    \/ Listener
    \/ Transformer
    \/ \E t \in Topics : Publisher(t)
    \/ \E m \in failed : LateDelivery(m)
    \/ ConnectionLost
    \/ Reconnect
    \/ Interrupt

Spec == Init /\ [][Next]_vars

(***************************************************************************)
(* Fairness: every goroutine that can run does (WF); a select that keeps   *)
(* finding a branch ready takes it in the end (SF); a read ends within a   *)
(* second; an open connection gets its PUBACKs.  That a broker which is    *)
(* away comes back is owed by nobody.                                      *)
(***************************************************************************)
Fairness ==
    /\ WF_vars(CheckContext)
    /\ WF_vars(ReadPacket \/ ReadTimeout \/ SocketError)
    /\ WF_vars(Enqueue)
    /\ SF_vars(Consume)
    /\ SF_vars(StopConsume)
    /\ WF_vars(SendMessage)
    /\ \A t \in Topics :
          /\ SF_vars(TakeMessage(t))
          /\ WF_vars(BrokerReceives(t))
          /\ WF_vars(Acknowledged(t))
          /\ SF_vars(StopPublisher(t))

FairSpec == Spec /\ Fairness

-----------------------------------------------------------------------------
(* Properties *)

AtMostOne(s) == Len(s) <= 1

\* Every variable has its type and every channel keeps its capacity.
TypeOK ==
    /\ ctxDone \in BOOLEAN
    /\ cause \in {"none", "signal", "socket", "panic"}
    /\ listener \in {"check", "read", "send", "stopped"}
    /\ inHand \in Seq(Packet) /\ AtMostOne(inHand)
    /\ packets \in Seq(Packet) /\ Len(packets) <= BufferCap
    /\ transformer \in {"select", "send", "stopped"}
    /\ outbox \in Seq(Message)
    /\ chan \in [Topics -> Seq(Message)]
    /\ publisher \in [Topics -> {"select", "publish", "ack", "stopped"}]
    /\ current \in [Topics -> Seq(Message)]
    /\ \A t \in Topics : Len(chan[t]) <= ChanCap /\ AtMostOne(current[t])
    /\ connected \in BOOLEAN
    /\ drops \in 0..MaxDrops
    /\ errors \in 0..MaxErrors
    /\ accepted \in Seq(Packet)
    /\ settled \in [Topics -> Seq(Message)]
    /\ failed \subseteq Message
    /\ received \in [Topics -> Seq(Message)]

\* How many of the packets Consume has taken.
Consumed == Len(accepted) - Len(packets) - Len(inHand)

\* What Route has still to send on the channel of t: all that is left of a
\* packet has one topic.
Routing(t) == IF outbox # <<>> /\ Head(outbox).topic = t THEN outbox ELSE <<>>

\* The messages of a topic, from the first one settled to the last one routed.
Flow(t) == settled[t] \o current[t] \o chan[t] \o Routing(t)

\* The messages of topic t in the packets taken.
Due(t) ==
    {m \in Message :
        /\ m.topic = t
        /\ m.id <= Consumed
        /\ accepted[m.id].topic = t
        /\ m.part <= accepted[m.id].n}

Before(m, n) == m.id < n.id \/ (m.id = n.id /\ m.part <= n.part)

\* In the order of the game, and nothing twice.
Increasing(s) == \A i, j \in DOMAIN s : i < j => Before(s[i], s[j]) /\ s[i] # s[j]

\* The stream of a topic is never broken: what was settled, is being
\* published, waits in the channel and is being routed is, in this order,
\* exactly the messages of the packets taken so far; the packets not yet taken
\* are the last ones read.  No message is skipped, duplicated or overtaken
\* between socket and client.
StreamIntact ==
    /\ packets \o inHand = SubSeq(accepted, Consumed + 1, Len(accepted))
    /\ \A t \in Topics : ToSet(Flow(t)) = Due(t) /\ Increasing(Flow(t))

\* The broker sees the messages of a topic in the order of the game, also
\* when messages are sent again after a lost connection: a duplicate follows
\* the original before anything newer.  A token error gives that up.
ReceivedInOrder ==
    errors = 0 =>
    \A t \in Topics : \A i, j \in DOMAIN received[t] :
        i < j => Before(received[t][i], received[t][j])

\* A socket error or a malformed packet brings the whole ingest down: a
\* listener or transformer that stops has cancelled everybody else.
StopsTogether ==
    (listener = "stopped" \/ transformer = "stopped"
        \/ \E t \in Topics : publisher[t] = "stopped") => ctxDone

PacketSettled(i) ==
    /\ Len(accepted) >= i
    /\ \A m \in ToSet(Messages(accepted[i])) : m \in ToSet(settled[m.topic])

\* The broker is never away for good.
OutagesEnd == []<>connected

\* Every message of a packet that was read is handed to MQTT in the end,
\* unless ingest is stopped or the broker never comes back: outages that end
\* and full channels only delay it.
EventuallySettled ==
    OutagesEnd =>
        \A i \in 1..MaxPackets :
            Len(accepted) >= i ~> (ctxDone \/ PacketSettled(i))

AllStopped ==
    /\ listener = "stopped"
    /\ transformer = "stopped"
    /\ \A t \in Topics : publisher[t] = "stopped"

\* The consumer of a full channel has stopped: the sender waits for ever.
ListenerStuck ==
    listener = "send" /\ Len(packets) = BufferCap /\ transformer = "stopped"

TransformerStuck ==
    /\ transformer = "send"
    /\ Len(chan[Head(outbox).topic]) = ChanCap
    /\ publisher[Head(outbox).topic] = "stopped"

\* token.Wait has no timeout and does not look at the context: without a
\* connection it does not return.
PublisherStuck ==
    ~connected /\ \E t \in Topics : publisher[t] \in {"publish", "ack"}

\* After cancellation main's wg.Wait returns, or the shutdown hangs in one of
\* three ways: the listener or the transformer on a full channel whose consumer
\* is gone, or a publisher on the token of a message while the broker stays
\* away for good.  An outage that ends does not hang it.
StopsOrSticks ==
    ctxDone ~> \/ AllStopped
               \/ ListenerStuck
               \/ TransformerStuck
               \/ []PublisherStuck

\* "Listen tries to read packets until `serverContext` is cancelled. If it is,
\* Listen returns nil." (f123.go:84-85)
ListenReturns == ctxDone ~> listener = "stopped"

=============================================================================
