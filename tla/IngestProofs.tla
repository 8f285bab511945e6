---------------------------- MODULE IngestProofs ----------------------------
(***************************************************************************)
(* Theorems about Ingest, for any topics, capacities, numbers of packets,  *)
(* laps, lost connections and token errors, under IngestAssumption.        *)
(*                                                                         *)
(* What is inductive: TypeOK together with                                 *)
(*   Numbered  packets carry their number and yield what IsPacket says     *)
(*   Queued    the packets not yet taken are the last ones read            *)
(*   Working   a goroutine has work in its hands exactly while it says so  *)
(*   OneTopic  what is left of a packet has one topic                      *)
(* then, on top of it, FlowIntact (what the topics carry) and InOrder      *)
(* (what the broker has received).                                         *)
(***************************************************************************)
EXTENDS Ingest, SequenceTheorems, TLAPS

-----------------------------------------------------------------------------
(* The invariant of the goroutines *)

Numbered ==
    \A i \in 1..Len(accepted) : accepted[i].id = i /\ IsPacket(accepted[i])

Queued ==
    /\ Consumed \in Nat
    /\ \A i \in 1..Len(packets) : packets[i] = accepted[Consumed + i]
    /\ inHand # <<>> => inHand[1] = accepted[Len(accepted)]

Working ==
    /\ listener = "send" <=> inHand # <<>>
    /\ transformer = "send" <=> outbox # <<>>
    /\ \A t \in Topics : publisher[t] \in {"publish", "ack"} <=> current[t] # <<>>

OneTopic == \A i, j \in 1..Len(outbox) : outbox[i].topic = outbox[j].topic

ShapeInv == TypeOK /\ Numbered /\ Queued /\ Working /\ OneTopic

\* A sequence with something in it.
LEMMA NotEmpty ==
  ASSUME NEW S, NEW s \in Seq(S), s # <<>>
  PROVE  Len(s) \in Nat \ {0}
  BY EmptySeq

\* Route sends messages of the packet, one for each of its laps.
LEMMA MessagesType ==
  ASSUME NEW p \in Packet, IsPacket(p)
  PROVE  /\ Messages(p) \in Seq(Message)
         /\ Len(Messages(p)) = p.n
         /\ \A i \in 1..p.n : Messages(p)[i] = [topic |-> p.topic, id |-> p.id, part |-> i]
         /\ Messages(p) = <<>> <=> p.n = 0
         /\ p.n > 0 => p.topic \in Topics
PROOF
  <1>1. p.n \in 0..MaxLaps /\ MaxLaps \in Nat /\ p.id \in 1..MaxPackets
    BY IngestAssumption DEF Packet
  <1>2. p.n > 0 => p.topic \in Topics
    BY <1>1, IngestAssumption DEF IsPacket
  <1>3. \A i \in 1..p.n : [topic |-> p.topic, id |-> p.id, part |-> i] \in Message
    BY <1>1, <1>2 DEF Message
  <1>4. Messages(p) \in Seq(Message) /\ Len(Messages(p)) = p.n
    BY <1>1, <1>3 DEF Messages
  <1>5. \A i \in 1..p.n : Messages(p)[i] = [topic |-> p.topic, id |-> p.id, part |-> i]
    BY DEF Messages
  <1>6. Messages(p) = <<>> <=> p.n = 0
    BY <1>4, <1>1, EmptySeq
  <1> QED BY <1>2, <1>4, <1>5, <1>6

\* The packets in the hands of the listener: none or one.
LEMMA InHand ==
  ASSUME TypeOK
  PROVE  /\ Len(inHand) \in {0, 1} /\ Len(packets) \in Nat /\ Len(accepted) \in Nat
         /\ inHand # <<>> => Len(inHand) = 1 /\ inHand[1] \in Packet
         /\ inHand = <<>> => Len(inHand) = 0
PROOF
  <1>1. /\ inHand \in Seq(Packet) /\ packets \in Seq(Packet) /\ accepted \in Seq(Packet)
        /\ Len(inHand) <= 1
    BY DEF TypeOK, AtMostOne
  <1>2. Len(inHand) \in Nat /\ Len(packets) \in Nat /\ Len(accepted) \in Nat
    BY <1>1, LenProperties
  <1>3. inHand # <<>> => Len(inHand) \in Nat \ {0}
    <2>1. inHand \in Seq(Packet)
      BY <1>1
    <2> QED BY <2>1, EmptySeq
  <1>4. inHand # <<>> => Len(inHand) = 1
    <2> SUFFICES ASSUME inHand # <<>> PROVE Len(inHand) = 1
      OBVIOUS
    <2>1. \A n \in Nat \ {0} : n <= 1 => n = 1
      OBVIOUS
    <2>2. Len(inHand) \in Nat \ {0} /\ Len(inHand) <= 1
      BY <1>1, <1>3
    <2> QED BY <2>1, <2>2
  <1>5. inHand # <<>> => inHand[1] \in Packet
    BY <1>1, <1>4, ElementOfSeq
  <1> QED BY <1>1, <1>2, <1>4, <1>5, EmptySeq

\* The packet that Consume takes is the next one in the order of reading.
LEMMA NextPacket ==
  ASSUME ShapeInv, packets # <<>>
  PROVE  /\ Head(packets) \in Packet /\ IsPacket(Head(packets))
         /\ Head(packets) = accepted[Consumed + 1]
         /\ Consumed + 1 \in 1..Len(accepted)
PROOF
  <1>1. packets \in Seq(Packet) /\ Len(packets) \in Nat \ {0} /\ Head(packets) = packets[1]
    BY EmptySeq DEF ShapeInv, TypeOK
  <1>2. Head(packets) \in Packet
    BY <1>1, HeadTailProperties
  <1>3. Consumed + 1 \in 1..Len(accepted)
    BY <1>1, InHand DEF ShapeInv, Queued, Consumed
  <1>4. packets[1] = accepted[Consumed + 1]
    BY <1>1 DEF ShapeInv, Queued
  <1> QED BY <1>1, <1>2, <1>3, <1>4 DEF ShapeInv, Numbered

\* What Route sends next, and what is left after it.
LEMMA NextMessage ==
  ASSUME ShapeInv, transformer = "send"
  PROVE  /\ outbox # <<>> /\ outbox \in Seq(Message)
         /\ Head(outbox) \in Message /\ Head(outbox).topic \in Topics
         /\ Tail(outbox) \in Seq(Message)
         /\ Len(Tail(outbox)) = Len(outbox) - 1
         /\ \A i \in 1..Len(Tail(outbox)) : Tail(outbox)[i] = outbox[i + 1]
         /\ Len(outbox) \in Nat \ {0}
PROOF
  <1>1. outbox # <<>> /\ outbox \in Seq(Message)
    BY DEF ShapeInv, Working, TypeOK
  <1>2. Len(outbox) \in Nat \ {0}
    BY <1>1, EmptySeq
  <1>3. /\ Head(outbox) \in Message /\ Tail(outbox) \in Seq(Message)
        /\ Len(Tail(outbox)) = Len(outbox) - 1
        /\ \A i \in 1..Len(Tail(outbox)) : Tail(outbox)[i] = outbox[i + 1]
    BY <1>1, HeadTailProperties
  <1>4. Head(outbox).topic \in Topics
    BY <1>3 DEF Message
  <1> QED BY <1>1, <1>2, <1>3, <1>4

\* The steps of Listen keep the invariant.
LEMMA ListenerShape == ShapeInv /\ Listener => ShapeInv'
PROOF
  <1> SUFFICES ASSUME ShapeInv, Listener PROVE ShapeInv'
    OBVIOUS
  <1> USE DEF readVars, routeVars, publishVars
  <1>1. CASE CheckContext
    BY <1>1 DEF CheckContext, ShapeInv, TypeOK, Numbered, Queued, Consumed, Working, OneTopic
  <1>2. CASE ReadTimeout
    BY <1>2 DEF ReadTimeout, ShapeInv, TypeOK, Numbered, Queued, Consumed, Working, OneTopic
  <1>3. CASE SocketError
    BY <1>3 DEF SocketError, Cancel, ShapeInv, TypeOK, Numbered, Queued, Consumed, Working, OneTopic
  <1>4. CASE ReadPacket
    <2>1. PICK p \in Packet : /\ p.id = Len(accepted) + 1 /\ IsPacket(p)
                              /\ inHand' = <<p>> /\ accepted' = Append(accepted, p)
      BY <1>4 DEF ReadPacket
    <2>2. /\ listener = "read" /\ listener' = "send"
          /\ UNCHANGED <<ctxDone, cause, packets, routeVars, chan, publishVars>>
      BY <1>4 DEF ReadPacket
    <2>3. inHand = <<>> /\ accepted \in Seq(Packet) /\ Len(accepted) \in Nat /\ Len(inHand) = 0
          /\ Len(packets) \in Nat
      BY <2>2, InHand DEF ShapeInv, Working, TypeOK
    <2>4. /\ accepted' \in Seq(Packet) /\ Len(accepted') = Len(accepted) + 1
          /\ \A i \in 1..Len(accepted) : accepted'[i] = accepted[i]
          /\ accepted'[Len(accepted) + 1] = p
      BY <2>1, <2>3, AppendProperties
    <2>5. inHand' \in Seq(Packet) /\ Len(inHand') = 1 /\ inHand'[1] = p /\ inHand' # <<>>
      BY <2>1
    <2>6. Consumed' = Consumed
      BY <2>2, <2>3, <2>4, <2>5 DEF Consumed
    <2>7. TypeOK'
      BY <2>2, <2>4, <2>5 DEF ShapeInv, TypeOK, AtMostOne
    <2>8. Numbered'
      BY <2>1, <2>3, <2>4 DEF ShapeInv, Numbered
    <2>9. Queued'
      <3>1. \A i \in 1..Len(packets) : Consumed + i \in 1..Len(accepted)
        BY <2>3 DEF Consumed, ShapeInv, Queued
      <3> QED BY <2>2, <2>4, <2>5, <2>6, <3>1 DEF ShapeInv, Queued
    <2>10. Working' /\ OneTopic'
      BY <2>2, <2>5 DEF ShapeInv, Working, OneTopic
    <2> QED BY <2>7, <2>8, <2>9, <2>10 DEF ShapeInv
  <1>5. CASE Enqueue
    <2>1. /\ listener = "send" /\ listener' = "check" /\ Len(packets) < BufferCap
          /\ packets' = packets \o inHand /\ inHand' = <<>>
          /\ UNCHANGED <<ctxDone, cause, accepted, routeVars, chan, publishVars>>
      BY <1>5 DEF Enqueue
    <2>2. inHand # <<>> /\ Len(inHand) = 1 /\ Len(packets) \in Nat /\ Len(accepted) \in Nat
      BY <2>1, InHand DEF ShapeInv, Working
    <2>3. packets \in Seq(Packet) /\ inHand \in Seq(Packet)
      BY DEF ShapeInv, TypeOK
    <2>4. /\ packets' \in Seq(Packet) /\ Len(packets') = Len(packets) + 1
          /\ \A i \in 1..Len(packets) : packets'[i] = packets[i]
          /\ packets'[Len(packets) + 1] = inHand[1]
      BY <2>1, <2>2, <2>3, ConcatProperties
    <2>5. inHand' \in Seq(Packet) /\ Len(inHand') = 0
      BY <2>1
    <2>6. Consumed' = Consumed
      BY <2>1, <2>2, <2>4, <2>5 DEF Consumed
    <2>7. Len(packets') <= BufferCap
      BY <2>1, <2>2, <2>4, IngestAssumption
    <2>8. TypeOK'
      BY <2>1, <2>4, <2>5, <2>7 DEF ShapeInv, TypeOK, AtMostOne
    <2>9. Numbered'
      BY <2>1 DEF ShapeInv, Numbered
    <2>10. Queued'
      <3>1. inHand[1] = accepted[Consumed + (Len(packets) + 1)]
        BY <2>2 DEF Consumed, ShapeInv, Queued
      <3> QED BY <2>1, <2>2, <2>4, <2>6, <3>1 DEF ShapeInv, Queued
    <2>11. Working' /\ OneTopic'
      BY <2>1 DEF ShapeInv, Working, OneTopic
    <2> QED BY <2>8, <2>9, <2>10, <2>11 DEF ShapeInv
  <1> QED BY <1>1, <1>2, <1>3, <1>4, <1>5 DEF Listener

\* The steps of Consume keep the invariant.
LEMMA TransformerShape == ShapeInv /\ Transformer => ShapeInv'
PROOF
  <1> SUFFICES ASSUME ShapeInv, Transformer PROVE ShapeInv'
    OBVIOUS
  <1> USE DEF readVars, routeVars, publishVars
  <1>1. CASE Consume
    <2> DEFINE p == Head(packets)
    <2>1. /\ transformer = "select" /\ packets # <<>> /\ packets' = Tail(packets)
          /\ outbox' = Messages(p)
          /\ UNCHANGED <<readVars, chan, publishVars>>
      BY <1>1 DEF Consume
    <2>2. /\ p \in Packet /\ IsPacket(p) /\ p = accepted[Consumed + 1]
      BY <2>1, NextPacket
    <2>3. /\ Messages(p) \in Seq(Message)
          /\ \A i \in 1..p.n : Messages(p)[i] = [topic |-> p.topic, id |-> p.id, part |-> i]
          /\ Messages(p) = <<>> <=> p.n = 0
          /\ Len(Messages(p)) = p.n
          /\ p.n > 0 => p.topic \in Topics
      BY <2>2, MessagesType
    <2>4. /\ packets' \in Seq(Packet) /\ Len(packets') = Len(packets) - 1
          /\ \A i \in 1..Len(packets') : packets'[i] = packets[i + 1]
          /\ Len(packets) \in Nat \ {0}
      BY <2>1, HeadTailProperties, EmptySeq DEF ShapeInv, TypeOK
    <2>5. Consumed' = Consumed + 1
      BY <2>1, <2>4, InHand DEF Consumed, ShapeInv
    <2>6. transformer' \in {"select", "send", "stopped"} /\ (transformer' = "send" <=> p.n # 0)
      <3>1. p.topic = Malformed => p.n = 0
        BY <2>2, IngestAssumption DEF IsPacket
      <3> QED BY <1>1, <3>1 DEF Consume
    <2>7. ctxDone' \in BOOLEAN /\ cause' \in {"none", "signal", "socket", "panic"}
      BY <1>1 DEF Consume, Cancel, ShapeInv, TypeOK
    <2> HIDE DEF p
    <2>8. TypeOK'
      <3>1. Len(packets') <= BufferCap
        <4>1. Len(packets) <= BufferCap
          BY DEF ShapeInv, TypeOK
        <4> QED BY <2>4, <4>1, IngestAssumption
      <3> QED BY <2>1, <2>3, <2>4, <2>6, <2>7, <3>1 DEF ShapeInv, TypeOK
    <2>9. Numbered'
      BY <2>1 DEF ShapeInv, Numbered
    <2>10. Queued'
      <3>1. \A i \in 1..Len(packets') : packets'[i] = accepted[(Consumed + 1) + i]
        <4> SUFFICES ASSUME NEW i \in 1..Len(packets') PROVE packets'[i] = accepted[(Consumed + 1) + i]
          OBVIOUS
        <4>1. i + 1 \in 1..Len(packets) /\ packets'[i] = packets[i + 1]
          BY <2>4
        <4>2. packets[i + 1] = accepted[Consumed + (i + 1)] /\ Consumed \in Nat
          BY <4>1 DEF ShapeInv, Queued
        <4>3. Consumed + (i + 1) = (Consumed + 1) + i
          BY <4>2
        <4> QED BY <4>1, <4>2, <4>3
      <3>2. inHand # <<>> => inHand[1] = accepted[Len(accepted)]
        BY DEF ShapeInv, Queued
      <3>3. Consumed + 1 \in Nat
        BY DEF ShapeInv, Queued
      <3> HIDE DEF p
      <3> QED BY <2>1, <2>5, <3>1, <3>2, <3>3 DEF Queued
    <2>11. Working'
      <3>1. transformer' = "send" <=> outbox' # <<>>
        BY <2>1, <2>3, <2>6
      <3>2. UNCHANGED <<listener, inHand, publisher, current>>
        BY <2>1
      <3> QED BY <3>1, <3>2 DEF ShapeInv, Working
    <2>12. OneTopic'
      <3>1. ASSUME NEW i \in 1..p.n PROVE Messages(p)[i].topic = p.topic
        <4>1. Messages(p)[i] = [topic |-> p.topic, id |-> p.id, part |-> i]
          BY <2>3
        <4> QED BY <4>1
      <3>2. \A i \in 1..Len(outbox') : outbox'[i].topic = p.topic
        BY <2>1, <2>3, <3>1
      <3> QED BY <3>2 DEF OneTopic
    <2> QED BY <2>8, <2>9, <2>10, <2>11, <2>12 DEF ShapeInv
  <1>2. CASE SendMessage
    <2> DEFINE m == Head(outbox)
    <2>1. /\ transformer = "send" /\ Len(chan[m.topic]) < ChanCap
          /\ chan' = [chan EXCEPT ![m.topic] = Append(@, m)]
          /\ outbox' = Tail(outbox)
          /\ transformer' = IF Tail(outbox) = <<>> THEN "select" ELSE "send"
          /\ UNCHANGED <<ctxDone, cause, readVars, packets, publishVars>>
      BY <1>2 DEF SendMessage
    <2>2. /\ m \in Message /\ m.topic \in Topics /\ Tail(outbox) \in Seq(Message)
          /\ Len(Tail(outbox)) = Len(outbox) - 1
          /\ \A i \in 1..Len(Tail(outbox)) : Tail(outbox)[i] = outbox[i + 1]
          /\ Len(outbox) \in Nat \ {0}
      BY <2>1, NextMessage
    <2> HIDE DEF m
    <2>3. chan' \in [Topics -> Seq(Message)] /\ \A t \in Topics : Len(chan'[t]) <= ChanCap
      <3>1. chan \in [Topics -> Seq(Message)] /\ \A t \in Topics : Len(chan[t]) <= ChanCap
        BY DEF ShapeInv, TypeOK
      <3>2. /\ Append(chan[m.topic], m) \in Seq(Message)
            /\ Len(Append(chan[m.topic], m)) = Len(chan[m.topic]) + 1
            /\ Len(chan[m.topic]) \in Nat
        BY <2>2, <3>1, AppendProperties, LenProperties
      <3>3. Len(Append(chan[m.topic], m)) <= ChanCap
        BY <2>1, <3>2, IngestAssumption
      <3> QED BY <2>1, <2>2, <3>1, <3>2, <3>3
    <2>4. TypeOK'
      BY <2>1, <2>2, <2>3 DEF ShapeInv, TypeOK
    <2>5. Numbered' /\ Queued'
      BY <2>1 DEF ShapeInv, Numbered, Queued, Consumed
    <2>6. Working'
      BY <2>1 DEF ShapeInv, Working
    <2>7. OneTopic'
      <3> SUFFICES ASSUME NEW i \in 1..Len(Tail(outbox)), NEW j \in 1..Len(Tail(outbox))
                   PROVE  Tail(outbox)[i].topic = Tail(outbox)[j].topic
        BY <2>1 DEF OneTopic
      <3>1. i + 1 \in 1..Len(outbox) /\ j + 1 \in 1..Len(outbox)
        BY <2>2
      <3> QED BY <2>2, <3>1 DEF ShapeInv, OneTopic
    <2> QED BY <2>4, <2>5, <2>6, <2>7 DEF ShapeInv
  <1>3. CASE StopConsume
    BY <1>3 DEF StopConsume, ShapeInv, TypeOK, Numbered, Queued, Consumed, Working, OneTopic
  <1> QED BY <1>1, <1>2, <1>3 DEF Transformer

\* The steps of a publisher and of its client keep the invariant.
LEMMA PublisherShape ==
  ASSUME ShapeInv, NEW t \in Topics, Publisher(t)
  PROVE  ShapeInv'
PROOF
  <1> USE DEF readVars, routeVars, publishVars
  <1>1. /\ chan[t] \in Seq(Message) /\ current[t] \in Seq(Message)
        /\ settled[t] \in Seq(Message) /\ received[t] \in Seq(Message)
        /\ <<>> \in Seq(Message) /\ Len(<<>>) = 0
    BY EmptySeq DEF ShapeInv, TypeOK
  <1>2. /\ settled[t] \o current[t] \in Seq(Message)
        /\ received[t] \o current[t] \in Seq(Message)
    BY <1>1, ConcatProperties
  <1>3. ASSUME UNCHANGED <<accepted, packets, inHand, listener, transformer, outbox>>, TypeOK',
               \A u \in Topics : publisher'[u] \in {"publish", "ack"} <=> current'[u] # <<>>
        PROVE  ShapeInv'
    BY <1>3 DEF ShapeInv, Numbered, Queued, Consumed, Working, OneTopic
  <1>4. CASE TakeMessage(t)
    <2>1. /\ chan[t] # <<>> /\ current' = [current EXCEPT ![t] = <<Head(chan[t])>>]
          /\ chan' = [chan EXCEPT ![t] = Tail(@)]
          /\ publisher' = [publisher EXCEPT ![t] = "publish"]
          /\ UNCHANGED <<ctxDone, cause, readVars, packets, routeVars, settled, failed,
                         received, connected, drops, errors>>
      BY <1>4 DEF TakeMessage
    <2>2. /\ Tail(chan[t]) \in Seq(Message) /\ Len(Tail(chan[t])) = Len(chan[t]) - 1
          /\ Head(chan[t]) \in Message /\ Len(chan[t]) \in Nat
      BY <1>1, <2>1, HeadTailProperties, LenProperties
    <2>3. <<Head(chan[t])>> \in Seq(Message) /\ Len(<<Head(chan[t])>>) = 1
          /\ <<Head(chan[t])>> # <<>>
      BY <2>2
    <2>4. chan' \in [Topics -> Seq(Message)] /\ current' \in [Topics -> Seq(Message)]
      BY <2>1, <2>2, <2>3 DEF ShapeInv, TypeOK
    <2>5. \A u \in Topics : Len(chan'[u]) <= ChanCap /\ AtMostOne(current'[u])
      <3>1. Len(Tail(chan[t])) <= ChanCap
        BY <2>2, IngestAssumption DEF ShapeInv, TypeOK
      <3> QED BY <2>1, <2>3, <3>1 DEF ShapeInv, TypeOK, AtMostOne
    <2>6. TypeOK'
      BY <2>1, <2>4, <2>5 DEF ShapeInv, TypeOK
    <2>7. \A u \in Topics : publisher'[u] \in {"publish", "ack"} <=> current'[u] # <<>>
      BY <2>1, <2>3 DEF ShapeInv, Working, TypeOK
    <2> QED BY <1>3, <2>1, <2>6, <2>7
  <1>5. CASE BrokerReceives(t)
    <2>1. TypeOK'
      BY <1>2, <1>5 DEF BrokerReceives, ShapeInv, TypeOK
    <2> QED BY <1>3, <1>5, <2>1 DEF BrokerReceives, ShapeInv, Working, TypeOK
  <1>6. ASSUME Settle(t), publisher[t] \in {"publish", "ack"}, failed' \subseteq Message,
               errors' \in 0..MaxErrors
        PROVE  ShapeInv'
    <2>1. current' \in [Topics -> Seq(Message)] /\ \A u \in Topics : AtMostOne(current'[u])
      BY <1>1, <1>6 DEF Settle, ShapeInv, TypeOK, AtMostOne
    <2>2. TypeOK'
      BY <1>2, <1>6, <2>1 DEF Settle, ShapeInv, TypeOK
    <2>3. \A u \in Topics : publisher'[u] \in {"publish", "ack"} <=> current'[u] # <<>>
      BY <1>6 DEF Settle, ShapeInv, Working, TypeOK
    <2> QED BY <1>3, <1>6, <2>2, <2>3 DEF Settle
  <1>7. CASE Acknowledged(t)
    BY <1>6, <1>7 DEF Acknowledged, ShapeInv, TypeOK
  <1>8. CASE TokenError(t)
    <2>1. ToSet(current[t]) \subseteq Message
      BY <1>1 DEF ToSet
    <2>2. errors + 1 \in 0..MaxErrors
      BY <1>8, IngestAssumption DEF TokenError, ShapeInv, TypeOK
    <2>3. failed' \subseteq Message /\ errors' \in 0..MaxErrors
      BY <1>8, <2>1, <2>2 DEF TokenError, ShapeInv, TypeOK
    <2> QED BY <1>6, <1>8, <2>3 DEF TokenError
  <1>9. CASE StopPublisher(t)
    <2>1. TypeOK'
      BY <1>9 DEF StopPublisher, ShapeInv, TypeOK
    <2> QED BY <1>3, <1>9, <2>1 DEF StopPublisher, ShapeInv, Working, TypeOK
  <1> QED BY <1>4, <1>5, <1>7, <1>8, <1>9 DEF Publisher

\* So do the connection, the messages that come late, and the signal.
LEMMA ConnectionShape ==
  ASSUME ShapeInv,
         \/ ConnectionLost \/ Reconnect \/ Interrupt \/ UNCHANGED vars
         \/ \E m \in failed : LateDelivery(m)
  PROVE  ShapeInv'
PROOF
  <1> USE DEF readVars, routeVars, publishVars
  <1>1. CASE ConnectionLost
    <2>1. TypeOK'
      <3>1. publisher' \in [Topics -> {"select", "publish", "ack", "stopped"}]
        BY <1>1 DEF ConnectionLost, ShapeInv, TypeOK
      <3>2. drops' \in 0..MaxDrops /\ connected' \in BOOLEAN
        <4>1. MaxDrops \in Nat /\ drops \in 0..MaxDrops
          BY IngestAssumption DEF ShapeInv, TypeOK
        <4>2. drops < MaxDrops /\ drops' = drops + 1 /\ connected' = FALSE
          BY <1>1 DEF ConnectionLost
        <4>3. drops' \in 0..MaxDrops
          BY <4>1, <4>2
        <4>4. connected' \in BOOLEAN
          BY <4>2
        <4> QED BY <4>3, <4>4
      <3>3. UNCHANGED <<ctxDone, cause, listener, inHand, accepted, packets, transformer, outbox,
                        chan, current, settled, failed, received, errors>>
        BY <1>1 DEF ConnectionLost
      <3> QED BY <3>1, <3>2, <3>3 DEF ShapeInv, TypeOK
    <2>2. UNCHANGED <<accepted, packets, inHand, listener, transformer, outbox, current>>
      BY <1>1 DEF ConnectionLost
    <2>3. \A t \in Topics : publisher'[t] \in {"publish", "ack"} <=> publisher[t] \in {"publish", "ack"}
      BY <1>1 DEF ConnectionLost
    <2>4. Working'
      BY <2>2, <2>3 DEF ShapeInv, Working
    <2> QED
      BY <2>1, <2>2, <2>4 DEF ShapeInv, Numbered, Queued, Consumed, OneTopic
  <1>2. CASE Reconnect
    BY <1>2 DEF Reconnect, ShapeInv, TypeOK, Numbered, Queued, Consumed, Working, OneTopic
  <1>3. CASE Interrupt
    BY <1>3 DEF Interrupt, Cancel, ShapeInv, TypeOK, Numbered, Queued, Consumed, Working, OneTopic
  <1>4. CASE UNCHANGED vars
    <2>1. UNCHANGED <<ctxDone, cause, listener, inHand, accepted, packets, transformer, outbox,
                      chan, publisher, current, settled, failed, received, connected, drops, errors>>
      BY <1>4 DEF vars
    <2>2. TypeOK'
      BY <2>1 DEF ShapeInv, TypeOK
    <2>3. Numbered' /\ Queued' /\ Working' /\ OneTopic'
      BY <2>1 DEF ShapeInv, Numbered, Queued, Consumed, Working, OneTopic
    <2> QED BY <2>2, <2>3 DEF ShapeInv
  <1>5. ASSUME NEW m \in failed, LateDelivery(m) PROVE ShapeInv'
    <2>1. m \in Message /\ m.topic \in Topics
      BY DEF ShapeInv, TypeOK, Message
    <2>2. Append(received[m.topic], m) \in Seq(Message)
      BY <2>1, AppendProperties DEF ShapeInv, TypeOK
    <2>3. TypeOK'
      BY <1>5, <2>1, <2>2 DEF LateDelivery, ShapeInv, TypeOK
    <2> QED
      BY <1>5, <2>3 DEF LateDelivery, ShapeInv, Numbered, Queued, Consumed, Working, OneTopic
  <1> QED BY <1>1, <1>2, <1>3, <1>4, <1>5

\* Every step keeps the invariant.
LEMMA ShapeStep == ShapeInv /\ [Next]_vars => ShapeInv'
  BY ListenerShape, TransformerShape, PublisherShape, ConnectionShape DEF Next

\* The invariant holds in every state.
LEMMA AlwaysShape == Spec => []ShapeInv
PROOF
  <1>1. Init => ShapeInv
    <2> SUFFICES ASSUME Init PROVE ShapeInv
      OBVIOUS
    <2>1. /\ \A S : <<>> \in Seq(S)
          /\ Len(<<>>) = 0
      BY EmptySeq
    <2>2. TypeOK
      <3>1. /\ inHand \in Seq(Packet) /\ AtMostOne(inHand)
            /\ packets \in Seq(Packet) /\ Len(packets) <= BufferCap
            /\ outbox \in Seq(Message) /\ accepted \in Seq(Packet)
        BY <2>1, IngestAssumption DEF Init, AtMostOne
      <3>2. /\ chan \in [Topics -> Seq(Message)] /\ current \in [Topics -> Seq(Message)]
            /\ settled \in [Topics -> Seq(Message)] /\ received \in [Topics -> Seq(Message)]
            /\ publisher \in [Topics -> {"select", "publish", "ack", "stopped"}]
        BY <2>1 DEF Init
      <3>3. \A t \in Topics : Len(chan[t]) <= ChanCap /\ AtMostOne(current[t])
        BY <2>1, IngestAssumption DEF Init, AtMostOne
      <3>4. drops \in 0..MaxDrops /\ errors \in 0..MaxErrors
        BY IngestAssumption DEF Init
      <3> QED BY <3>1, <3>2, <3>3, <3>4 DEF Init, TypeOK
    <2>3. Numbered /\ Queued /\ Working /\ OneTopic
      BY <2>1 DEF Init, Numbered, Queued, Consumed, Working, OneTopic
    <2> QED BY <2>2, <2>3 DEF ShapeInv
  <1> QED BY <1>1, ShapeStep, PTL DEF Spec

\* Every variable has its type and every channel keeps its capacity, whatever
\* is read, lost or refused: Route never sends anything but a message of a
\* topic, however malformed or foreign the datagrams are.
THEOREM IngestTypes == Spec => []TypeOK
  BY AlwaysShape, PTL DEF ShapeInv

\* A listener, transformer or publisher that has stopped is part of the
\* shutdown of all of them, for any number of topics.
THEOREM NobodyStopsAlone == Spec => []StopsTogether
PROOF
  <1>1. Init => StopsTogether
    BY DEF Init, StopsTogether
  <1>2. ShapeInv /\ StopsTogether /\ [Next]_vars => StopsTogether'
    <2> SUFFICES ASSUME ShapeInv, StopsTogether, [Next]_vars PROVE StopsTogether'
      OBVIOUS
    <2> USE DEF readVars, routeVars, publishVars
    <2>1. ctxDone => ctxDone'
      BY DEF Next, Listener, Transformer, Publisher, CheckContext, ReadPacket, ReadTimeout,
         SocketError, Enqueue, Consume, SendMessage, StopConsume, TakeMessage, BrokerReceives,
         Acknowledged, TokenError, Settle, StopPublisher, LateDelivery, ConnectionLost,
         Reconnect, Interrupt, Cancel, vars
    <2>2. listener' = "stopped" => listener = "stopped" \/ ctxDone'
      <3>1. CASE Listener
        BY <3>1 DEF Listener, CheckContext, ReadPacket, ReadTimeout, SocketError, Enqueue, Cancel
      <3>2. CASE UNCHANGED listener
        BY <3>2
      <3> QED
        BY <3>1, <3>2 DEF Next, Transformer, Publisher, Consume, SendMessage, StopConsume,
           TakeMessage, BrokerReceives, Acknowledged, TokenError, Settle, StopPublisher,
           LateDelivery, ConnectionLost, Reconnect, Interrupt, vars
    <2>3. transformer' = "stopped" => transformer = "stopped" \/ ctxDone'
      <3>1. CASE Transformer
        BY <3>1 DEF Transformer, Consume, SendMessage, StopConsume, Cancel
      <3>2. CASE UNCHANGED transformer
        BY <3>2
      <3> QED
        BY <3>1, <3>2 DEF Next, Listener, Publisher, CheckContext, ReadPacket, ReadTimeout,
           SocketError, Enqueue, TakeMessage, BrokerReceives, Acknowledged, TokenError, Settle,
           StopPublisher, LateDelivery, ConnectionLost, Reconnect, Interrupt, vars
    <2>4. ASSUME NEW t \in Topics, publisher'[t] = "stopped" PROVE publisher[t] = "stopped" \/ ctxDone'
      <3>1. ASSUME NEW u \in Topics, Publisher(u) PROVE publisher[t] = "stopped" \/ ctxDone'
        BY <2>4, <3>1 DEF Publisher, TakeMessage, BrokerReceives, Acknowledged, TokenError,
           Settle, StopPublisher, ShapeInv, TypeOK
      <3>2. CASE ConnectionLost
        BY <2>4, <3>2 DEF ConnectionLost
      <3>3. CASE UNCHANGED publisher
        BY <2>4, <3>3
      <3> QED
        BY <3>1, <3>2, <3>3 DEF Next, Listener, Transformer, CheckContext, ReadPacket,
           ReadTimeout, SocketError, Enqueue, Consume, SendMessage, StopConsume, LateDelivery,
           Reconnect, Interrupt, vars
    <2> QED BY <2>1, <2>2, <2>3, <2>4 DEF StopsTogether
  <1> QED BY <1>1, <1>2, AlwaysShape, PTL DEF Spec

-----------------------------------------------------------------------------
(* Sequences in two hands *)

\* A sequence is its first element and the rest.
LEMMA HeadAndTail ==
  ASSUME NEW S, NEW s \in Seq(S), s # <<>>
  PROVE  <<Head(s)>> \o Tail(s) = s
PROOF
  <1>1. /\ Head(s) \in S /\ Tail(s) \in Seq(S) /\ Len(Tail(s)) = Len(s) - 1
        /\ \A i \in 1..Len(Tail(s)) : Tail(s)[i] = s[i + 1]
        /\ Len(s) \in Nat \ {0} /\ Head(s) = s[1]
    BY HeadTailProperties, EmptySeq
  <1>2. <<Head(s)>> \in Seq(S) /\ Len(<<Head(s)>>) = 1 /\ <<Head(s)>>[1] = Head(s)
    BY <1>1
  <1>3. /\ <<Head(s)>> \o Tail(s) \in Seq(S)
        /\ Len(<<Head(s)>> \o Tail(s)) = Len(s)
        /\ \A i \in 1..Len(s) :
              (<<Head(s)>> \o Tail(s))[i] = IF i <= 1 THEN <<Head(s)>>[i] ELSE Tail(s)[i - 1]
    BY <1>1, <1>2, ConcatProperties
  <1>4. \A i \in 1..Len(s) : (<<Head(s)>> \o Tail(s))[i] = s[i]
    <2> SUFFICES ASSUME NEW i \in 1..Len(s) PROVE (<<Head(s)>> \o Tail(s))[i] = s[i]
      OBVIOUS
    <2>1. CASE i = 1
      BY <1>1, <1>2, <1>3, <2>1
    <2>2. CASE i # 1
      <3>1. i - 1 \in 1..Len(Tail(s)) /\ Tail(s)[i - 1] = s[(i - 1) + 1] /\ (i - 1) + 1 = i
        BY <1>1, <2>2
      <3> QED BY <1>1, <1>3, <2>2, <3>1
    <2> QED BY <2>1, <2>2
  <1> QED BY <1>3, <1>4, SeqEqual

\* A publisher takes the first message of its channel into its hands.
LEMMA TakeKeeps ==
  ASSUME NEW S, NEW a \in Seq(S), NEW c \in Seq(S), NEW r \in Seq(S), c # <<>>
  PROVE  ((a \o <<>>) \o c) \o r = ((a \o <<Head(c)>>) \o Tail(c)) \o r
PROOF
  <1>1. <<Head(c)>> \in Seq(S) /\ Tail(c) \in Seq(S)
    BY HeadTailProperties
  <1>2. (a \o <<Head(c)>>) \o Tail(c) = a \o (<<Head(c)>> \o Tail(c))
    BY <1>1, ConcatAssociative
  <1>3. a \o <<>> = a
    BY ConcatEmptySeq
  <1> QED BY <1>2, <1>3, HeadAndTail

\* Route sends the first message it has left.
LEMMA SendKeeps ==
  ASSUME NEW S, NEW a \in Seq(S), NEW c \in Seq(S), NEW r \in Seq(S), r # <<>>
  PROVE  (a \o c) \o r = (a \o Append(c, Head(r))) \o Tail(r)
PROOF
  <1>1. /\ Head(r) \in S /\ Tail(r) \in Seq(S)
        /\ <<Head(r)>> \in Seq(S) /\ c \o <<Head(r)>> \in Seq(S) /\ a \o c \in Seq(S)
    <2>1. Head(r) \in S /\ Tail(r) \in Seq(S)
      BY HeadTailProperties
    <2>2. <<Head(r)>> \in Seq(S)
      BY <2>1
    <2> QED BY <2>1, <2>2, ConcatProperties
  <1>2. Append(c, Head(r)) = c \o <<Head(r)>>
    BY <1>1, AppendIsConcat
  <1>3. a \o (c \o <<Head(r)>>) = (a \o c) \o <<Head(r)>>
    BY <1>1, ConcatAssociative
  <1>4. ((a \o c) \o <<Head(r)>>) \o Tail(r) = (a \o c) \o (<<Head(r)>> \o Tail(r))
    BY <1>1, ConcatAssociative
  <1> QED BY <1>2, <1>3, <1>4, HeadAndTail

\* What a concatenation contains.
LEMMA SetOfConcat ==
  ASSUME NEW S, NEW s \in Seq(S), NEW q \in Seq(S)
  PROVE  ToSet(s \o q) = ToSet(s) \cup ToSet(q)
PROOF
  <1>1. \A f : ToSet(f) = Range(f)
    BY DEF ToSet, Range
  <1>2. Range(s \o q) = Range(s) \cup Range(q)
    BY RangeConcatenation
  <1> QED BY <1>1, <1>2

\* A stream continued with later packets keeps its order.
LEMMA IncreasingConcat ==
  ASSUME NEW s \in Seq(Message), NEW q \in Seq(Message), Increasing(s), Increasing(q),
         \A m \in ToSet(s), n \in ToSet(q) : m.id < n.id
  PROVE  Increasing(s \o q)
PROOF
  <1>1. /\ s \o q \in Seq(Message) /\ Len(s \o q) = Len(s) + Len(q)
        /\ \A i \in 1..Len(s) + Len(q) : (s \o q)[i] = IF i <= Len(s) THEN s[i] ELSE q[i - Len(s)]
        /\ Len(s) \in Nat /\ Len(q) \in Nat /\ DOMAIN s = 1..Len(s) /\ DOMAIN q = 1..Len(q)
        /\ DOMAIN (s \o q) = 1..Len(s) + Len(q)
    BY ConcatProperties, LenProperties
  <1> SUFFICES ASSUME NEW i \in 1..Len(s) + Len(q), NEW j \in 1..Len(s) + Len(q), i < j
               PROVE  Before((s \o q)[i], (s \o q)[j]) /\ (s \o q)[i] # (s \o q)[j]
    BY <1>1 DEF Increasing
  <1>2. CASE j <= Len(s)
    <2>1. i \in DOMAIN s /\ j \in DOMAIN s /\ (s \o q)[i] = s[i] /\ (s \o q)[j] = s[j]
      BY <1>1, <1>2
    <2> QED BY <2>1 DEF Increasing
  <1>3. CASE i > Len(s)
    <2>1. /\ i - Len(s) \in DOMAIN q /\ j - Len(s) \in DOMAIN q /\ i - Len(s) < j - Len(s)
          /\ (s \o q)[i] = q[i - Len(s)] /\ (s \o q)[j] = q[j - Len(s)]
      BY <1>1, <1>3
    <2> QED BY <2>1 DEF Increasing
  <1>4. CASE i <= Len(s) /\ j > Len(s)
    <2>1. i \in DOMAIN s /\ j - Len(s) \in DOMAIN q
      BY <1>1, <1>4
    <2>2. (s \o q)[i] = s[i] /\ (s \o q)[j] = q[j - Len(s)]
      BY <1>1, <1>4
    <2>3. s[i] \in ToSet(s) /\ q[j - Len(s)] \in ToSet(q)
      BY <2>1 DEF ToSet
    <2>4. s[i].id < q[j - Len(s)].id /\ s[i].id \in Nat /\ q[j - Len(s)].id \in Nat
      <3>1. s[i] \in Message /\ q[j - Len(s)] \in Message
        BY <1>1, <2>1, ElementOfSeq
      <3>2. \A m \in Message : m.id \in Nat
        BY DEF Message
      <3> QED BY <2>3, <3>1, <3>2
    <2>5. s[i].id # q[j - Len(s)].id
      BY <2>4
    <2> QED BY <2>2, <2>4, <2>5 DEF Before
  <1> QED BY <1>1, <1>2, <1>3, <1>4

\* A stream has the order of any longer one.
LEMMA IncreasingPrefix ==
  ASSUME NEW s \in Seq(Message), NEW q \in Seq(Message), Increasing(s \o q)
  PROVE  Increasing(s)
PROOF
  <1>1. /\ Len(s \o q) = Len(s) + Len(q) /\ s \o q \in Seq(Message)
        /\ \A i \in 1..Len(s) + Len(q) : (s \o q)[i] = IF i <= Len(s) THEN s[i] ELSE q[i - Len(s)]
        /\ Len(s) \in Nat /\ Len(q) \in Nat /\ DOMAIN s = 1..Len(s)
        /\ DOMAIN (s \o q) = 1..Len(s) + Len(q)
    BY ConcatProperties, LenProperties
  <1>2. \A i \in DOMAIN s : i \in DOMAIN (s \o q) /\ (s \o q)[i] = s[i]
    BY <1>1
  <1> QED BY <1>2 DEF Increasing

-----------------------------------------------------------------------------
(* The streams *)

FlowIntact == \A t \in Topics : ToSet(Flow(t)) = Due(t) /\ Increasing(Flow(t))

\* The parts of a stream are sequences of messages.
LEMMA FlowTypes ==
  ASSUME ShapeInv, NEW t \in Topics
  PROVE  /\ settled[t] \in Seq(Message) /\ current[t] \in Seq(Message)
         /\ chan[t] \in Seq(Message) /\ Routing(t) \in Seq(Message)
         /\ settled[t] \o current[t] \in Seq(Message)
         /\ (settled[t] \o current[t]) \o chan[t] \in Seq(Message)
         /\ Flow(t) \in Seq(Message)
         /\ Flow(t) = ((settled[t] \o current[t]) \o chan[t]) \o Routing(t)
PROOF
  <1>1. /\ settled[t] \in Seq(Message) /\ current[t] \in Seq(Message)
        /\ chan[t] \in Seq(Message) /\ Routing(t) \in Seq(Message)
    BY EmptySeq DEF ShapeInv, TypeOK, Routing
  <1>2. settled[t] \o current[t] \in Seq(Message)
    BY <1>1, ConcatProperties
  <1>3. (settled[t] \o current[t]) \o chan[t] \in Seq(Message)
    BY <1>1, <1>2, ConcatProperties
  <1>4. ((settled[t] \o current[t]) \o chan[t]) \o Routing(t) \in Seq(Message)
    BY <1>1, <1>3, ConcatProperties
  <1> QED BY <1>1, <1>2, <1>3, <1>4 DEF Flow

\* A send on a channel moves a message along its stream.
LEMMA SendFlow ==
  ASSUME ShapeInv, SendMessage, NEW t \in Topics
  PROVE  Flow(t)' = Flow(t)
PROOF
  <1> DEFINE m == Head(outbox)
  <1>1. /\ transformer = "send" /\ chan' = [chan EXCEPT ![m.topic] = Append(@, m)]
        /\ outbox' = Tail(outbox) /\ UNCHANGED <<settled, current>>
    BY DEF SendMessage, publishVars
  <1>2. /\ outbox # <<>> /\ outbox \in Seq(Message)
        /\ m \in Message /\ m.topic \in Topics /\ Tail(outbox) \in Seq(Message)
        /\ Len(Tail(outbox)) = Len(outbox) - 1
        /\ \A i \in 1..Len(Tail(outbox)) : Tail(outbox)[i] = outbox[i + 1]
        /\ Len(outbox) \in Nat \ {0}
    BY <1>1, NextMessage
  <1>3. Tail(outbox) # <<>> => Head(Tail(outbox)).topic = m.topic
    <2> SUFFICES ASSUME Tail(outbox) # <<>> PROVE Head(Tail(outbox)).topic = m.topic
      OBVIOUS
    <2>1. Len(Tail(outbox)) \in Nat \ {0}
      BY <1>2, EmptySeq
    <2>2. Head(Tail(outbox)) = Tail(outbox)[1] /\ Tail(outbox)[1] = outbox[2]
          /\ 2 \in 1..Len(outbox) /\ 1 \in 1..Len(outbox) /\ m = outbox[1]
      BY <1>2, <2>1
    <2> QED BY <2>2 DEF ShapeInv, OneTopic
  <1>4. Flow(t)' = ((settled[t] \o current[t]) \o chan'[t]) \o Routing(t)'
    BY <1>1 DEF Flow
  <1>5. /\ settled[t] \o current[t] \in Seq(Message) /\ chan[t] \in Seq(Message)
        /\ Flow(t) = ((settled[t] \o current[t]) \o chan[t]) \o Routing(t)
    BY FlowTypes
  <1> HIDE DEF m
  <1>6. CASE t = m.topic
    <2>1. Routing(t) = outbox
      BY <1>2, <1>6 DEF Routing, m
    <2>2. Routing(t)' = Tail(outbox)
      BY <1>1, <1>3, <1>6 DEF Routing
    <2>3. chan'[t] = Append(chan[t], m)
      BY <1>1, <1>6 DEF ShapeInv, TypeOK
    <2>4. ((settled[t] \o current[t]) \o chan[t]) \o outbox
            = ((settled[t] \o current[t]) \o Append(chan[t], Head(outbox))) \o Tail(outbox)
      <3> DEFINE a == settled[t] \o current[t]
                 c == chan[t]
                 r == outbox
      <3>1. a \in Seq(Message) /\ c \in Seq(Message) /\ r \in Seq(Message) /\ r # <<>>
        BY <1>2, <1>5
      <3> HIDE DEF a, c, r
      <3>2. (a \o c) \o r = (a \o Append(c, Head(r))) \o Tail(r)
        BY <3>1, SendKeeps
      <3> QED BY <3>2 DEF a, c, r
    <2> QED BY <1>4, <1>5, <2>1, <2>2, <2>3, <2>4 DEF m
  <1>7. CASE t # m.topic
    <2>1. Routing(t) = <<>>
      BY <1>7 DEF Routing, m
    <2>2. Routing(t)' = <<>>
      BY <1>1, <1>3, <1>7 DEF Routing
    <2>3. chan'[t] = chan[t]
      BY <1>1, <1>7 DEF ShapeInv, TypeOK
    <2> QED BY <1>4, <1>5, <2>1, <2>2, <2>3
  <1> QED BY <1>6, <1>7

\* A publisher moves the messages of its own topic along their stream.
LEMMA PublishFlow ==
  ASSUME ShapeInv, NEW u \in Topics, Publisher(u), NEW t \in Topics
  PROVE  Flow(t)' = Flow(t)
PROOF
  <1>1. UNCHANGED outbox
    BY DEF Publisher, TakeMessage, BrokerReceives, Acknowledged, TokenError, Settle,
       StopPublisher, routeVars
  <1>2. Flow(t)' = ((settled'[t] \o current'[t]) \o chan'[t]) \o Routing(t)
    BY <1>1 DEF Flow, Routing
  <1>3. /\ settled[t] \in Seq(Message) /\ current[t] \in Seq(Message)
        /\ chan[t] \in Seq(Message) /\ Routing(t) \in Seq(Message)
        /\ settled[t] \o current[t] \in Seq(Message)
        /\ Flow(t) = ((settled[t] \o current[t]) \o chan[t]) \o Routing(t)
    BY FlowTypes
  <1>4. ASSUME settled'[t] = settled[t], current'[t] = current[t], chan'[t] = chan[t]
        PROVE  Flow(t)' = Flow(t)
    BY <1>2, <1>3, <1>4
  <1>5. CASE TakeMessage(u) /\ t = u
    <2>1. /\ chan[t] # <<>> /\ chan'[t] = Tail(chan[t]) /\ current'[t] = <<Head(chan[t])>>
          /\ settled' = settled /\ current[t] = <<>>
      BY <1>5 DEF TakeMessage, ShapeInv, TypeOK, Working
    <2>2. ((settled[t] \o <<>>) \o chan[t]) \o Routing(t)
            = ((settled[t] \o <<Head(chan[t])>>) \o Tail(chan[t])) \o Routing(t)
      <3> DEFINE a == settled[t]
                 c == chan[t]
                 r == Routing(t)
      <3>1. a \in Seq(Message) /\ c \in Seq(Message) /\ r \in Seq(Message) /\ c # <<>>
        BY <1>3, <2>1
      <3> HIDE DEF a, c, r
      <3>2. ((a \o <<>>) \o c) \o r = ((a \o <<Head(c)>>) \o Tail(c)) \o r
        BY <3>1, TakeKeeps
      <3> QED BY <3>2 DEF a, c, r
    <2>3. Flow(t)' = ((settled[t] \o <<Head(chan[t])>>) \o Tail(chan[t])) \o Routing(t)
      BY <1>2, <2>1
    <2>4. Flow(t) = ((settled[t] \o <<>>) \o chan[t]) \o Routing(t)
      BY <1>3, <2>1
    <2> QED BY <2>2, <2>3, <2>4
  <1>6. CASE Settle(u) /\ t = u
    <2>1. /\ settled'[t] = settled[t] \o current[t] /\ current'[t] = <<>> /\ chan' = chan
      BY <1>6 DEF Settle, ShapeInv, TypeOK
    <2>2. (settled[t] \o current[t]) \o <<>> = settled[t] \o current[t]
      BY <1>3, ConcatEmptySeq
    <2> QED BY <1>2, <1>3, <2>1, <2>2
  <1>7. CASE (TakeMessage(u) \/ Settle(u)) /\ t # u
    BY <1>4, <1>7 DEF TakeMessage, Settle, ShapeInv, TypeOK
  <1>8. CASE BrokerReceives(u) \/ StopPublisher(u)
    BY <1>4, <1>8 DEF BrokerReceives, StopPublisher
  <1> QED BY <1>5, <1>6, <1>7, <1>8 DEF Publisher, Acknowledged, TokenError

\* The packets that are due name each packet of the stream by its number.
LEMMA DueIds ==
  ASSUME ShapeInv, NEW t \in Topics, NEW m \in Due(t)
  PROVE  /\ m \in Message /\ m.id \in Nat \ {0} /\ m.id <= Consumed
         /\ m.id \in 1..Len(accepted)
PROOF
  <1>1. m \in Message /\ m.id <= Consumed
    BY DEF Due
  <1>2. m.id \in Nat \ {0}
    BY <1>1 DEF Message
  <1>3. Consumed \in Nat /\ Consumed <= Len(accepted) /\ Len(accepted) \in Nat
    BY InHand DEF ShapeInv, Queued, Consumed
  <1> QED BY <1>1, <1>2, <1>3

\* Nothing becomes due while no packet is taken.
LEMMA DueStays ==
  ASSUME ShapeInv, NEW t \in Topics, Consumed' = Consumed,
         \A i \in 1..Len(accepted) : accepted'[i] = accepted[i]
  PROVE  Due(t)' = Due(t)
PROOF
  <1>1. Consumed \in Nat /\ Consumed <= Len(accepted) /\ Len(accepted) \in Nat
    BY InHand DEF ShapeInv, Queued, Consumed
  <1>2. \A m \in Message : m.id <= Consumed => accepted'[m.id] = accepted[m.id]
    <2> SUFFICES ASSUME NEW m \in Message, m.id <= Consumed PROVE m.id \in 1..Len(accepted)
      OBVIOUS
    <2>1. m.id \in Nat \ {0}
      BY DEF Message
    <2> QED BY <1>1, <2>1
  <1>3. \A m : m \in Due(t)' <=> m \in Due(t)
    BY <1>2 DEF Due
  <1> QED BY <1>3

\* A step that takes no packet leaves each stream as it is.
LEMMA StreamStays ==
  ASSUME ShapeInv, FlowIntact, Consumed' = Consumed,
         \A i \in 1..Len(accepted) : accepted'[i] = accepted[i],
         \A t \in Topics : Flow(t)' = Flow(t)
  PROVE  FlowIntact'
PROOF
  <1>1. \A t \in Topics : Due(t)' = Due(t)
    BY DueStays
  <1> QED BY <1>1 DEF FlowIntact, Increasing, ToSet

\* Taking a packet makes its messages due, and hands them to Route in order.
LEMMA ConsumeFlow ==
  ASSUME ShapeInv, FlowIntact, Consume, NEW t \in Topics
  PROVE  (ToSet(Flow(t)) = Due(t) /\ Increasing(Flow(t)))'
PROOF
  <1> DEFINE p == Head(packets)
             q == IF p.topic = t THEN Messages(p) ELSE <<>>
  <1>1. /\ transformer = "select" /\ packets # <<>> /\ packets' = Tail(packets)
        /\ outbox' = Messages(p) /\ UNCHANGED <<accepted, inHand, settled, current, chan>>
    BY DEF Consume, readVars, publishVars
  <1>2. /\ p \in Packet /\ IsPacket(p) /\ p = accepted[Consumed + 1]
        /\ Consumed + 1 \in 1..Len(accepted) /\ p.id = Consumed + 1
    BY <1>1, NextPacket DEF ShapeInv, Numbered
  <1>3. /\ Messages(p) \in Seq(Message) /\ Len(Messages(p)) = p.n
        /\ \A i \in 1..p.n : Messages(p)[i] = [topic |-> p.topic, id |-> p.id, part |-> i]
        /\ Messages(p) = <<>> <=> p.n = 0
    BY <1>2, MessagesType
  <1>4. Consumed' = Consumed + 1
    <2>1. Len(packets') = Len(packets) - 1 /\ Len(packets) \in Nat \ {0}
      BY <1>1, HeadTailProperties, EmptySeq DEF ShapeInv, TypeOK
    <2> QED BY <1>1, <2>1, InHand DEF Consumed, ShapeInv
  <1>5. p.n \in Nat /\ p.n <= MaxLaps /\ Consumed \in Nat
    <2>1. p.n \in 0..MaxLaps /\ MaxLaps \in Nat
      BY <1>2, IngestAssumption DEF Packet
    <2> QED BY <2>1 DEF ShapeInv, Queued
  <1> HIDE DEF p
  <1>6. q \in Seq(Message) /\ Routing(t)' = q
    <2>1. CASE p.n = 0
      BY <1>1, <1>3, <2>1, EmptySeq DEF Routing
    <2>2. CASE p.n # 0
      <3>1. Head(Messages(p)) = Messages(p)[1] /\ 1 \in 1..p.n /\ Messages(p) # <<>>
        BY <1>3, <1>5, <2>2
      <3>2. Messages(p)[1] = [topic |-> p.topic, id |-> p.id, part |-> 1]
        BY <1>3, <3>1
      <3>3. Head(Messages(p)).topic = p.topic
        BY <3>1, <3>2
      <3> QED BY <1>1, <1>3, <3>1, <3>3, EmptySeq DEF Routing
    <2> QED BY <2>1, <2>2
  <1>7. Flow(t)' = Flow(t) \o q /\ Flow(t) \in Seq(Message)
    <2>1. Routing(t) = <<>>
      BY <1>1 DEF Routing, ShapeInv, Working
    <2>2. Flow(t)' = ((settled[t] \o current[t]) \o chan[t]) \o q
      BY <1>1, <1>6 DEF Flow
    <2>3. (settled[t] \o current[t]) \o chan[t] \in Seq(Message)
          /\ Flow(t) = ((settled[t] \o current[t]) \o chan[t]) \o <<>>
      BY <2>1, FlowTypes
    <2>4. Flow(t) = (settled[t] \o current[t]) \o chan[t]
      BY <2>3, ConcatEmptySeq
    <2> QED BY <2>2, <2>3, <2>4
  <1>8. \A m : m \in ToSet(q) <=>
                 p.topic = t /\ \E i \in 1..p.n : m = [topic |-> t, id |-> Consumed + 1, part |-> i]
    <2>1. CASE p.topic = t
      <3>1. DOMAIN q = 1..p.n
        BY <1>3, <2>1, LenProperties
      <3>2. \A i \in 1..p.n : q[i] = [topic |-> t, id |-> Consumed + 1, part |-> i]
        BY <1>2, <1>3, <2>1
      <3> DEFINE M(i) == [topic |-> t, id |-> Consumed + 1, part |-> i]
      <3> HIDE DEF q
      <3>3. ToSet(q) = {q[i] : i \in 1..p.n}
        BY <3>1 DEF ToSet
      <3>4. \A m : m \in ToSet(q) <=> \E i \in 1..p.n : m = q[i]
        BY <3>3
      <3>5. \A m : m \in ToSet(q) <=> \E i \in 1..p.n : m = M(i)
        <4>1. \A i \in 1..p.n : q[i] = M(i)
          BY <3>2
        <4> HIDE DEF M
        <4> QED BY <4>1, <3>4
      <3> QED BY <2>1, <3>5 DEF M
    <2>2. CASE p.topic # t
      BY <2>2 DEF ToSet
    <2> QED BY <2>1, <2>2
  <1>9. Increasing(q)
    <2>1. CASE p.topic = t
      <3>1. DOMAIN q = 1..p.n
        BY <1>3, <2>1, LenProperties
      <3>2. \A i \in 1..p.n : q[i] = [topic |-> t, id |-> Consumed + 1, part |-> i]
        BY <1>2, <1>3, <2>1
      <3> HIDE DEF q
      <3>3. ASSUME NEW i \in 1..p.n PROVE q[i].id = Consumed + 1 /\ q[i].part = i
        <4>1. q[i] = [topic |-> t, id |-> Consumed + 1, part |-> i]
          BY <3>2
        <4> QED BY <4>1
      <3>4. ASSUME NEW i \in 1..p.n, NEW j \in 1..p.n, i < j
            PROVE  Before(q[i], q[j]) /\ q[i] # q[j]
        <4>1. q[i].part # q[j].part
          BY <3>3, <3>4
        <4> QED BY <3>3, <3>4, <4>1 DEF Before
      <3> QED BY <3>1, <3>4 DEF Increasing
    <2>2. CASE p.topic # t
      BY <2>2 DEF Increasing
    <2> QED BY <2>1, <2>2
  <1> HIDE DEF q
  <1>10. \A m \in ToSet(Flow(t)), n \in ToSet(q) : m.id < n.id
    <2> SUFFICES ASSUME NEW m \in ToSet(Flow(t)), NEW n \in ToSet(q) PROVE m.id < n.id
      OBVIOUS
    <2>1. m \in Due(t)
      BY DEF FlowIntact
    <2>2. m.id \in Nat /\ m.id <= Consumed
      BY <2>1, DueIds
    <2>3. n.id = Consumed + 1
      BY <1>8
    <2> QED BY <1>5, <2>2, <2>3
  <1>11. Increasing(Flow(t) \o q)
    BY <1>6, <1>7, <1>9, <1>10, IncreasingConcat DEF FlowIntact
  <1>12. ToSet(Flow(t) \o q) = Due(t) \cup ToSet(q)
    BY <1>6, <1>7, SetOfConcat DEF FlowIntact
  <1>13. Due(t)' = Due(t) \cup ToSet(q)
    <2>1. ASSUME NEW m \in Message
          PROVE  m \in Due(t)' <=> m \in Due(t) \/ m \in ToSet(q)
      <3>1. /\ m = [topic |-> m.topic, id |-> m.id, part |-> m.part]
            /\ m.id \in Nat \ {0} /\ m.part \in Nat \ {0}
        BY <2>1 DEF Message
      <3>2. m \in Due(t)' <=> /\ m.topic = t /\ m.id <= Consumed + 1
                              /\ accepted[m.id].topic = t /\ m.part <= accepted[m.id].n
        BY <1>1, <1>4 DEF Due
      <3>3. m \in Due(t) <=> /\ m.topic = t /\ m.id <= Consumed
                             /\ accepted[m.id].topic = t /\ m.part <= accepted[m.id].n
        BY DEF Due
      <3>4. m \in ToSet(q) <=> p.topic = t /\ m.topic = t /\ m.id = Consumed + 1 /\ m.part \in 1..p.n
        BY <1>8, <3>1
      <3>5. m.id <= Consumed + 1 <=> m.id <= Consumed \/ m.id = Consumed + 1
        BY <1>5, <3>1
      <3>6. m.part <= p.n <=> m.part \in 1..p.n
        BY <1>5, <3>1
      <3>7. m.id = Consumed + 1 => ~(m.id <= Consumed)
        BY <1>5
      <3> QED BY <1>2, <3>2, <3>3, <3>4, <3>5, <3>6, <3>7
    <2>2. ToSet(q) \subseteq Message
      BY <1>6 DEF ToSet
    <2>3. Due(t) \subseteq Message /\ Due(t)' \subseteq Message
      BY DEF Due, Message
    <2> QED BY <2>1, <2>2, <2>3
  <1>14. Increasing(Flow(t))' /\ ToSet(Flow(t))' = Due(t)'
    BY <1>7, <1>11, <1>12, <1>13 DEF Increasing, ToSet
  <1> QED BY <1>14

\* Every step keeps the streams intact.
LEMMA FlowStep == ShapeInv /\ FlowIntact /\ [Next]_vars => FlowIntact'
PROOF
  <1> SUFFICES ASSUME ShapeInv, FlowIntact, [Next]_vars PROVE FlowIntact'
    OBVIOUS
  <1> USE DEF readVars, routeVars, publishVars
  <1>1. ASSUME UNCHANGED <<packets, accepted, inHand>>, \A t \in Topics : Flow(t)' = Flow(t)
        PROVE  FlowIntact'
    BY <1>1, StreamStays DEF Consumed
  <1>2. ASSUME UNCHANGED <<packets, accepted, inHand, settled, current, chan, outbox>>
        PROVE  FlowIntact'
    <2>1. \A t \in Topics : Flow(t)' = Flow(t)
      BY <1>2 DEF Flow, Routing
    <2> QED BY <1>1, <1>2, <2>1
  <1>3. CASE ReadPacket
    <2>1. PICK p \in Packet : accepted' = Append(accepted, p) /\ inHand' = <<p>>
      BY <1>3 DEF ReadPacket
    <2>2. /\ listener = "read" /\ UNCHANGED <<packets, settled, current, chan, outbox>>
      BY <1>3 DEF ReadPacket
    <2>3. inHand = <<>> /\ Len(inHand) = 0 /\ accepted \in Seq(Packet)
          /\ Len(accepted) \in Nat /\ Len(packets) \in Nat
      BY <2>2, InHand DEF ShapeInv, Working, TypeOK
    <2>4. Len(accepted') = Len(accepted) + 1 /\ \A i \in 1..Len(accepted) : accepted'[i] = accepted[i]
      BY <2>1, <2>3, AppendProperties
    <2>5. Consumed' = Consumed
      BY <2>1, <2>2, <2>3, <2>4 DEF Consumed
    <2>6. \A t \in Topics : Flow(t)' = Flow(t)
      BY <2>2 DEF Flow, Routing
    <2> QED BY <2>4, <2>5, <2>6, StreamStays
  <1>4. CASE Enqueue
    <2>1. /\ listener = "send" /\ packets' = packets \o inHand /\ inHand' = <<>>
          /\ UNCHANGED <<accepted, settled, current, chan, outbox>>
      BY <1>4 DEF Enqueue
    <2>2. Len(packets') = Len(packets) + Len(inHand)
      BY <2>1, ConcatProperties DEF ShapeInv, TypeOK
    <2>3. Consumed' = Consumed
      BY <2>1, <2>2, InHand DEF Consumed, ShapeInv
    <2>4. \A t \in Topics : Flow(t)' = Flow(t)
      BY <2>1 DEF Flow, Routing
    <2> QED BY <2>1, <2>3, <2>4, StreamStays
  <1>5. CASE Consume
    BY <1>5, ConsumeFlow DEF FlowIntact
  <1>6. CASE SendMessage
    <2>1. UNCHANGED <<packets, accepted, inHand>>
      BY <1>6 DEF SendMessage
    <2> QED BY <1>1, <1>6, <2>1, SendFlow
  <1>7. ASSUME NEW t \in Topics, Publisher(t) PROVE FlowIntact'
    <2>1. UNCHANGED <<packets, accepted, inHand>>
      BY <1>7 DEF Publisher, TakeMessage, BrokerReceives, Acknowledged, TokenError, Settle,
         StopPublisher
    <2> QED BY <1>1, <1>7, <2>1, PublishFlow
  <1>8. CASE CheckContext \/ ReadTimeout \/ SocketError
    BY <1>2, <1>8 DEF CheckContext, ReadTimeout, SocketError
  <1>9. CASE StopConsume \/ ConnectionLost \/ Reconnect \/ Interrupt \/ \E m \in failed : LateDelivery(m)
    BY <1>2, <1>9 DEF StopConsume, ConnectionLost, Reconnect, Interrupt, LateDelivery
  <1>10. CASE UNCHANGED vars
    BY <1>2, <1>10 DEF vars
  <1> QED
    BY <1>3, <1>4, <1>5, <1>6, <1>7, <1>8, <1>9, <1>10 DEF Next, Listener, Transformer

\* The streams are intact in every state.
LEMMA AlwaysFlow == Spec => []FlowIntact
PROOF
  <1>1. Init => FlowIntact
    <2> SUFFICES ASSUME Init, NEW t \in Topics PROVE ToSet(Flow(t)) = Due(t) /\ Increasing(Flow(t))
      BY DEF FlowIntact
    <2>1. settled[t] = <<>> /\ current[t] = <<>> /\ chan[t] = <<>> /\ Routing(t) = <<>>
      BY DEF Init, Routing
    <2>2. Flow(t) = <<>>
      <3>1. <<>> \o <<>> = <<>>
        BY ConcatEmptySeq, EmptySeq
      <3> QED BY <2>1, <3>1 DEF Flow
    <2>3. Consumed = 0
      <3>1. Len(accepted) = 0 /\ Len(packets) = 0 /\ Len(inHand) = 0
        BY EmptySeq DEF Init
      <3> QED BY <3>1 DEF Consumed
    <2>4. Due(t) = {}
      BY <2>3 DEF Due, Message
    <2> QED BY <2>2, <2>4 DEF ToSet, Increasing
  <1> QED BY <1>1, FlowStep, AlwaysShape, PTL DEF Spec

\* Between the socket and the MQTT client no message is skipped, duplicated or
\* overtaken, for any number of topics, packets and laps, any capacities and
\* however the goroutines interleave: blocking sends in one goroutine are enough.
THEOREM StreamsAreIntact == Spec => []StreamIntact
PROOF
  <1>1. ShapeInv /\ FlowIntact => StreamIntact
    <2> SUFFICES ASSUME ShapeInv, FlowIntact PROVE StreamIntact
      OBVIOUS
    <2>1. packets \o inHand = SubSeq(accepted, Consumed + 1, Len(accepted))
      <3> DEFINE s == packets \o inHand
                 u == SubSeq(accepted, Consumed + 1, Len(accepted))
      <3>1. /\ packets \in Seq(Packet) /\ inHand \in Seq(Packet) /\ accepted \in Seq(Packet)
            /\ Len(packets) \in Nat /\ Len(accepted) \in Nat /\ Len(inHand) \in {0, 1}
            /\ Consumed \in Nat /\ Len(accepted) = Consumed + (Len(packets) + Len(inHand))
        BY InHand DEF ShapeInv, TypeOK, Queued, Consumed
      <3>2. /\ s \in Seq(Packet) /\ Len(s) = Len(packets) + Len(inHand)
            /\ \A i \in 1..Len(packets) + Len(inHand) :
                  s[i] = IF i <= Len(packets) THEN packets[i] ELSE inHand[i - Len(packets)]
        BY <3>1, ConcatProperties
      <3>3. \A i \in Consumed + 1..Len(accepted) : accepted[i] \in Packet
        BY <3>1, ElementOfSeq
      <3>4. Consumed + 1 \in Int /\ Len(accepted) \in Int
        BY <3>1
      <3>5. /\ u \in Seq(Packet)
            /\ Len(u) = IF Consumed + 1 <= Len(accepted) THEN Len(accepted) - (Consumed + 1) + 1 ELSE 0
            /\ \A i \in 1..Len(accepted) - (Consumed + 1) + 1 : u[i] = accepted[Consumed + 1 + i - 1]
        BY <3>3, <3>4, SubSeqProperties
      <3> HIDE DEF s, u
      <3>6. Len(u) = Len(s)
        <4> DEFINE n == Len(packets) + Len(inHand)
        <4>1. n \in Nat /\ Len(accepted) = Consumed + n /\ Len(s) = n
          BY <3>1, <3>2
        <4> HIDE DEF n
        <4>2. CASE n = 0
          <5>1. ~(Consumed + 1 <= Len(accepted))
            BY <3>1, <4>1, <4>2
          <5> QED BY <3>5, <4>1, <4>2, <5>1
        <4>3. CASE n # 0
          <5>1. Consumed + 1 <= Len(accepted) /\ Len(accepted) - (Consumed + 1) + 1 = n
            BY <3>1, <4>1, <4>3
          <5> QED BY <3>5, <4>1, <5>1
        <4> QED BY <4>2, <4>3
      <3>7. ASSUME NEW i \in 1..Len(s) PROVE s[i] = u[i]
        <4>1. u[i] = accepted[Consumed + i]
          <5>1. i \in 1..Len(accepted) - (Consumed + 1) + 1 /\ Consumed + 1 + i - 1 = Consumed + i
            BY <3>1, <3>2
          <5> QED BY <3>5, <5>1
        <4>2. CASE i <= Len(packets)
          <5>1. s[i] = packets[i] /\ i \in 1..Len(packets)
            BY <3>1, <3>2, <4>2
          <5> QED BY <4>1, <5>1 DEF ShapeInv, Queued
        <4>3. CASE i > Len(packets)
          <5>1. Len(inHand) = 1 /\ i = Len(packets) + 1 /\ i - Len(packets) = 1
            BY <3>1, <3>2, <4>3
          <5>2. s[i] = inHand[1] /\ Consumed + i = Len(accepted)
            BY <3>1, <3>2, <4>3, <5>1
          <5>3. inHand # <<>>
            BY <5>1, InHand DEF ShapeInv
          <5> QED BY <4>1, <5>2, <5>3 DEF ShapeInv, Queued
        <4> QED BY <3>1, <3>2, <4>2, <4>3
      <3>8. s = u
        BY <3>2, <3>5, <3>6, <3>7, SeqEqual
      <3> QED BY <3>8 DEF s, u
    <2> QED BY <2>1 DEF StreamIntact, FlowIntact
  <1> QED BY <1>1, AlwaysShape, AlwaysFlow, PTL

-----------------------------------------------------------------------------
(* The broker *)

\* While no token has had an error, the broker has received nothing but what
\* was settled or is being published, in order.
InOrder ==
    errors = 0 =>
      /\ failed = {}
      /\ \A t \in Topics :
            /\ ToSet(received[t]) \subseteq ToSet(settled[t] \o current[t])
            /\ \A i, j \in DOMAIN received[t] :
                  i < j => Before(received[t][i], received[t][j])

\* A publisher at work has one message in its hands.
LEMMA OneCurrent ==
  ASSUME ShapeInv, NEW t \in Topics, current[t] # <<>>
  PROVE  Len(current[t]) = 1
PROOF
  <1>1. current[t] \in Seq(Message) /\ Len(current[t]) <= 1
    BY DEF ShapeInv, TypeOK, AtMostOne
  <1>2. Len(current[t]) \in Nat \ {0}
    <2> DEFINE c == current[t]
    <2>1. c \in Seq(Message) /\ c # <<>>
      BY <1>1
    <2> HIDE DEF c
    <2>2. Len(c) \in Nat \ {0}
      BY <2>1, NotEmpty
    <2> QED BY <2>2 DEF c
  <1> DEFINE n == Len(current[t])
  <1>3. n \in Nat \ {0} /\ n <= 1
    BY <1>1, <1>2
  <1> HIDE DEF n
  <1>4. n = 1
    BY <1>3
  <1> QED BY <1>4 DEF n

\* The message in the hands of a publisher is the last of what it has seen.
LEMMA CurrentIsLast ==
  ASSUME ShapeInv, FlowIntact, NEW t \in Topics, current[t] # <<>>,
         NEW m \in ToSet(settled[t] \o current[t])
  PROVE  Before(m, current[t][1])
PROOF
  <1> DEFINE s == settled[t] \o current[t]
  <1>1. /\ settled[t] \in Seq(Message) /\ current[t] \in Seq(Message) /\ s \in Seq(Message)
        /\ chan[t] \in Seq(Message) /\ Routing(t) \in Seq(Message)
        /\ s \o chan[t] \in Seq(Message)
        /\ Flow(t) = (s \o chan[t]) \o Routing(t)
    BY FlowTypes
  <1>2. Increasing(s)
    <2> DEFINE c == chan[t]
               r == Routing(t)
    <2>1. s \in Seq(Message) /\ c \in Seq(Message) /\ r \in Seq(Message) /\ s \o c \in Seq(Message)
      BY <1>1
    <2>2. Increasing((s \o c) \o r)
      BY <1>1 DEF FlowIntact
    <2> HIDE DEF s, c, r
    <2>3. Increasing(s \o c)
      BY <2>1, <2>2, IncreasingPrefix
    <2> QED BY <2>1, <2>3, IncreasingPrefix
  <1>3. Len(current[t]) = 1
    BY OneCurrent
  <1>4. /\ Len(s) = Len(settled[t]) + 1 /\ Len(settled[t]) \in Nat
        /\ s[Len(s)] = current[t][1] /\ DOMAIN s = 1..Len(s)
    <2>1. /\ Len(s) = Len(settled[t]) + Len(current[t]) /\ Len(settled[t]) \in Nat
          /\ \A i \in 1..Len(settled[t]) + Len(current[t]) :
                s[i] = IF i <= Len(settled[t]) THEN settled[t][i] ELSE current[t][i - Len(settled[t])]
      BY <1>1, ConcatProperties, LenProperties
    <2>2. DOMAIN s = 1..Len(s)
      BY <1>1, LenProperties
    <2> HIDE DEF s
    <2>3. s[Len(s)] = current[t][Len(s) - Len(settled[t])] /\ Len(s) - Len(settled[t]) = 1
      BY <1>3, <2>1
    <2> QED BY <1>3, <2>1, <2>2, <2>3
  <1> HIDE DEF s
  <1>5. PICK i \in 1..Len(s) : m = s[i]
    BY <1>4 DEF ToSet, s
  <1>6. CASE i = Len(s)
    <2>1. m = current[t][1] /\ m \in Message
      BY <1>1, <1>4, <1>5, <1>6, ElementOfSeq
    <2>2. m.id \in Nat /\ m.part \in Nat
      BY <2>1 DEF Message
    <2> QED BY <2>1, <2>2 DEF Before
  <1>7. CASE i # Len(s)
    <2>1. i < Len(s) /\ Len(s) \in DOMAIN s /\ i \in DOMAIN s
      BY <1>4, <1>7
    <2>2. Before(s[i], s[Len(s)])
      BY <1>2, <2>1 DEF Increasing
    <2> QED BY <1>4, <1>5, <2>2
  <1> QED BY <1>6, <1>7

\* Every step keeps the broker's view in order.
LEMMA InOrderStep == ShapeInv /\ FlowIntact /\ InOrder /\ [Next]_vars => InOrder'
PROOF
  <1> SUFFICES ASSUME ShapeInv, FlowIntact, InOrder, [Next]_vars, errors' = 0 PROVE InOrder'
    BY DEF InOrder
  <1> USE DEF readVars, routeVars, publishVars
  <1>1. ASSUME errors = 0,
               UNCHANGED <<received, failed>>,
               \A t \in Topics : ToSet(settled[t] \o current[t]) \subseteq ToSet(settled'[t] \o current'[t])
        PROVE  InOrder'
    BY <1>1 DEF InOrder
  <1>2. ASSUME NEW t \in Topics, TakeMessage(t) PROVE InOrder'
    <2>1. /\ current' = [current EXCEPT ![t] = <<Head(chan[t])>>] /\ chan[t] # <<>>
          /\ current[t] = <<>> /\ UNCHANGED <<received, failed, settled, errors>>
      BY <1>2 DEF TakeMessage, ShapeInv, Working
    <2>2. ToSet(settled[t] \o <<>>) \subseteq ToSet(settled[t] \o <<Head(chan[t])>>)
      <3>1. settled[t] \in Seq(Message) /\ <<Head(chan[t])>> \in Seq(Message) /\ <<>> \in Seq(Message)
        <4>1. chan[t] \in Seq(Message) /\ settled[t] \in Seq(Message)
          BY FlowTypes
        <4>2. Head(chan[t]) \in Message
          BY <2>1, <4>1, HeadTailProperties
        <4>3. \A m \in Message : <<m>> \in Seq(Message)
          OBVIOUS
        <4>4. <<>> \in Seq(Message)
          BY EmptySeq
        <4> QED BY <4>1, <4>2, <4>3, <4>4
      <3>2. ToSet(<<>>) = {}
        BY DEF ToSet
      <3>3. ToSet(settled[t] \o <<>>) = ToSet(settled[t]) \cup ToSet(<<>>)
        <4> DEFINE e == <<>>
        <4>1. settled[t] \in Seq(Message) /\ e \in Seq(Message)
          BY <3>1
        <4> HIDE DEF e
        <4>2. ToSet(settled[t] \o e) = ToSet(settled[t]) \cup ToSet(e)
          BY <4>1, SetOfConcat
        <4> QED BY <4>2 DEF e
      <3>4. ToSet(settled[t] \o <<Head(chan[t])>>) = ToSet(settled[t]) \cup ToSet(<<Head(chan[t])>>)
        <4> DEFINE h == <<Head(chan[t])>>
        <4>1. settled[t] \in Seq(Message) /\ h \in Seq(Message)
          BY <3>1
        <4> HIDE DEF h
        <4>2. ToSet(settled[t] \o h) = ToSet(settled[t]) \cup ToSet(h)
          BY <4>1, SetOfConcat
        <4> QED BY <4>2 DEF h
      <3> QED BY <3>2, <3>3, <3>4
    <2>3. \A u \in Topics : ToSet(settled[u] \o current[u]) \subseteq ToSet(settled'[u] \o current'[u])
      BY <2>1, <2>2 DEF ShapeInv, TypeOK
    <2> QED BY <1>1, <2>1, <2>3
  <1>3. ASSUME NEW t \in Topics, BrokerReceives(t) PROVE InOrder'
    <2>1. /\ received' = [received EXCEPT ![t] = @ \o current[t]] /\ current[t] # <<>>
          /\ UNCHANGED <<failed, settled, current, errors>>
      BY <1>3 DEF BrokerReceives, ShapeInv, Working
    <2>2. errors = 0 /\ failed = {}
      BY <2>1 DEF InOrder
    <2>3. /\ received[t] \in Seq(Message) /\ current[t] \in Seq(Message) /\ settled[t] \in Seq(Message)
          /\ settled[t] \o current[t] \in Seq(Message)
      BY FlowTypes DEF ShapeInv, TypeOK
    <2>4. received'[t] = received[t] \o current[t]
      BY <2>1 DEF ShapeInv, TypeOK
    <2>5. ToSet(received'[t]) \subseteq ToSet(settled[t] \o current[t])
      <3>1. ToSet(received[t] \o current[t]) = ToSet(received[t]) \cup ToSet(current[t])
            /\ ToSet(settled[t] \o current[t]) = ToSet(settled[t]) \cup ToSet(current[t])
        BY <2>3, SetOfConcat
      <3> QED BY <2>2, <2>4, <3>1 DEF InOrder
    <2>6. Len(current[t]) = 1
      BY <2>1, OneCurrent
    <2>7. /\ Len(received'[t]) = Len(received[t]) + 1 /\ Len(received[t]) \in Nat
          /\ \A i \in 1..Len(received[t]) : received'[t][i] = received[t][i]
          /\ received'[t][Len(received[t]) + 1] = current[t][1]
          /\ DOMAIN received'[t] = 1..Len(received[t]) + 1 /\ DOMAIN received[t] = 1..Len(received[t])
      <3> DEFINE a == received[t]
                 b == current[t]
      <3>1. a \in Seq(Message) /\ b \in Seq(Message) /\ Len(b) = 1
        BY <2>3, <2>6
      <3> HIDE DEF a, b
      <3>2. /\ Len(a \o b) = Len(a) + 1 /\ Len(a) \in Nat /\ a \o b \in Seq(Message)
            /\ \A i \in 1..Len(a) + 1 : (a \o b)[i] = IF i <= Len(a) THEN a[i] ELSE b[i - Len(a)]
        <4>1. /\ Len(a \o b) = Len(a) + Len(b) /\ a \o b \in Seq(Message)
              /\ \A i \in 1..Len(a) + Len(b) : (a \o b)[i] = IF i <= Len(a) THEN a[i] ELSE b[i - Len(a)]
          BY <3>1, ConcatProperties
        <4>2. Len(a) \in Nat
          BY <3>1, LenProperties
        <4> QED BY <3>1, <4>1, <4>2
      <3>3. /\ \A i \in 1..Len(a) : (a \o b)[i] = a[i]
            /\ (a \o b)[Len(a) + 1] = b[1]
            /\ DOMAIN (a \o b) = 1..Len(a) + 1 /\ DOMAIN a = 1..Len(a)
        BY <3>1, <3>2, LenProperties
      <3> QED BY <2>4, <3>2, <3>3 DEF a, b
    <2>8. ASSUME NEW i \in DOMAIN received'[t], NEW j \in DOMAIN received'[t], i < j
          PROVE  Before(received'[t][i], received'[t][j])
      <3>1. i \in DOMAIN received[t] /\ received'[t][i] = received[t][i]
        BY <2>7, <2>8
      <3>2. CASE j \in DOMAIN received[t]
        BY <2>2, <2>7, <2>8, <3>1, <3>2 DEF InOrder
      <3>3. CASE j \notin DOMAIN received[t]
        <4>1. received'[t][j] = current[t][1]
          BY <2>7, <2>8, <3>3
        <4>2. received[t][i] \in ToSet(settled[t] \o current[t])
          BY <2>2, <3>1 DEF InOrder, ToSet
        <4> QED BY <2>1, <3>1, <4>1, <4>2, CurrentIsLast
      <3> QED BY <3>2, <3>3
    <2>9. \A u \in Topics : u # t => received'[u] = received[u]
      BY <2>1 DEF ShapeInv, TypeOK
    <2> QED BY <2>1, <2>2, <2>5, <2>8, <2>9 DEF InOrder
  <1>4. ASSUME NEW t \in Topics, Acknowledged(t) PROVE InOrder'
    <2>1. /\ settled' = [settled EXCEPT ![t] = @ \o current[t]]
          /\ current' = [current EXCEPT ![t] = <<>>] /\ UNCHANGED <<received, failed, errors>>
      BY <1>4 DEF Acknowledged, Settle
    <2>2. (settled[t] \o current[t]) \o <<>> = settled[t] \o current[t]
      BY FlowTypes, ConcatEmptySeq
    <2>3. \A u \in Topics : ToSet(settled[u] \o current[u]) \subseteq ToSet(settled'[u] \o current'[u])
      BY <2>1, <2>2 DEF ShapeInv, TypeOK
    <2> QED BY <1>1, <2>1, <2>3
  <1>5. ASSUME NEW t \in Topics, TokenError(t) PROVE FALSE
    BY <1>5 DEF TokenError, ShapeInv, TypeOK
  <1>6. ASSUME NEW m \in failed, LateDelivery(m) PROVE FALSE
    BY <1>6 DEF LateDelivery, InOrder
  <1>7. ASSUME UNCHANGED <<received, failed, settled, current, errors>> PROVE InOrder'
    BY <1>1, <1>7
  <1>8. CASE Listener \/ Transformer
    BY <1>7, <1>8 DEF Listener, Transformer, CheckContext, ReadPacket, ReadTimeout, SocketError,
       Enqueue, Consume, SendMessage, StopConsume
  <1>9. CASE ConnectionLost \/ Reconnect \/ Interrupt
    BY <1>7, <1>9 DEF ConnectionLost, Reconnect, Interrupt
  <1>10. ASSUME NEW t \in Topics, StopPublisher(t) PROVE InOrder'
    BY <1>7, <1>10 DEF StopPublisher
  <1>11. CASE UNCHANGED vars
    BY <1>7, <1>11 DEF vars
  <1> QED
    BY <1>2, <1>3, <1>4, <1>5, <1>6, <1>8, <1>9, <1>10, <1>11 DEF Next, Publisher

\* Until a token has an error the broker sees each topic in the order of the
\* game, however often the connection is lost and messages are sent again.
THEOREM TheBrokerSeesTheOrder == Spec => []ReceivedInOrder
PROOF
  <1>1. Init => InOrder
    BY DEF Init, InOrder, ToSet
  <1>2. InOrder => ReceivedInOrder
    BY DEF InOrder, ReceivedInOrder
  <1> QED BY <1>1, <1>2, InOrderStep, AlwaysShape, AlwaysFlow, PTL DEF Spec
=============================================================================
