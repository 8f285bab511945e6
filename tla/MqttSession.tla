----------------------------- MODULE MqttSession -----------------------------
(***************************************************************************)
(* How the persist service is connected to the broker: NewMQTTv3Connection *)
(* and GenerateMQTTv3Options of internal/mqttutil/mqttutil.go, and the     *)
(* subscription of cmd/persist/main.go.                                    *)
(*                                                                         *)
(* main connects, for at most five seconds, and gives up if that fails;    *)
(* then it subscribes once, without looking at the token, to a shared      *)
(* topic at QoS 0, so that the replicas of the service divide the messages *)
(* between them.  When the connection is lost the client reconnects by     *)
(* itself.  The options leave the session clean: the broker forgets the    *)
(* subscription of a client it loses, and the client does not repeat it.   *)
(***************************************************************************)
EXTENDS Integers, FiniteSets

CONSTANTS
    Replicas,     \* instances of the persist service
    Messages,     \* messages that reach the broker
    MaxLosses,    \* bound: lost connections, per replica
    MaxRestarts   \* bound: restarts, per replica

ASSUME SessionAssumption == {MaxLosses, MaxRestarts} \subseteq Nat

VARIABLES
    main,        \* per replica: "connecting", "subscribing", "serving" or "exited"
    connection,  \* per replica: "none", "open" or "lost"
    requested,   \* replicas whose SUBSCRIBE is on its way
    sessions,    \* broker: replicas with a subscription
    published,   \* messages the broker has received
    inFlight,    \* <<message, replica>>: sent by the broker, at QoS 0
    handled,     \* <<message, replica>>: the callback has been called
    losses,      \* per replica: lost connections since it was started
    restarts     \* per replica: restarts so far

messageVars == <<published, inFlight, handled>>
vars == <<main, connection, requested, sessions, messageVars, losses, restarts>>

Init ==
    /\ main = [p \in Replicas |-> "connecting"]
    /\ connection = [p \in Replicas |-> "none"]
    /\ requested = {}
    /\ sessions = {}
    /\ published = {}
    /\ inFlight = {}
    /\ handled = {}
    /\ losses = [p \in Replicas |-> 0]
    /\ restarts = [p \in Replicas |-> 0]

At(p, step) == main[p] = step
GoTo(p, step) == main' = [main EXCEPT ![p] = step]
Connection(p, c) == connection' = [connection EXCEPT ![p] = c]

\* Mutant: the client asks for a persistent session.
Forget_KeepsSession(p) ==
    /\ requested' = requested \ {p}
    /\ inFlight' = {d \in inFlight : d[2] # p}
    /\ UNCHANGED sessions

\* The broker notices that the client is gone; a clean session ends.
Forget(p) ==
    /\ requested' = requested \ {p}
    /\ sessions' = sessions \ {p}
    /\ inFlight' = {d \in inFlight : d[2] # p}

-----------------------------------------------------------------------------
(* A replica *)

Connect(p) ==
    /\ At(p, "connecting")
    /\ Connection(p, "open")
    /\ GoTo(p, "subscribing")
    /\ UNCHANGED <<requested, sessions, messageVars, losses, restarts>>

\* The broker refuses, or WaitTimeout gives up after five seconds: main exits.
ConnectTimesOut(p) ==
    /\ At(p, "connecting")
    /\ GoTo(p, "exited")
    /\ UNCHANGED <<connection, requested, sessions, messageVars, losses, restarts>>

\* Mutant: main waits for the signal before it subscribes.
Subscribe_TooLate(p) ==
    /\ At(p, "subscribing")
    /\ GoTo(p, "serving")
    /\ UNCHANGED <<connection, requested, sessions, messageVars, losses, restarts>>

\* The client drops a subscription while it has no connection; the error is
\* in the token, at which nobody looks.
Subscribe(p) ==
    /\ At(p, "subscribing")
    /\ GoTo(p, "serving")
    /\ requested' = IF connection[p] = "open" THEN requested \cup {p} ELSE requested
    /\ UNCHANGED <<connection, sessions, messageVars, losses, restarts>>

\* A signal, or the end of the process for any other reason.
Exit(p) ==
    /\ main[p] \in {"subscribing", "serving"}
    /\ restarts[p] < MaxRestarts
    /\ GoTo(p, "exited")
    /\ Connection(p, "none")
    /\ Forget(p)
    /\ UNCHANGED <<published, handled, losses, restarts>>

\* The container is started again.
Restart(p) ==
    /\ At(p, "exited")
    /\ restarts[p] < MaxRestarts
    /\ restarts' = [restarts EXCEPT ![p] = @ + 1]
    /\ losses' = [losses EXCEPT ![p] = 0]
    /\ GoTo(p, "connecting")
    /\ UNCHANGED <<connection, requested, sessions, messageVars>>

\* The callback runs; the client is configured not to order the callbacks.
Receive(m, p) ==
    /\ <<m, p>> \in inFlight
    /\ inFlight' = inFlight \ {<<m, p>>}
    /\ handled' = handled \cup {<<m, p>>}
    /\ UNCHANGED <<main, connection, requested, sessions, published, losses, restarts>>

-----------------------------------------------------------------------------
(* The connection and the broker *)

ConnectionLost(p) ==
    /\ connection[p] = "open"
    /\ losses[p] < MaxLosses
    /\ losses' = [losses EXCEPT ![p] = @ + 1]
    /\ Connection(p, "lost")
    /\ Forget(p)
    /\ UNCHANGED <<main, published, handled, restarts>>

\* AutoReconnect; the OnConnect handler only logs.
Reconnect(p) ==
    /\ connection[p] = "lost"
    /\ Connection(p, "open")
    /\ UNCHANGED <<main, requested, sessions, messageVars, losses, restarts>>

Acknowledge(p) ==
    /\ p \in requested
    /\ requested' = requested \ {p}
    /\ sessions' = sessions \cup {p}
    /\ UNCHANGED <<main, connection, messageVars, losses, restarts>>

\* Mutant: the topic without $share/persist: every replica gets every message.
Receivers_All == {sessions}

\* $share/persist/...: the broker picks one of the subscribers, if there is one.
Receivers == IF sessions = {} THEN {{}} ELSE {{p} : p \in sessions}

Publish(m) ==
    /\ m \notin published
    /\ published' = published \cup {m}
    /\ \E R \in Receivers : inFlight' = inFlight \cup {<<m, p>> : p \in R}
    /\ UNCHANGED <<main, connection, requested, sessions, handled, losses, restarts>>

-----------------------------------------------------------------------------

Replica(p) ==
    Connect(p) \/ ConnectTimesOut(p) \/ Subscribe(p) \/ Exit(p) \/ Restart(p)

Network(p) == ConnectionLost(p) \/ Reconnect(p) \/ Acknowledge(p)

Next ==
    \/ \E p \in Replicas : Replica(p) \/ Network(p)
    \/ \E m \in Messages : Publish(m) \/ \E p \in Replicas : Receive(m, p)

Spec == Init /\ [][Next]_vars

\* main goes on, the client reconnects, and an open connection delivers.
Fairness ==
    /\ \A p \in Replicas :
          /\ WF_vars(Connect(p) \/ ConnectTimesOut(p))
          /\ WF_vars(Subscribe(p))
          /\ WF_vars(Reconnect(p))
          /\ WF_vars(Acknowledge(p))
    /\ \A m \in Messages, p \in Replicas : WF_vars(Receive(m, p))

FairSpec == Spec /\ Fairness

-----------------------------------------------------------------------------
(* Properties *)

\* Every variable has its type, and the broker serves connected clients only.
TypeOK ==
    /\ main \in [Replicas -> {"connecting", "subscribing", "serving", "exited"}]
    /\ connection \in [Replicas -> {"none", "open", "lost"}]
    /\ requested \cup sessions \subseteq {p \in Replicas : connection[p] = "open"}
    /\ published \subseteq Messages
    /\ inFlight \cup handled \subseteq published \X Replicas
    /\ losses \in [Replicas -> 0..MaxLosses]
    /\ restarts \in [Replicas -> 0..MaxRestarts]

\* The replicas divide the telemetry: no message is handled, or on its way, in
\* two of them, also while they lose connections and are restarted, so that a
\* message is never stored twice by two replicas.
HandledByOne ==
    \A m \in Messages :
        Cardinality({p \in Replicas : <<m, p>> \in inFlight \cup handled}) <= 1

\* A replica that is started connects and subscribes, or exits to be started
\* again, or the connection is lost: it never hangs half way.
StartsServing ==
    \A p \in Replicas :
        At(p, "connecting") ~> (p \in sessions \/ At(p, "exited") \/ losses[p] > 0)

\* persist "subscribes to MQTT topics and writes telemetry data to TimescaleDB"
\* (cmd/persist/main.go:1): while it runs and has a connection it gets, or will
\* get, messages.
StaysSubscribed ==
    \A p \in Replicas :
        (At(p, "serving") /\ connection[p] = "open")
            ~> (p \in sessions \/ connection[p] # "open" \/ At(p, "exited"))

=============================================================================
