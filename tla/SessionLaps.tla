---------------------------- MODULE SessionLaps ----------------------------
(***************************************************************************)
(* How finished laps reach the session_lap_data table: the game's session  *)
(* history packets, normalizeSessionHistoryData and the LatestLapData      *)
(* cache of ingest (f123/f123.go, f123/latest_lapdata.go), the publisher,  *)
(* and persist's INSERT ... ON CONFLICT DO NOTHING.                        *)
(*                                                                         *)
(* The game sends its whole lap list again and again over UDP.  Ingest     *)
(* sends a list on only when it is longer than any it has sent since it    *)
(* started, but then from the first lap; the database keeps the first row  *)
(* it gets for a lap.  The game is modelled from f123_spec.md: a lap may   *)
(* be amended after it ended, and a flashback may take the last one back.  *)
(* When the session is over nothing is in progress, and nothing follows    *)
(* the last lap.  Ingest may capture packets to files (handleCapture);     *)
(* cmd/replay sends the files again, in a loop, at any later time.         *)
(* A session stands for a (session, player car) pair, the key of the cache *)
(* and of the table.                                                       *)
(***************************************************************************)
EXTENDS Integers, Sequences, FiniteSets, SequencesExt

CONSTANTS
    Sessions,      \* (session UID, player car index) pairs
    Values,        \* what a lap entry may say: times and validity flags
    Partial,       \* the entry of the lap in progress
    None,          \* no row
    MaxLap,        \* bound: completed laps of a session
    MaxDatagrams,  \* bound: history packets in flight
    MaxChanges,    \* bound: amendments and flashbacks
    MaxCaptures,   \* bound: captured packets
    MaxRestarts,   \* bound: restarts of ingest
    MaxLosses      \* bound: lap messages lost between ingest and the database

ASSUME SessionLapsAssumption ==
    /\ Partial \notin Values
    /\ None \notin Values \cup {Partial}
    /\ {MaxLap, MaxDatagrams, MaxChanges, MaxCaptures, MaxRestarts, MaxLosses} \subseteq Nat

VARIABLES
    laps,       \* the game: per session, the completed laps
    reported,   \* history: entries the game has shown for a completed lap
    over,       \* the game: sessions that have ended
    datagrams,  \* history packets on their way
    changes,    \* amendments and flashbacks so far
    captured,   \* files: history packets that ingest has captured
    latest,     \* ingest: LatestLapData
    outbox,     \* ingest: lap messages not yet published
    restarts,   \* restarts so far
    writers,    \* persist: lap messages being written, in no order
    unsent,     \* lap messages ingest failed to publish so far
    losses,     \* lap messages lost after that so far
    db          \* session_lap_data: lap number -> entry

gameVars == <<laps, reported, over, changes>>
ingestVars == <<latest, outbox, unsent, restarts>>
persistVars == <<writers, losses, db>>
vars == <<gameVars, datagrams, captured, ingestVars, persistVars>>

\* Lap numbers are the indices of the list, from 0 (f123.go:438).
LapNums == 0..(MaxLap - 1)

Init ==
    /\ laps = [s \in Sessions |-> <<>>]
    /\ reported = [s \in Sessions |-> [n \in LapNums |-> {}]]
    /\ over = {}
    /\ datagrams = {}
    /\ captured = {}
    /\ changes = 0
    /\ latest = [s \in Sessions |-> 0]
    /\ outbox = <<>>
    /\ unsent = 0
    /\ restarts = 0
    /\ writers = {}
    /\ losses = 0
    /\ db = [s \in Sessions |-> [n \in LapNums |-> None]]

-----------------------------------------------------------------------------
(* The game *)

Report(s, n, v) == reported' = [reported EXCEPT ![s][n] = @ \cup {v}]

FinishLap(s, v) ==
    /\ s \notin over
    /\ Len(laps[s]) < MaxLap
    /\ laps' = [laps EXCEPT ![s] = Append(@, v)]
    /\ Report(s, Len(laps[s]), v)
    /\ UNCHANGED <<over, changes, datagrams, captured, ingestVars, persistVars>>

\* "This and previous lap invalidated" (f123_spec.md:1267).
AmendLastLap(s, v) ==
    /\ changes < MaxChanges
    /\ laps[s] # <<>>
    /\ v # Last(laps[s])
    /\ laps' = [laps EXCEPT ![s] = Append(Front(@), v)]
    /\ Report(s, Len(laps[s]) - 1, v)
    /\ changes' = changes + 1
    /\ UNCHANGED <<over, datagrams, captured, ingestVars, persistVars>>

\* A flashback over the line: the last lap is in progress again.
Flashback(s) ==
    /\ s \notin over
    /\ changes < MaxChanges
    /\ laps[s] # <<>>
    /\ laps' = [laps EXCEPT ![s] = Front(@)]
    /\ changes' = changes + 1
    /\ UNCHANGED <<reported, over, datagrams, captured, ingestVars, persistVars>>

\* The chequered flag.
EndSession(s) ==
    /\ s \notin over
    /\ laps[s] # <<>>
    /\ over' = over \cup {s}
    /\ UNCHANGED <<laps, reported, changes, datagrams, captured, ingestVars, persistVars>>

\* A history packet lists the completed laps and the one in progress.
History(s) ==
    [session |-> s, laps |-> IF s \in over THEN laps[s] ELSE Append(laps[s], Partial)]

Receivable(h) ==
    /\ h \notin datagrams
    /\ Cardinality(datagrams) < MaxDatagrams
    /\ datagrams' = datagrams \cup {h}

SendHistory(s) ==
    /\ Receivable(History(s))
    /\ UNCHANGED <<gameVars, captured, ingestVars, persistVars>>

\* cmd/replay reads the captured files and sends them over and over.
Replay(h) ==
    /\ h \in captured
    /\ Receivable(h)
    /\ UNCHANGED <<gameVars, captured, ingestVars, persistVars>>

\* UDP: packets are lost, and (in HandleHistory) taken in any order.
LoseDatagram(h) ==
    /\ datagrams' = datagrams \ {h}
    /\ UNCHANGED <<gameVars, captured, ingestVars, persistVars>>

-----------------------------------------------------------------------------
(* Ingest *)

\* Mutant: NumLaps for NumLaps - 1, so that the lap in progress counts.
CompletedLaps_All(h) == Len(h.laps)

\* Mutant: the last completed lap is left out as well.
CompletedLaps_Fewer(h) == Len(h.laps) - 2

\* maxLapIndex: the last entry is the lap in progress.
CompletedLaps(h) == Len(h.laps) - 1

\* LatestLapData.Get: 0 for a session never seen.
Get(s) == latest[s]

\* LatestLapData.Set only ever raises an entry.
Set(s, n) == latest' = [latest EXCEPT ![s] = IF n > @ THEN n ELSE @]

\* Mutant: the list is indexed by lap numbers of the game, which start at 1.
LapMessages_Shifted(h) ==
    [i \in 1..CompletedLaps(h) |->
        [session |-> h.session, lap |-> i - 1, value |-> h.laps[i + 1]]]

LapMessages(h) ==
    [i \in 1..CompletedLaps(h) |->
        [session |-> h.session, lap |-> i - 1, value |-> h.laps[i]]]

\* handleCapture, if it is enabled: a packet with more than one lap is written
\* to a file, but at most one a second.
Capture(h) ==
    IF Len(h.laps) > 1 /\ Cardinality(captured) < MaxCaptures
    THEN captured' \in {captured, captured \cup {h}}
    ELSE UNCHANGED captured

\* handlePacket and Route of a session history packet for the player's car.
\* The cache is set before the messages are sent.
HandleHistory(h) ==
    /\ datagrams' = datagrams \ {h}
    /\ Capture(h)
    /\ IF CompletedLaps(h) <= 0 \/ Get(h.session) >= CompletedLaps(h)
       THEN UNCHANGED <<latest, outbox>>
       ELSE /\ Set(h.session, CompletedLaps(h))
            /\ outbox' = outbox \o LapMessages(h)
    /\ UNCHANGED <<gameVars, unsent, restarts, persistVars>>

\* The publisher takes one message at a time; persist receives it.
Publish ==
    /\ outbox # <<>>
    /\ outbox' = Tail(outbox)
    /\ writers' = writers \cup {Head(outbox)}
    /\ UNCHANGED <<gameVars, datagrams, captured, latest, unsent, restarts, losses, db>>

MayLose == unsent + losses < MaxLosses

\* The token has an error: RunMQTTv3Publisher logs it and goes on.
PublishFails ==
    /\ outbox # <<>>
    /\ MayLose
    /\ unsent' = unsent + 1
    /\ outbox' = Tail(outbox)
    /\ UNCHANGED <<gameVars, datagrams, captured, latest, restarts, persistVars>>

\* Mutant: the cache survives a restart, the queued messages do not.
RestartIngest_KeepsCache ==
    /\ restarts < MaxRestarts
    /\ restarts' = restarts + 1
    /\ outbox' = <<>>
    /\ UNCHANGED <<gameVars, datagrams, captured, latest, unsent, persistVars>>

\* Everything ingest knows is in memory.
RestartIngest ==
    /\ restarts < MaxRestarts
    /\ restarts' = restarts + 1
    /\ latest' = [s \in Sessions |-> 0]
    /\ outbox' = <<>>
    /\ UNCHANGED <<gameVars, datagrams, captured, unsent, persistVars>>

-----------------------------------------------------------------------------
(* Persist: one goroutine per lap message *)

WriteLapRow(m) ==
    /\ writers' = writers \ {m}
    /\ db' = IF db[m.session][m.lap] = None
             THEN [db EXCEPT ![m.session][m.lap] = m.value] ELSE db
    /\ UNCHANGED <<gameVars, datagrams, captured, ingestVars, losses>>

\* A QoS 0 subscription, a shutdown of persist or a failed INSERT.
LoseRow(m) ==
    /\ MayLose
    /\ losses' = losses + 1
    /\ writers' = writers \ {m}
    /\ UNCHANGED <<gameVars, datagrams, captured, ingestVars, db>>

-----------------------------------------------------------------------------

Game == \E s \in Sessions :
    \/ \E v \in Values : FinishLap(s, v) \/ AmendLastLap(s, v)
    \/ Flashback(s)
    \/ EndSession(s)
    \/ SendHistory(s)

Next ==
    \/ Game
    \/ \E h \in captured : Replay(h)
    \/ \E h \in datagrams : LoseDatagram(h) \/ HandleHistory(h)
    \/ Publish
    \/ PublishFails
    \/ RestartIngest
    \/ \E m \in writers : WriteLapRow(m) \/ LoseRow(m)

Spec == Init /\ [][Next]_vars

LapMessage == [session : Sessions, lap : LapNums, value : Values]

(***************************************************************************)
(* Fairness: the game sends the history of a session again and again       *)
(* (f123_spec.md: 20 packets a second, one car each); a packet is received *)
(* or lost in the end, and not all those that show the current laps are    *)
(* lost; publisher and writers do their work.                              *)
(***************************************************************************)
Fairness ==
    /\ \A s \in Sessions :
          /\ SF_vars(SendHistory(s))
          /\ WF_vars(\E h \in datagrams : h.session = s /\ (LoseDatagram(h) \/ HandleHistory(h)))
          /\ SF_vars(History(s) \in datagrams /\ HandleHistory(History(s)))
    /\ WF_vars(Publish \/ PublishFails)
    /\ \A m \in LapMessage : WF_vars(m \in writers /\ (WriteLapRow(m) \/ LoseRow(m)))

FairSpec == Spec /\ Fairness

-----------------------------------------------------------------------------
(* Properties *)

\* Every variable has its type: lap numbers stay within the game's lists, and
\* the lap in progress never becomes a message or a row.
TypeOK ==
    /\ laps \in [Sessions -> Seq(Values)]
    /\ reported \in [Sessions -> [LapNums -> SUBSET Values]]
    /\ \A h \in datagrams : h.session \in Sessions /\ h.laps \in Seq(Values \cup {Partial})
    /\ captured \subseteq [session : Sessions, laps : Seq(Values \cup {Partial})]
    /\ over \subseteq Sessions
    /\ changes \in 0..MaxChanges
    /\ latest \in [Sessions -> 0..MaxLap]
    /\ outbox \in Seq(LapMessage)
    /\ unsent \in Nat
    /\ restarts \in 0..MaxRestarts
    /\ writers \subseteq LapMessage
    /\ losses \in Nat
    /\ unsent + losses <= MaxLosses
    /\ db \in [Sessions -> [LapNums -> Values \cup {None}]]

Stored(s, n) == db[s][n] # None

OnItsWay(s, n) ==
    \E m \in ToSet(outbox) \cup writers : m.session = s /\ m.lap = n

\* Laps the cache counts, and so keeps from being sent again, although the
\* database neither has them nor is going to get them.
Suppressed ==
    {p \in Sessions \X LapNums :
        p[2] < latest[p[1]] /\ ~Stored(p[1], p[2]) /\ ~OnItsWay(p[1], p[2])}

\* The cache is raised (f123.go:433) before the messages are sent (264), so a
\* message that is lost afterwards is not sent again; but it costs one lap at
\* most: whatever the order of the datagrams, and however often packets are
\* repeated, replayed and ingest is restarted, the cache never suppresses more
\* laps than messages have been lost, and none if none has.
CacheIsBacked == Cardinality(Suppressed) <= unsent + losses

\* A row holds what the game showed for that completed lap at some time:
\* never the lap in progress, never the entry of another lap or session.
RowsWereReported ==
    \A s \in Sessions, n \in LapNums :
        Stored(s, n) => db[s][n] \in reported[s][n]

\* The first row of a lap wins, so the table keeps what the game has amended
\* or driven again since; but each such change makes at most one row stale,
\* whatever is replayed, repeated or restarted.
IsStale(s, n) ==
    Stored(s, n) /\ n < Len(laps[s]) /\ db[s][n] # laps[s][n + 1]

StaleRows == {p \in Sessions \X LapNums : IsStale(p[1], p[2])}

StaleRowsCostAChange == Cardinality(StaleRows) <= changes

\* A completed lap gets its row, unless the game takes the lap back or a
\* message is lost, although history packets are lost and reordered and
\* ingest forgets what it has sent when it restarts.  The last lap of a
\* session that has ended may be missing: no entry follows it.
LapsEventuallyStored ==
    \A s \in Sessions, n \in LapNums :
        Len(laps[s]) > n ~>
            \/ Stored(s, n)
            \/ Len(laps[s]) <= n
            \/ s \in over /\ n = Len(laps[s]) - 1
            \/ unsent + losses > 0

=============================================================================
