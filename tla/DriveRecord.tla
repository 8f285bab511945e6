---------------------------- MODULE DriveRecord ----------------------------
(***************************************************************************)
(* What the tables say about a drive: the content of the game's packets    *)
(* (f123/model.go), what Route and the normalise functions of f123/f123.go *)
(* make of it, and the columns persist fills from that (the row builders   *)
(* and WriteLapRow of internal/timescale/batcher.go).                      *)
(*                                                                         *)
(* Two conventions meet here that the types do not tell apart.  The game   *)
(* gives a sector as whole minutes and a rest in milliseconds, of which    *)
(* only the rest is used.  A packet of the current lap counts laps from 1  *)
(* and carries the time of the previous lap; the history packet counts     *)
(* them from 0.                                                            *)
(*                                                                         *)
(* Time is counted in units of which Minute make a minute.  A packet about *)
(* the current lap shows the car at the start of a sector.  Flashbacks and *)
(* amended laps, lost packets and restarts are in SessionLaps.             *)
(***************************************************************************)
EXTENDS Integers, Sequences, FiniteSets, SequencesExt

CONSTANTS
    Player, Rival,   \* cars; PlayerCarIndex of every header is Player
    RivalDrive,      \* what the rival has driven
    Times,           \* how long a sector may take
    Minute,
    MaxLaps,         \* bound: laps the player completes
    MaxCuts,         \* bound: sectors the player does not complete cleanly
    MaxPackets,      \* bound: packets the game sends
    MaxReorders      \* bound: packets that overtake another

Cars == {Player, Rival}

Sectors == 1..3

Lap == [sectors : [Sectors -> Times], cut : SUBSET Sectors]

\* Completed laps, and the sectors completed of the lap in progress.
Drive == [done : Seq(Lap), now : Seq(Times), cut : SUBSET Sectors]

ASSUME DriveAssumption ==
    /\ Player # Rival
    /\ Times \subseteq Nat \ {0}
    /\ Minute \in Nat \ {0}
    /\ RivalDrive \in Drive
    /\ {MaxLaps, MaxCuts, MaxPackets, MaxReorders} \subseteq Nat

VARIABLES
    drive,      \* the game: what each car has driven
    sent,       \* the game: packets sent so far
    wire,       \* packets on their way to ingest
    reorders,   \* packets that have overtaken another so far
    latest,     \* ingest: LatestLapData for this session and car
    clock,      \* ingest: timestamps handed out
    messages,   \* telemetry between ingest and the database, in no order
    tables,     \* hypertables: name -> rows
    session     \* session_lap_data

vars == <<drive, sent, wire, reorders, latest, clock, messages, tables, session>>

Hypertables == {"vehicle_data", "motion_data", "extended_wheel_data", "live_lap_data"}

Parked == [done |-> <<>>, now |-> <<>>, cut |-> {}]

Init ==
    /\ drive = [c \in Cars |-> IF c = Player THEN Parked ELSE RivalDrive]
    /\ sent = 0
    /\ wire = <<>>
    /\ reorders = 0
    /\ latest = 0
    /\ clock = 0
    /\ messages = {}
    /\ tables = [t \in Hypertables |-> {}]
    /\ session = {}

-----------------------------------------------------------------------------
(* The game and its packets *)

\* How long the sectors of a lap, or those completed so far, have taken.
SectorTime(now, i) == IF i <= Len(now) THEN now[i] ELSE 0
Total(now) == SectorTime(now, 1) + SectorTime(now, 2) + SectorTime(now, 3)

LapTime(lap) == lap.sectors[1] + lap.sectors[2] + lap.sectors[3]

Cuts(d) ==
    Cardinality(d.cut)
        + Cardinality({p \in (DOMAIN d.done) \X Sectors : p[2] \in d.done[p[1]].cut})

CompleteSector(t, clean) ==
    LET d == drive[Player]
        now == Append(d.now, t)
        cut == IF clean THEN d.cut ELSE d.cut \cup {Len(now)}
    IN  /\ Len(d.done) < MaxLaps
        /\ clean \/ Cuts(d) < MaxCuts
        /\ drive' = [drive EXCEPT ![Player] =
              IF Len(now) < 3 THEN [d EXCEPT !.now = now, !.cut = cut]
              ELSE [Parked EXCEPT !.done = Append(d.done, [sectors |-> now, cut |-> cut])]]
        /\ UNCHANGED <<sent, wire, reorders, latest, clock, messages, tables, session>>

\* Sector1TimeInMS and Sector1TimeMinutes, and so on; 0 until it is completed.
InMS(t) == t % Minute
Minutes(t) == t \div Minute

LapData(d) ==
    [LastLapTimeInMS |-> IF d.done = <<>> THEN 0 ELSE LapTime(Last(d.done)),
     CurrentLapTimeInMS |-> Total(d.now),
     SectorTimeInMS |-> [i \in 1..2 |-> InMS(SectorTime(d.now, i))],
     SectorTimeMinutes |-> [i \in 1..2 |-> Minutes(SectorTime(d.now, i))],
     CurrentLapNum |-> Len(d.done) + 1,
     Sector |-> Len(d.now)]

\* 0x01 lap valid, 0x02, 0x04, 0x08 sector valid.
LapValidBitFlags(cut) ==
    (IF cut = {} THEN 1 ELSE 0) + (IF 1 \in cut THEN 0 ELSE 2)
        + (IF 2 \in cut THEN 0 ELSE 4) + (IF 3 \in cut THEN 0 ELSE 8)

LapHistoryData(now, cut) ==
    [LapTimeInMS |-> Total(now),
     SectorTimeInMS |-> [i \in Sectors |-> InMS(SectorTime(now, i))],
     SectorTimeMinutes |-> [i \in Sectors |-> Minutes(SectorTime(now, i))],
     LapValidBitFlags |-> LapValidBitFlags(cut)]

\* The completed laps and the one in progress.
SessionHistory(d) ==
    Append([i \in DOMAIN d.done |-> LapHistoryData(d.done[i].sectors, d.done[i].cut)],
           LapHistoryData(d.now, d.cut))

\* Wheel arrays: 0 rear left, 1 rear right, 2 front left, 3 front right.
WheelOrder == <<"rear left", "rear right", "front left", "front right">>

\* A reading stands for any value by its car and its wheel.  What becomes of
\* the number is not followed: a tire pressure, a float, loses its fraction
\* (f123.go:357), and no property here is about values of that kind.
Reading(c, wheel) == [car |-> c, wheel |-> wheel]

WheelArray(c) == [i \in 0..3 |-> Reading(c, WheelOrder[i + 1])]

\* Most packets have an entry for every car, a history packet is about one,
\* and the extended motion packet is about the player's car only.
Packets ==
    {[id |-> "CarTelemetry", cars |-> [c \in Cars |-> WheelArray(c)]],
     [id |-> "CarMotion", cars |-> [c \in Cars |-> Reading(c, "none")]],
     [id |-> "MotionEx", wheels |-> WheelArray(Player)],
     [id |-> "LapData", cars |-> [c \in Cars |-> LapData(drive[c])]]}
    \cup {[id |-> "SessionHistory", CurrentCarIdx |-> c,
           LapHistoryData |-> SessionHistory(drive[c])] : c \in Cars}

SendPacket(p) ==
    /\ sent < MaxPackets
    /\ sent' = sent + 1
    /\ wire' = Append(wire, p)
    /\ UNCHANGED <<drive, reorders, latest, clock, messages, tables, session>>

\* UDP: a packet overtakes the one before it.
Overtake(i) ==
    /\ reorders < MaxReorders
    /\ reorders' = reorders + 1
    /\ wire' = [wire EXCEPT ![i] = wire[i + 1], ![i + 1] = wire[i]]
    /\ UNCHANGED <<drive, sent, latest, clock, messages, tables, session>>

-----------------------------------------------------------------------------
(* Ingest *)

WheelIndex == [back_left |-> 0, back_right |-> 1, front_left |-> 2, front_right |-> 3]

FourWheels(array) == [place \in DOMAIN WheelIndex |-> array[WheelIndex[place]]]

\* Mutant: the lap the time belongs to instead of the one it is sent in.
CurrentLapData_PreviousLap(l) ==
    [lap_num |-> l.CurrentLapNum - 1, sector |-> l.Sector, lap_time |-> l.LastLapTimeInMS,
     sector1_time |-> l.SectorTimeInMS[1], sector2_time |-> l.SectorTimeInMS[2]]

\* The time of the last lap, and of a sector what exceeds whole minutes.
CurrentLapData(l) ==
    [lap_num |-> l.CurrentLapNum, sector |-> l.Sector, lap_time |-> l.LastLapTimeInMS,
     sector1_time |-> l.SectorTimeInMS[1], sector2_time |-> l.SectorTimeInMS[2]]

\* lap.LapValidBitFlags & 0x01, 0x02, 0x04 or 0x08
Bit(flags, mask) == (flags \div mask) % 2 = 1

\* Mutant: the sectors start at 0x01, as if that were not the lap's.
Validity_OffByOne(flags) ==
    [lap |-> Bit(flags, 1), sectors |-> [i \in Sectors |-> Bit(flags, <<1, 2, 4>>[i])]]

Validity(flags) ==
    [lap |-> Bit(flags, 1), sectors |-> [i \in Sectors |-> Bit(flags, <<2, 4, 8>>[i])]]

HistoricLapData(i, e) ==
    [lap_num |-> i - 1, lap_time |-> e.LapTimeInMS, sector_times |-> e.SectorTimeInMS,
     valid |-> Validity(e.LapValidBitFlags)]

\* How many laps of a history packet are sent on: all completed ones, or none.
NewLaps(p) ==
    LET n == Len(p.LapHistoryData) - 1
    IN  IF p.CurrentCarIdx # Player \/ n <= 0 \/ latest >= n THEN 0 ELSE n

Telemetry(kind, data) == {[kind |-> kind, time |-> clock + 1, data |-> data]}

Own(p) == p.cars[Player]

Route(p) ==
    CASE p.id = "CarTelemetry" -> Telemetry("vehicle_data", FourWheels(Own(p)))
      [] p.id = "CarMotion" -> Telemetry("motion_data", Own(p))
      [] p.id = "MotionEx" -> Telemetry("extended_wheel_data", FourWheels(p.wheels))
      [] p.id = "LapData" -> Telemetry("live_lap_data", CurrentLapData(Own(p)))
      [] p.id = "SessionHistory" ->
            UNION {Telemetry("session_lap_data", HistoricLapData(i, p.LapHistoryData[i])) :
                   i \in 1..NewLaps(p)}

\* handlePacket; what is sent gets the time at which it is sent.
HandlePacket ==
    /\ wire # <<>>
    /\ wire' = Tail(wire)
    /\ messages' = messages \cup Route(Head(wire))
    /\ clock' = clock + 1
    /\ latest' = IF Head(wire).id = "SessionHistory" /\ NewLaps(Head(wire)) > 0
                 THEN NewLaps(Head(wire)) ELSE latest
    /\ UNCHANGED <<drive, sent, reorders, tables, session>>

-----------------------------------------------------------------------------
(* Persist *)

\* The prefix of a column, and the wheel it is filled from.
ColumnPrefix == [fl |-> "front_left", fr |-> "front_right", bl |-> "back_left", br |-> "back_right"]

WheelColumns(data) == [prefix \in DOMAIN ColumnPrefix |-> data[ColumnPrefix[prefix]]]

LiveLapColumns(data) ==
    [lap_num |-> data.lap_num, current_lap_time |-> data.lap_time, sector |-> data.sector,
     sector1_time |-> data.sector1_time, sector2_time |-> data.sector2_time]

RowColumns(m) ==
    CASE m.kind \in {"vehicle_data", "extended_wheel_data"} -> WheelColumns(m.data)
      [] m.kind = "motion_data" -> m.data
      [] m.kind = "live_lap_data" -> LiveLapColumns(m.data)

\* Mutant: rows get the time at which they are built.
Row_Stamped(m) ==
    [time |-> 1 + Cardinality(UNION {tables[t] : t \in Hypertables}), columns |-> RowColumns(m)]

\* buildRowForCopy
Row(m) == [time |-> m.time, columns |-> RowColumns(m)]

Columns ==
    [vehicle_data |-> <<"fl", "fr", "bl", "br">>,
     motion_data |-> <<"car", "wheel">>,
     extended_wheel_data |-> <<"fl", "fr", "bl", "br">>,
     live_lap_data |-> <<"lap_num", "current_lap_time", "sector", "sector1_time", "sector2_time">>]

\* A map is iterated in any order; two of them are enough to tell orders apart.
RowKeys(table) == {Columns[table], Reverse(Columns[table])}

\* Mutant: the values are taken from an iteration of their own.
Values_OwnOrder(columns, keys) == [j \in DOMAIN keys |-> columns[Reverse(keys)[j]]]

Values(columns, keys) == [j \in DOMAIN keys |-> columns[keys[j]]]

\* The database gets the names of the columns once, and rows of values.
CopyFrom(keys, values) == [k \in ToSet(keys) |-> values[CHOOSE j \in DOMAIN keys : keys[j] = k]]

\* writeBatch
StoreRow(m) ==
    /\ m.kind \in Hypertables
    /\ messages' = messages \ {m}
    /\ \E keys \in RowKeys(m.kind) :
          LET row == Row(m)
              copied == CopyFrom(keys, Values(row.columns, keys))
          IN  tables' = [tables EXCEPT ![m.kind] = @ \cup {[row EXCEPT !.columns = copied]}]
    /\ UNCHANGED <<drive, sent, wire, reorders, latest, clock, session>>

\* ON CONFLICT DO NOTHING
WriteLapRow(m) ==
    /\ m.kind = "session_lap_data"
    /\ messages' = messages \ {m}
    /\ session' = IF \E r \in session : r.lap_num = m.data.lap_num
                  THEN session ELSE session \cup {m.data}
    /\ UNCHANGED <<drive, sent, wire, reorders, latest, clock, tables>>

-----------------------------------------------------------------------------

Next ==
    \/ \E t \in Times, clean \in BOOLEAN : CompleteSector(t, clean)
    \/ \E p \in Packets : SendPacket(p)
    \/ \E i \in 1..(Len(wire) - 1) : Overtake(i)
    \/ HandlePacket
    \/ \E m \in messages : StoreRow(m) \/ WriteLapRow(m)

Spec == Init /\ [][Next]_vars

-----------------------------------------------------------------------------
(* Properties *)

Driven == drive[Player].done

\* What the dashboards read of the live rows.
LiveRows ==
    {[time |-> r.time, lap_num |-> r.columns.lap_num, sector |-> r.columns.sector,
      current_lap_time |-> r.columns.current_lap_time] : r \in tables["live_lap_data"]}

\* A row of session_lap_data is a lap the player has completed: its number
\* counts from 0, its time is exact, its sectors add up to that time but for
\* whole minutes, and each validity column is that of its own sector.
SessionRowsAreTrue ==
    \A r \in session :
        /\ r.lap_num + 1 \in DOMAIN Driven
        /\ LET lap == Driven[r.lap_num + 1]
               missing == r.lap_time - Total(r.sector_times)
           IN  /\ r.lap_time = LapTime(lap)
               /\ missing >= 0 /\ missing % Minute = 0
               /\ missing = 0 <=> \A i \in Sectors : lap.sectors[i] < Minute
               /\ r.valid.lap <=> lap.cut = {}
               /\ \A i \in Sectors : r.valid.sectors[i] <=> i \notin lap.cut

\* The lap markers of the dashboard (lap_num - 1 and current_lap_time of the
\* live rows, if that is not 0) name a completed lap and its time, and agree
\* with the session table, which counts laps from 0.
LapMarkersAreTrue ==
    \A r \in LiveRows : r.current_lap_time > 0 =>
        /\ r.lap_num - 1 \in DOMAIN Driven
        /\ r.current_lap_time = LapTime(Driven[r.lap_num - 1])
        /\ \A s \in session : s.lap_num = r.lap_num - 2 => s.lap_time = r.current_lap_time

Place(r) == 3 * r.lap_num + r.sector

\* Although publishers, batches and writers reorder what they carry, live rows
\* sorted by their time follow the drive, as long as UDP has kept its order.
LiveRowsFollowTheDrive ==
    reorders = 0 =>
        \A r, s \in LiveRows : r.time < s.time => Place(r) <= Place(s)

WheelColumn == [fl |-> "front left", fr |-> "front right", bl |-> "rear left", br |-> "rear right"]

\* Readings in the wheel and motion tables are those of the player's car, each
\* in the columns of its own wheel: the game, the messages and the columns all
\* order and name the wheels differently.
ReadingsKeepTheirPlace ==
    /\ \A t \in {"vehicle_data", "extended_wheel_data"} : \A r \in tables[t] :
          \A prefix \in DOMAIN WheelColumn :
              r.columns[prefix] = Reading(Player, WheelColumn[prefix])
    /\ \A r \in tables["motion_data"] : r.columns = Reading(Player, "none")

\* "lap_time = 2; // time since the beginning of current lap"
\* (protobuf/telemetry.proto:124), of a live row of the first lap or of a
\* later one.
LapTimeIsCurrent ==
    \A r \in LiveRows :
        LET sectors == IF r.lap_num \in DOMAIN Driven
                       THEN Driven[r.lap_num].sectors ELSE drive[Player].now
        IN  r.current_lap_time = Total(SubSeq(sectors, 1, r.sector))

=============================================================================
