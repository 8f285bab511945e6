------------------------- MODULE DriveRecordProofs --------------------------
(***************************************************************************)
(* Proofs about DriveRecord, for every pair of cars, every length of a     *)
(* sector and of a minute and every bound on the drive, the packets and    *)
(* their reordering, under DriveAssumption.                                *)
(*                                                                         *)
(* A row is written long after the packet it comes from was sent, and the  *)
(* drive has gone on.  What stays true of the packet, of the message made  *)
(* of it and of the row is what they say of laps that are over: Driven     *)
(* only grows.  Told carries that from the packets to the rows; Ordered    *)
(* relates the time at which each live row was stamped to how far the      *)
(* drive it tells of had come, and to what is still on the wire.           *)
(***************************************************************************)
EXTENDS DriveRecord, SequenceTheorems, TLAPS

\* The forms of what the game sends.
Wheels == {"none", "rear left", "rear right", "front left", "front right"}

Readings == [car : Cars, wheel : Wheels]

LapDataForm ==
    [LastLapTimeInMS : Nat, CurrentLapTimeInMS : Nat, SectorTimeInMS : [1..2 -> Nat],
     SectorTimeMinutes : [1..2 -> Nat], CurrentLapNum : Nat, Sector : Nat]

LapHistoryForm ==
    [LapTimeInMS : Nat, SectorTimeInMS : [Sectors -> Nat],
     SectorTimeMinutes : [Sectors -> Nat], LapValidBitFlags : Nat]

PacketForm ==
    [id : {"CarTelemetry"}, cars : [Cars -> [0..3 -> Readings]]]
    \cup [id : {"CarMotion"}, cars : [Cars -> Readings]]
    \cup [id : {"MotionEx"}, wheels : [0..3 -> Readings]]
    \cup [id : {"LapData"}, cars : [Cars -> LapDataForm]]
    \cup [id : {"SessionHistory"}, CurrentCarIdx : Cars, LapHistoryData : Seq(LapHistoryForm)]

\* Three sectors make a lap: at most two are completed of the one in progress.
Forms ==
    /\ drive \in [Cars -> Drive]
    /\ Len(drive[Player].now) <= 2
    /\ wire \in Seq(PacketForm)
    /\ reorders \in Nat /\ clock \in Nat /\ latest \in Nat
    /\ tables = [t \in Hypertables |-> tables[t]]

-----------------------------------------------------------------------------
(* What packets, messages and rows tell of laps that are over *)

\* How far the player has come, counted like Place.
Now == 3 * (Len(Driven) + 1) + Len(drive[Player].now)

LapIsTrue(n, sector, time) ==
    /\ n \in 1..(Len(Driven) + 1)
    /\ sector \in 0..2
    /\ 3 * n + sector <= Now
    /\ time = IF n = 1 THEN 0 ELSE LapTime(Driven[n - 1])

HistoryOf(i) == LapHistoryData(Driven[i].sectors, Driven[i].cut)

PacketTold(p) ==
    /\ p.id = "CarTelemetry" => Own(p) = WheelArray(Player)
    /\ p.id = "CarMotion" => Own(p) = Reading(Player, "none")
    /\ p.id = "MotionEx" => p.wheels = WheelArray(Player)
    /\ p.id = "LapData" =>
          LapIsTrue(Own(p).CurrentLapNum, Own(p).Sector, Own(p).LastLapTimeInMS)
    /\ p.id = "SessionHistory" /\ p.CurrentCarIdx = Player =>
          \A i \in 1..(Len(p.LapHistoryData) - 1) :
              i \in DOMAIN Driven /\ p.LapHistoryData[i] = HistoryOf(i)

LapStored(data) == \E i \in DOMAIN Driven : data = HistoricLapData(i, HistoryOf(i))

MessageTold(m) ==
    /\ m.kind \in {"vehicle_data", "extended_wheel_data"} => m.data = FourWheels(WheelArray(Player))
    /\ m.kind = "motion_data" => m.data = Reading(Player, "none")
    /\ m.kind = "live_lap_data" => LapIsTrue(m.data.lap_num, m.data.sector, m.data.lap_time)
    /\ m.kind = "session_lap_data" => LapStored(m.data)

LiveRowTold(r) == LapIsTrue(r.columns.lap_num, r.columns.sector, r.columns.current_lap_time)

TimeGiven(x) == x.time \in Nat /\ x.time <= clock

OnWire == {wire[i] : i \in DOMAIN wire}

Told ==
    /\ \A p \in OnWire : PacketTold(p)
    /\ \A m \in messages : MessageTold(m) /\ TimeGiven(m)
    /\ \A r \in tables["live_lap_data"] : LiveRowTold(r) /\ TimeGiven(r)
    /\ \A r \in session : LapStored(r)

-----------------------------------------------------------------------------
(* The order of what is live *)

IsLive(p) == p.id = "LapData"

PacketPlace(p) == 3 * Own(p).CurrentLapNum + Own(p).Sector

LiveMessages == {m \in messages : m.kind = "live_lap_data"}

\* Everything live that ingest has stamped, in the database or on its way.
Stamped ==
    {[time |-> m.time, place |-> Place(m.data)] : m \in LiveMessages}
    \cup {[time |-> r.time, place |-> Place(r.columns)] : r \in tables["live_lap_data"]}

Ordered ==
    reorders = 0 =>
        /\ \A a, b \in Stamped : a.time < b.time => a.place <= b.place
        /\ \A a \in Stamped : \A i \in DOMAIN wire :
              IsLive(wire[i]) => a.place <= PacketPlace(wire[i])
        /\ \A i, j \in DOMAIN wire :
              i < j /\ IsLive(wire[i]) /\ IsLive(wire[j]) => PacketPlace(wire[i]) <= PacketPlace(wire[j])

DriveInv == Forms /\ Told /\ Ordered /\ ReadingsKeepTheirPlace

-----------------------------------------------------------------------------
(* The drive, and what is sent of it *)

\* The player has driven laps of three sectors.
LEMMA PlayersDrive ==
    ASSUME Forms
    PROVE  /\ Player \in Cars
           /\ drive[Player] \in Drive
           /\ Driven \in Seq(Lap)
           /\ Len(Driven) \in Nat
           /\ drive[Player].now \in Seq(Times)
           /\ Len(drive[Player].now) \in 0..2
  <1>1. Player \in Cars /\ drive[Player] \in Drive /\ Len(drive[Player].now) <= 2
    BY DEF Forms, Cars
  <1>2. Driven \in Seq(Lap) /\ drive[Player].now \in Seq(Times)
    <2>1. ASSUME NEW d \in Drive
          PROVE  d.done \in Seq(Lap) /\ d.now \in Seq(Times)
      BY <2>1 DEF Drive
    <2>2. QED
      BY <1>1, <2>1 DEF Driven
  <1>3. Len(Driven) \in Nat /\ Len(drive[Player].now) \in Nat
    BY <1>2, LenProperties
  <1>4. Len(drive[Player].now) \in 0..2
    <2> DEFINE n == Len(drive[Player].now)
    <2>1. n \in Nat /\ n <= 2
      BY <1>1, <1>3
    <2> HIDE DEF n
    <2>2. n \in 0..2
      BY <2>1
    <2>3. QED
      BY <2>2 DEF n
  <1>5. QED
    BY <1>1, <1>2, <1>3, <1>4

\* Sectors take natural numbers of time, and so does what is added up of them.
LEMMA TimesAdd ==
    ASSUME NEW now \in Seq(Times)
    PROVE  /\ \A i \in Sectors : SectorTime(now, i) \in Nat
           /\ Total(now) \in Nat
  <1>a. Times \subseteq Nat
    BY DriveAssumption
  <1>1. \A i \in Sectors : SectorTime(now, i) \in Nat
    <2>1. ASSUME NEW i \in Sectors, i <= Len(now)
          PROVE  now[i] \in Nat
      <3>1. now[i] \in Times
        BY <2>1 DEF Sectors
      <3>2. QED
        BY <1>a, <3>1
    <2>2. QED
      BY <2>1 DEF SectorTime
  <1>2. QED
    BY <1>1 DEF Total, Sectors

\* So does the time of a lap.
LEMMA LapTimes ==
    ASSUME NEW lap \in Lap
    PROVE  /\ lap.sectors \in Seq(Times)
           /\ Len(lap.sectors) = 3
           /\ \A i \in Sectors : lap.sectors[i] \in Times /\ SectorTime(lap.sectors, i) = lap.sectors[i]
           /\ lap.cut \subseteq Sectors
           /\ LapTime(lap) \in Nat
           /\ LapTime(lap) = Total(lap.sectors)
  <1>1. lap.sectors \in [1..3 -> Times] /\ lap.cut \subseteq Sectors
    BY DEF Lap, Sectors
  <1>2. lap.sectors \in Seq(Times) /\ Len(lap.sectors) = 3
    <2>1. lap.sectors \in UNION {[1..n -> Times] : n \in Nat}
      BY <1>1
    <2>2. lap.sectors \in Seq(Times)
      BY <2>1, SeqDef
    <2>3. QED
      BY <1>1, <2>2, LenProperties
  <1>3. \A i \in Sectors : lap.sectors[i] \in Times /\ SectorTime(lap.sectors, i) = lap.sectors[i]
    BY <1>1, <1>2 DEF SectorTime, Sectors
  <1>4. LapTime(lap) \in Nat /\ LapTime(lap) = Total(lap.sectors)
    <2>1. Times \subseteq Nat /\ 1 \in Sectors /\ 2 \in Sectors /\ 3 \in Sectors
      BY DriveAssumption DEF Sectors
    <2>2. lap.sectors[1] \in Nat /\ lap.sectors[2] \in Nat /\ lap.sectors[3] \in Nat
      BY <1>3, <2>1
    <2>3. QED
      BY <1>3, <2>1, <2>2 DEF LapTime, Total
  <1>5. QED
    BY <1>1, <1>2, <1>3, <1>4

\* The two parts of a sector's time: a sector is its whole minutes and a rest.
LEMMA MinutesAndRest ==
    ASSUME NEW t \in Nat
    PROVE  /\ InMS(t) \in Nat /\ Minutes(t) \in Nat
           /\ InMS(t) < Minute
           /\ t = Minute * Minutes(t) + InMS(t)
  BY DriveAssumption DEF InMS, Minutes

\* What a history packet says of a lap is well formed.
LEMMA HistoryForm ==
    ASSUME NEW now \in Seq(Times), NEW cut
    PROVE  LapHistoryData(now, cut) \in LapHistoryForm
  <1>1. Total(now) \in Nat /\ \A i \in Sectors : SectorTime(now, i) \in Nat
    BY TimesAdd
  <1>2. \A i \in Sectors : InMS(SectorTime(now, i)) \in Nat /\ Minutes(SectorTime(now, i)) \in Nat
    BY <1>1, MinutesAndRest
  <1>3. LapValidBitFlags(cut) \in Nat
    BY DEF LapValidBitFlags
  <1>4. QED
    BY <1>1, <1>2, <1>3 DEF LapHistoryData, LapHistoryForm

\* So is what a packet says of the current lap.
LEMMA CurrentForm ==
    ASSUME NEW d \in Drive
    PROVE  LapData(d) \in LapDataForm
  <1>1. d.done \in Seq(Lap) /\ d.now \in Seq(Times)
    BY DEF Drive
  <1>2. Total(d.now) \in Nat /\ \A i \in 1..2 : SectorTime(d.now, i) \in Nat
    BY <1>1, TimesAdd DEF Sectors
  <1>3. \A i \in 1..2 : InMS(SectorTime(d.now, i)) \in Nat /\ Minutes(SectorTime(d.now, i)) \in Nat
    BY <1>2, MinutesAndRest
  <1>4. (IF d.done = <<>> THEN 0 ELSE LapTime(Last(d.done))) \in Nat
    <2>1. CASE d.done # <<>>
      <3>1. Last(d.done) \in Lap
        BY <1>1, <2>1 DEF Last
      <3>2. QED
        BY <2>1, <3>1, LapTimes
    <2>2. QED
      BY <2>1
  <1>5. Len(d.done) + 1 \in Nat /\ Len(d.now) \in Nat
    BY <1>1
  <1>6. QED
    BY <1>2, <1>3, <1>4, <1>5 DEF LapData, LapDataForm

\* Every packet of a car is well formed.
LEMMA PacketsHaveForm ==
    ASSUME Forms, NEW p \in Packets
    PROVE  p \in PacketForm
  <1>1. \A c \in Cars : drive[c] \in Drive
    BY DEF Forms
  <1>2. \A c \in Cars : WheelArray(c) \in [0..3 -> Readings]
    <2>1. ASSUME NEW c \in Cars, NEW i \in 0..3
          PROVE  WheelOrder[i + 1] \in Wheels
      <3>1. i = 0 \/ i = 1 \/ i = 2 \/ i = 3
        OBVIOUS
      <3>2. QED
        <4>1. WheelOrder[1] \in Wheels /\ WheelOrder[2] \in Wheels
              /\ WheelOrder[3] \in Wheels /\ WheelOrder[4] \in Wheels
          BY DEF WheelOrder, Wheels
        <4>2. QED
          BY <3>1, <4>1
    <2>2. QED
      <3>1. ASSUME NEW c \in Cars, NEW i \in 0..3
            PROVE  Reading(c, WheelOrder[i + 1]) \in Readings
        BY <2>1 DEF Reading, Readings
      <3>2. QED
        BY <3>1 DEF WheelArray
  <1>3. \A c \in Cars : Reading(c, "none") \in Readings
    BY DEF Reading, Readings, Wheels
  <1>4. \A c \in Cars : LapData(drive[c]) \in LapDataForm
    BY <1>1, CurrentForm
  <1>5. ASSUME NEW c \in Cars
        PROVE  SessionHistory(drive[c]) \in Seq(LapHistoryForm)
    <2> DEFINE d == drive[c]
               old == [i \in DOMAIN d.done |-> LapHistoryData(d.done[i].sectors, d.done[i].cut)]
    <2>1. d.done \in Seq(Lap) /\ d.now \in Seq(Times)
      BY <1>1 DEF Drive
    <2>2. ASSUME NEW i \in DOMAIN d.done
          PROVE  LapHistoryData(d.done[i].sectors, d.done[i].cut) \in LapHistoryForm
      <3>1. d.done[i] \in Lap
        BY <2>1
      <3>2. d.done[i].sectors \in Seq(Times)
        BY <3>1, LapTimes
      <3>3. QED
        BY <3>2, HistoryForm
    <2>3. old \in Seq(LapHistoryForm)
      <3>1. DOMAIN d.done = 1..Len(d.done) /\ Len(d.done) \in Nat
        BY <2>1
      <3>2. old \in [1..Len(d.done) -> LapHistoryForm]
        BY <2>2, <3>1
      <3>3. QED
        BY <3>1, <3>2
    <2>4. LapHistoryData(d.now, d.cut) \in LapHistoryForm
      BY <2>1, HistoryForm
    <2>5. QED
      BY <2>3, <2>4 DEF SessionHistory
  <1>6. Player \in Cars
    BY DEF Cars
  <1>7. QED
    BY <1>2, <1>3, <1>4, <1>5, <1>6 DEF Packets, PacketForm

-----------------------------------------------------------------------------
(* What is told of laps that are over stays true *)

\* How far the player has come is a natural number.
LEMMA NowIsANumber ==
    ASSUME Forms
    PROVE  Now \in Nat
  <1> DEFINE n == Len(Driven)
             k == Len(drive[Player].now)
  <1>1. n \in Nat /\ k \in 0..2
    BY PlayersDrive
  <1>2. Now = 3 * (n + 1) + k
    BY DEF Now
  <1> HIDE DEF n, k
  <1>3. QED
    BY <1>1, <1>2

\* The drive goes on.
Grown ==
    /\ Driven' \in Seq(Lap)
    /\ Len(Driven) <= Len(Driven')
    /\ \A i \in DOMAIN Driven : Driven'[i] = Driven[i]
    /\ Len(drive[Player].now)' \in 0..2
    /\ Now' \in Nat /\ Now <= Now'

\* Two fields of the record of a drive are replaced.
LEMMA TwoFields ==
    ASSUME NEW x \in Drive, NEW n, NEW c
    PROVE  [x EXCEPT !.now = n, !.cut = c] = [done |-> x.done, now |-> n, cut |-> c]
  <1> DEFINE a == x.done
             b == x.now
             e == x.cut
             y == [done |-> a, now |-> n, cut |-> e]
  <1>1. x = [done |-> a, now |-> b, cut |-> e]
    BY DEF Drive
  <1> HIDE DEF a, b, e
  <1>2. [x EXCEPT !.now = n] = y
    BY <1>1
  <1>3. [y EXCEPT !.cut = c] = [done |-> a, now |-> n, cut |-> c]
    OBVIOUS
  <1>4. [x EXCEPT !.now = n, !.cut = c] = [[x EXCEPT !.now = n] EXCEPT !.cut = c]
    OBVIOUS
  <1>5. QED
    BY <1>2, <1>3, <1>4 DEF a

\* A completed sector is one more of the lap in progress, or ends it.
LEMMA DriveGrows ==
    ASSUME Forms, NEW t \in Times, NEW clean \in BOOLEAN, CompleteSector(t, clean)
    PROVE  drive' \in [Cars -> Drive] /\ Grown
  <1> DEFINE d == drive[Player]
             now == Append(d.now, t)
             cut == IF clean THEN d.cut ELSE d.cut \cup {Len(now)}
             next == IF Len(now) < 3 THEN [d EXCEPT !.now = now, !.cut = cut]
                     ELSE [Parked EXCEPT !.done = Append(d.done, [sectors |-> now, cut |-> cut])]
  <1>1. Player \in Cars /\ d \in Drive /\ drive \in [Cars -> Drive]
    BY PlayersDrive DEF Forms
  <1>2. d.done \in Seq(Lap) /\ d.now \in Seq(Times) /\ Len(d.now) \in 0..2
    BY PlayersDrive DEF Driven
  <1>3. drive' = [drive EXCEPT ![Player] = next]
    BY DEF CompleteSector
  <1>4. now \in Seq(Times) /\ Len(now) = Len(d.now) + 1
    BY <1>2
  <1>5. cut \in SUBSET Sectors
    <2>1. Len(now) \in Sectors
      <3> DEFINE k == Len(d.now)
                 l == Len(now)
      <3>1. k \in 0..2 /\ l = k + 1
        BY <1>2, <1>4
      <3> HIDE DEF k, l
      <3>2. l \in 1..3
        BY <3>1
      <3>3. QED
        BY <3>2 DEF l, Sectors
    <2>2. d.cut \subseteq Sectors
      <3>1. \A x \in Drive : x.cut \subseteq Sectors
        BY DEF Drive
      <3>2. QED
        BY <1>1, <3>1
    <2>3. QED
      BY <2>1, <2>2
  <1>6. CASE Len(now) < 3
    <2>1. next = [done |-> d.done, now |-> now, cut |-> cut]
      <3> HIDE DEF d, now, cut
      <3>1. [d EXCEPT !.now = now, !.cut = cut] = [done |-> d.done, now |-> now, cut |-> cut]
        BY <1>1, TwoFields
      <3>2. QED
        BY <1>6, <3>1
    <2> HIDE DEF now, cut
    <2>2. next \in Drive
      BY <1>2, <1>4, <1>5, <2>1 DEF Drive
    <2>3. next.done = d.done /\ next.now = now
      BY <2>1
    <2> HIDE DEF next
    <2>4. drive' \in [Cars -> Drive] /\ drive'[Player] = next
      BY <1>1, <1>3, <2>2
    <2>5. Driven' = Driven /\ drive'[Player].now = now
      BY <2>3, <2>4 DEF Driven
    <2>6. Driven \in Seq(Lap) /\ Len(Driven) \in Nat
      BY PlayersDrive
    <2>7. Len(now) \in 0..2 /\ Len(d.now) <= Len(now)
      BY <1>2, <1>4, <1>6
    <2>8. Now' \in Nat /\ Now <= Now'
      <3>1. Now = 3 * (Len(Driven) + 1) + Len(d.now)
        BY DEF Now
      <3>2. Now' = 3 * (Len(Driven) + 1) + Len(now)
        BY <2>5 DEF Now
      <3>3. QED
        BY <1>2, <2>6, <2>7, <3>1, <3>2
    <2>9. QED
      BY <2>4, <2>5, <2>6, <2>7, <2>8 DEF Grown
  <1>7. CASE ~(Len(now) < 3)
    <2>1. Len(now) = 3 /\ Len(d.now) = 2
      <3> DEFINE k == Len(d.now)
                 l == Len(now)
      <3>1. k \in 0..2 /\ l = k + 1 /\ ~(l < 3)
        BY <1>2, <1>4, <1>7
      <3> HIDE DEF k, l
      <3>2. l = 3 /\ k = 2
        BY <3>1
      <3>3. QED
        BY <3>2 DEF k, l
    <2> DEFINE lap == [sectors |-> now, cut |-> cut]
    <2>2. next = [done |-> Append(d.done, lap), now |-> <<>>, cut |-> {}]
      BY <1>7 DEF Parked
    <2> HIDE DEF now, cut
    <2>3. lap \in Lap
      <3>1. now \in [1..3 -> Times]
        BY <1>4, <2>1, LenProperties
      <3>2. QED
        BY <1>5, <3>1 DEF Lap, Sectors
    <2> HIDE DEF lap
    <2>4. Append(d.done, lap) \in Seq(Lap) /\ Len(Append(d.done, lap)) = Len(d.done) + 1
          /\ \A i \in DOMAIN d.done : Append(d.done, lap)[i] = d.done[i]
      BY <1>2, <2>3
    <2>5. next \in Drive
      <3>1. <<>> \in Seq(Times) /\ {} \in SUBSET Sectors
        OBVIOUS
      <3>2. QED
        BY <2>2, <2>4, <3>1 DEF Drive
    <2>6. next.done = Append(d.done, lap) /\ next.now = <<>>
      BY <2>2
    <2> HIDE DEF next
    <2>7. drive' \in [Cars -> Drive] /\ drive'[Player] = next
      BY <1>1, <1>3, <2>5
    <2>8. Driven' = Append(Driven, lap) /\ drive'[Player].now = <<>>
      BY <2>6, <2>7 DEF Driven
    <2>9. Len(drive[Player].now)' = 0
      BY <2>8
    <2>10. Now' \in Nat /\ Now <= Now'
      <3>1. Now = 3 * (Len(d.done) + 1) + 2
        BY <2>1 DEF Now, Driven
      <3>2. Len(Driven') = Len(d.done) + 1
        BY <2>4, <2>8 DEF Driven
      <3>3. Now' = 3 * (Len(d.done) + 2) + 0
        <4>1. Now' = 3 * (Len(Driven') + 1) + Len(drive[Player].now)'
          BY DEF Now
        <4>2. Len(d.done) \in Nat
          BY <1>2
        <4>3. QED
          BY <2>9, <3>2, <4>1, <4>2
      <3>4. QED
        BY <1>2, <3>1, <3>3
    <2>11. Len(Driven) <= Len(Driven')
      BY <1>2, <2>4, <2>8 DEF Driven
    <2>12. QED
      BY <2>4, <2>7, <2>8, <2>9, <2>10, <2>11 DEF Grown, Driven
  <1>8. QED
    BY <1>6, <1>7

\* No step takes anything back of the drive.
LEMMA StepsGrow ==
    ASSUME Forms, [Next]_vars
    PROVE  Grown
  <1>1. CASE \E t \in Times, clean \in BOOLEAN : CompleteSector(t, clean)
    BY <1>1, DriveGrows
  <1>2. CASE UNCHANGED drive
    <2>1. Driven \in Seq(Lap) /\ Len(Driven) \in Nat /\ Len(drive[Player].now) \in 0..2
      BY PlayersDrive
    <2>2. Driven' = Driven /\ drive'[Player].now = drive[Player].now
      BY <1>2 DEF Driven
    <2>3. Now' = Now /\ Now \in Nat
      <3>1. Now' = Now
        BY <2>2 DEF Now
      <3>2. Now \in Nat
        BY NowIsANumber
      <3>3. QED
        BY <3>1, <3>2
    <2>4. QED
      BY <2>1, <2>2, <2>3 DEF Grown
  <1>3. QED
    BY <1>1, <1>2 DEF Next, vars, SendPacket, Overtake, HandlePacket, StoreRow, WriteLapRow

\* A completed lap keeps its number, its time and its history.
LEMMA LapsStay ==
    ASSUME Forms, Grown
    PROVE  /\ \A i \in DOMAIN Driven : i \in DOMAIN Driven' /\ HistoryOf(i)' = HistoryOf(i)
           /\ \A n, sector, time : LapIsTrue(n, sector, time) => LapIsTrue(n, sector, time)'
           /\ \A data : LapStored(data) => LapStored(data)'
  <1>1. Driven \in Seq(Lap) /\ Len(Driven) \in Nat /\ Len(drive[Player].now) \in 0..2
    BY PlayersDrive
  <1>2. Driven' \in Seq(Lap) /\ Len(Driven') \in Nat /\ Len(Driven) <= Len(Driven')
        /\ Len(drive[Player].now)' \in 0..2 /\ Now <= Now'
    BY DEF Grown
  <1>3. ASSUME NEW i \in DOMAIN Driven
        PROVE  i \in DOMAIN Driven' /\ Driven'[i] = Driven[i]
    BY <1>1, <1>2 DEF Grown
  <1>4. ASSUME NEW i \in DOMAIN Driven
        PROVE  HistoryOf(i)' = HistoryOf(i)
    BY <1>3 DEF HistoryOf
  <1>5. ASSUME NEW n, NEW sector, NEW time, LapIsTrue(n, sector, time)
        PROVE  LapIsTrue(n, sector, time)'
    <2>1. n \in 1..(Len(Driven) + 1) /\ sector \in 0..2 /\ 3 * n + sector <= Now
          /\ time = IF n = 1 THEN 0 ELSE LapTime(Driven[n - 1])
      BY <1>5 DEF LapIsTrue
    <2>2. n \in 1..(Len(Driven') + 1)
      BY <1>1, <1>2, <2>1
    <2>3. 3 * n + sector <= Now'
      <3>1. Now \in Nat /\ Now' \in Nat
        BY <1>1, <1>2, NowIsANumber DEF Grown
      <3>2. QED
        BY <1>1, <1>2, <2>1, <3>1
    <2>4. n # 1 => Driven'[n - 1] = Driven[n - 1]
      <3>1. n # 1 => n - 1 \in DOMAIN Driven
        BY <1>1, <2>1
      <3>2. QED
        BY <1>3, <3>1
    <2>5. time = IF n = 1 THEN 0 ELSE LapTime(Driven'[n - 1])
      BY <2>1, <2>4
    <2>6. QED
      BY <2>1, <2>2, <2>3, <2>5 DEF LapIsTrue
  <1>6. ASSUME NEW data, LapStored(data)
        PROVE  LapStored(data)'
    <2>1. PICK i \in DOMAIN Driven : data = HistoricLapData(i, HistoryOf(i))
      BY <1>6 DEF LapStored
    <2>2. i \in DOMAIN Driven' /\ data = HistoricLapData(i, HistoryOf(i)')
      BY <1>3, <1>4, <2>1
    <2>3. QED
      BY <2>2 DEF LapStored
  <1>7. QED
    BY <1>3, <1>4, <1>5, <1>6

-----------------------------------------------------------------------------
(* The forms are kept *)

\* What is handed on of a history packet is a natural number of laps.
LEMMA NewLapsAreCounted ==
    ASSUME NEW p \in PacketForm, p.id = "SessionHistory"
    PROVE  /\ NewLaps(p) \in Nat
           /\ NewLaps(p) > 0 => p.CurrentCarIdx = Player /\ NewLaps(p) = Len(p.LapHistoryData) - 1
  <1>1. p.LapHistoryData \in Seq(LapHistoryForm)
    BY DEF PacketForm
  <1> DEFINE n == Len(p.LapHistoryData)
  <1>2. n \in Nat
    BY <1>1, LenProperties
  <1>3. NewLaps(p) = IF p.CurrentCarIdx # Player \/ n - 1 <= 0 \/ latest >= n - 1 THEN 0 ELSE n - 1
    BY DEF NewLaps
  <1> HIDE DEF n
  <1>4. QED
    BY <1>2, <1>3 DEF n

\* The initial state has the forms.
LEMMA InitForms == Init => Forms
  <1> SUFFICES ASSUME Init PROVE Forms
    OBVIOUS
  <1>1. Parked \in Drive
    BY DEF Parked, Drive
  <1>2. drive \in [Cars -> Drive] /\ drive[Player] = Parked
    <2>1. RivalDrive \in Drive
      BY DriveAssumption
    <2>2. QED
      BY <1>1, <2>1 DEF Init, Cars
  <1>3. Parked.now = <<>> /\ Len(<<>>) = 0
    BY DEF Parked
  <1>4. Len(drive[Player].now) <= 2
    BY <1>2, <1>3
  <1>5. wire \in Seq(PacketForm)
    BY DEF Init
  <1>6. QED
    BY <1>2, <1>4, <1>5 DEF Init, Forms

\* Every step keeps them.
LEMMA FormsStep == Forms /\ [Next]_vars => Forms'
  <1> SUFFICES ASSUME Forms, [Next]_vars PROVE Forms'
    OBVIOUS
  <1>1. drive' \in [Cars -> Drive]
    <2>1. CASE \E t \in Times, clean \in BOOLEAN : CompleteSector(t, clean)
      BY <2>1, DriveGrows
    <2>2. CASE UNCHANGED drive
      BY <2>2 DEF Forms
    <2>3. QED
      BY <2>1, <2>2 DEF Next, vars, SendPacket, Overtake, HandlePacket, StoreRow, WriteLapRow
  <1>2. Len(drive[Player].now)' <= 2
    <2>1. Len(drive[Player].now)' \in 0..2
      BY StepsGrow DEF Grown
    <2> DEFINE n == Len(drive[Player].now)'
    <2> HIDE DEF n
    <2>2. n \in 0..2 => n <= 2
      OBVIOUS
    <2>3. QED
      BY <2>1, <2>2 DEF n
  <1>3. wire' \in Seq(PacketForm)
    <2>1. ASSUME NEW p \in Packets, SendPacket(p)
          PROVE  wire' \in Seq(PacketForm)
      BY <2>1, PacketsHaveForm DEF Forms, SendPacket
    <2>2. ASSUME NEW i \in 1..(Len(wire) - 1), Overtake(i)
          PROVE  wire' \in Seq(PacketForm)
      <3>1. wire \in Seq(PacketForm) /\ Len(wire) \in Nat
        BY DEF Forms
      <3>2. i \in 1..Len(wire) /\ i + 1 \in 1..Len(wire)
        BY <3>1
      <3>3. wire[i] \in PacketForm /\ wire[i + 1] \in PacketForm
        BY <3>1, <3>2
      <3>4. wire' = [wire EXCEPT ![i] = wire[i + 1], ![i + 1] = wire[i]]
        BY <2>2 DEF Overtake
      <3>5. QED
        BY <3>1, <3>2, <3>3, <3>4
    <2>3. CASE HandlePacket
      BY <2>3 DEF Forms, HandlePacket
    <2>4. CASE UNCHANGED wire
      BY <2>4 DEF Forms
    <2>5. QED
      BY <2>1, <2>2, <2>3, <2>4 DEF Next, vars, CompleteSector, StoreRow, WriteLapRow
  <1>4. reorders' \in Nat
    <2>1. reorders \in Nat
      BY DEF Forms
    <2>2. reorders' = reorders \/ reorders' = reorders + 1
      BY DEF Next, vars, CompleteSector, SendPacket, Overtake, HandlePacket, StoreRow, WriteLapRow
    <2>3. QED
      BY <2>1, <2>2
  <1>5. clock' \in Nat
    <2>1. clock \in Nat
      BY DEF Forms
    <2>2. clock' = clock \/ clock' = clock + 1
      BY DEF Next, vars, CompleteSector, SendPacket, Overtake, HandlePacket, StoreRow, WriteLapRow
    <2>3. QED
      BY <2>1, <2>2
  <1>6. latest' \in Nat
    <2>1. CASE HandlePacket
      <3>1. Head(wire) \in PacketForm
        BY <2>1 DEF Forms, HandlePacket
      <3>2. Head(wire).id = "SessionHistory" => NewLaps(Head(wire)) \in Nat
        BY <3>1, NewLapsAreCounted
      <3>3. QED
        BY <2>1, <3>2 DEF Forms, HandlePacket
    <2>2. CASE UNCHANGED latest
      BY <2>2 DEF Forms
    <2>3. QED
      BY <2>1, <2>2 DEF Next, vars, CompleteSector, SendPacket, Overtake, StoreRow, WriteLapRow
  <1>7. tables' = [t \in Hypertables |-> tables'[t]]
    <2>1. ASSUME NEW m \in messages, StoreRow(m)
          PROVE  tables' = [t \in Hypertables |-> tables'[t]]
      BY <2>1 DEF StoreRow, Forms
    <2>2. CASE UNCHANGED tables
      BY <2>2 DEF Forms
    <2>3. QED
      BY <2>1, <2>2 DEF Next, vars, CompleteSector, SendPacket, Overtake, HandlePacket, WriteLapRow
  <1>8. QED
    BY <1>1, <1>2, <1>3, <1>4, <1>5, <1>6, <1>7 DEF Forms

-----------------------------------------------------------------------------
(* Packets *)

\* Packets tell the truth about the drive they are sent of.
LEMMA PacketsTell ==
    ASSUME Forms, NEW p \in Packets
    PROVE  PacketTold(p)
  <1> DEFINE d == drive[Player]
  <1>1. Player \in Cars /\ d.done \in Seq(Lap) /\ Len(d.done) \in Nat /\ Len(d.now) \in 0..2
    BY PlayersDrive DEF Driven
  <1>2. CASE p = [id |-> "CarTelemetry", cars |-> [c \in Cars |-> WheelArray(c)]]
    BY <1>1, <1>2 DEF PacketTold, Own
  <1>3. CASE p = [id |-> "CarMotion", cars |-> [c \in Cars |-> Reading(c, "none")]]
    BY <1>1, <1>3 DEF PacketTold, Own
  <1>4. CASE p = [id |-> "MotionEx", wheels |-> WheelArray(Player)]
    BY <1>4 DEF PacketTold
  <1>5. CASE p = [id |-> "LapData", cars |-> [c \in Cars |-> LapData(drive[c])]]
    <2>1. Own(p) = LapData(d)
      BY <1>1, <1>5 DEF Own
    <2>2. Own(p).CurrentLapNum = Len(d.done) + 1 /\ Own(p).Sector = Len(d.now)
          /\ Own(p).LastLapTimeInMS = IF d.done = <<>> THEN 0 ELSE LapTime(Last(d.done))
      BY <2>1 DEF LapData
    <2>3. d.done = <<>> <=> Len(d.done) + 1 = 1
      BY <1>1, EmptySeq
    <2>4. Last(d.done) = Driven[(Len(d.done) + 1) - 1]
      BY <1>1 DEF Last, Driven
    <2>5. 3 * (Len(d.done) + 1) + Len(d.now) = Now /\ Now \in Nat
      BY NowIsANumber DEF Now, Driven
    <2>6. LapIsTrue(Own(p).CurrentLapNum, Own(p).Sector, Own(p).LastLapTimeInMS)
      <3> DEFINE n == Own(p).CurrentLapNum
                 k == Own(p).Sector
      <3>1. n = Len(Driven) + 1 /\ k \in 0..2 /\ Len(Driven) \in Nat
        BY <1>1, <2>2 DEF Driven
      <3>2. n \in 1..(Len(Driven) + 1)
        <4> HIDE DEF n, k
        <4>1. QED
          BY <3>1
      <3>3. 3 * n + k = Now
        BY <2>2, <2>5
      <3>4. 3 * n + k <= Now
        BY <2>5, <3>3
      <3>5. Own(p).LastLapTimeInMS = IF n = 1 THEN 0 ELSE LapTime(Driven[n - 1])
        BY <2>2, <2>3, <2>4
      <3> HIDE DEF n, k
      <3>6. LapIsTrue(n, k, Own(p).LastLapTimeInMS)
        BY <3>1, <3>2, <3>4, <3>5 DEF LapIsTrue
      <3>7. QED
        BY <3>6 DEF n, k
    <2>7. p.id = "LapData"
      BY <1>5
    <2>8. QED
      BY <2>6, <2>7 DEF PacketTold
  <1>6. ASSUME NEW c \in Cars,
               p = [id |-> "SessionHistory", CurrentCarIdx |-> c, LapHistoryData |-> SessionHistory(drive[c])]
        PROVE  PacketTold(p)
    <2>1. p.id = "SessionHistory" /\ p.CurrentCarIdx = c /\ p.LapHistoryData = SessionHistory(drive[c])
      BY <1>6
    <2>2. ASSUME c = Player, NEW i \in 1..(Len(p.LapHistoryData) - 1)
          PROVE  i \in DOMAIN Driven /\ p.LapHistoryData[i] = HistoryOf(i)
      <3> DEFINE old == [j \in DOMAIN d.done |-> LapHistoryData(d.done[j].sectors, d.done[j].cut)]
                 last == LapHistoryData(d.now, d.cut)
      <3>1. p.LapHistoryData = Append(old, last)
        BY <2>1, <2>2 DEF SessionHistory
      <3>2. DOMAIN d.done = 1..Len(d.done)
        BY <1>1
      <3>3. \A j \in DOMAIN d.done : old[j] = HistoryOf(j)
        BY DEF HistoryOf, Driven
      <3>4. old \in Seq({old[j] : j \in DOMAIN d.done}) /\ Len(old) = Len(d.done)
        <4> DEFINE R == {old[j] : j \in DOMAIN d.done}
        <4>1. old \in [1..Len(d.done) -> R]
          BY <3>2
        <4> HIDE DEF R, old
        <4>2. old \in Seq(R)
          BY <1>1, <4>1, SeqDef
        <4>3. Len(old) = Len(d.done)
          BY <1>1, <4>1, <4>2, LenProperties
        <4>4. QED
          BY <4>2, <4>3 DEF R
      <3> DEFINE R == {old[j] : j \in DOMAIN d.done}
      <3>5. old \in Seq(R)
        BY <3>4
      <3> HIDE DEF R, old, last
      <3>6. Len(Append(old, last)) = Len(d.done) + 1
            /\ \A j \in 1..Len(d.done) : Append(old, last)[j] = old[j]
        BY <1>1, <3>4, <3>5, AppendProperties
      <3>7. i \in 1..Len(d.done)
        BY <1>1, <2>2, <3>1, <3>6
      <3>8. p.LapHistoryData[i] = old[i]
        BY <3>1, <3>6, <3>7
      <3>9. QED
        BY <3>2, <3>3, <3>7, <3>8 DEF Driven
    <2>3. QED
      BY <2>1, <2>2 DEF PacketTold
  <1>7. QED
    BY <1>2, <1>3, <1>4, <1>5, <1>6 DEF Packets

-----------------------------------------------------------------------------
(* What ingest makes of a packet, and persist of a message *)

\* Which messages are made of which packet.
LEMMA RouteOf ==
    ASSUME NEW p \in PacketForm
    PROVE  /\ p.id \in {"CarTelemetry", "CarMotion", "MotionEx", "LapData", "SessionHistory"}
           /\ p.id = "CarTelemetry" => Route(p) = Telemetry("vehicle_data", FourWheels(Own(p)))
           /\ p.id = "CarMotion" => Route(p) = Telemetry("motion_data", Own(p))
           /\ p.id = "MotionEx" => Route(p) = Telemetry("extended_wheel_data", FourWheels(p.wheels))
           /\ p.id = "LapData" => Route(p) = Telemetry("live_lap_data", CurrentLapData(Own(p)))
           /\ p.id = "SessionHistory" =>
                 Route(p) = UNION {Telemetry("session_lap_data", HistoricLapData(i, p.LapHistoryData[i])) :
                                   i \in 1..NewLaps(p)}
  <1>1. p.id \in {"CarTelemetry", "CarMotion", "MotionEx", "LapData", "SessionHistory"}
    BY DEF PacketForm
  <1>2. p.id = "CarTelemetry" => Route(p) = Telemetry("vehicle_data", FourWheels(Own(p)))
    BY DEF Route
  <1>3. p.id = "CarMotion" => Route(p) = Telemetry("motion_data", Own(p))
    BY DEF Route
  <1>4. p.id = "MotionEx" => Route(p) = Telemetry("extended_wheel_data", FourWheels(p.wheels))
    BY DEF Route
  <1>5. p.id = "LapData" => Route(p) = Telemetry("live_lap_data", CurrentLapData(Own(p)))
    BY DEF Route
  <1>6. p.id = "SessionHistory" =>
           Route(p) = UNION {Telemetry("session_lap_data", HistoricLapData(i, p.LapHistoryData[i])) :
                             i \in 1..NewLaps(p)}
    BY DEF Route
  <1>7. QED
    BY <1>1, <1>2, <1>3, <1>4, <1>5, <1>6

\* A message tells what its packet told, and is stamped as it is sent.
LEMMA RouteTells ==
    ASSUME Forms, NEW p \in PacketForm, PacketTold(p), NEW m \in Route(p)
    PROVE  /\ m.time = clock + 1
           /\ MessageTold(m)
           /\ m.kind = "live_lap_data" => IsLive(p) /\ Place(m.data) = PacketPlace(p)
  <1>1. CASE p.id = "CarTelemetry"
    <2>1. m = [kind |-> "vehicle_data", time |-> clock + 1, data |-> FourWheels(Own(p))]
      BY <1>1, RouteOf DEF Telemetry
    <2>2. Own(p) = WheelArray(Player)
      BY <1>1 DEF PacketTold
    <2>3. QED
      BY <2>1, <2>2 DEF MessageTold
  <1>2. CASE p.id = "CarMotion"
    <2>1. m = [kind |-> "motion_data", time |-> clock + 1, data |-> Own(p)]
      BY <1>2, RouteOf DEF Telemetry
    <2>2. Own(p) = Reading(Player, "none")
      BY <1>2 DEF PacketTold
    <2>3. QED
      BY <2>1, <2>2 DEF MessageTold
  <1>3. CASE p.id = "MotionEx"
    <2>1. m = [kind |-> "extended_wheel_data", time |-> clock + 1, data |-> FourWheels(p.wheels)]
      BY <1>3, RouteOf DEF Telemetry
    <2>2. p.wheels = WheelArray(Player)
      BY <1>3 DEF PacketTold
    <2>3. QED
      BY <2>1, <2>2 DEF MessageTold
  <1>4. CASE p.id = "LapData"
    <2>1. m = [kind |-> "live_lap_data", time |-> clock + 1, data |-> CurrentLapData(Own(p))]
      BY <1>4, RouteOf DEF Telemetry
    <2>2. LapIsTrue(Own(p).CurrentLapNum, Own(p).Sector, Own(p).LastLapTimeInMS)
      BY <1>4 DEF PacketTold
    <2>3. m.data.lap_num = Own(p).CurrentLapNum /\ m.data.sector = Own(p).Sector
          /\ m.data.lap_time = Own(p).LastLapTimeInMS
      BY <2>1 DEF CurrentLapData
    <2>4. Place(m.data) = PacketPlace(p)
      BY <2>3 DEF Place, PacketPlace
    <2>5. m.kind = "live_lap_data" /\ m.time = clock + 1
      BY <2>1
    <2>6. MessageTold(m)
      BY <2>2, <2>3, <2>5 DEF MessageTold
    <2>7. QED
      BY <1>4, <2>4, <2>5, <2>6 DEF IsLive
  <1>5. CASE p.id = "SessionHistory"
    <2>1. PICK i \in 1..NewLaps(p) :
              m \in Telemetry("session_lap_data", HistoricLapData(i, p.LapHistoryData[i]))
      BY <1>5, RouteOf
    <2>2. m = [kind |-> "session_lap_data", time |-> clock + 1,
               data |-> HistoricLapData(i, p.LapHistoryData[i])]
      BY <2>1 DEF Telemetry
    <2>3. NewLaps(p) \in Nat /\ NewLaps(p) > 0
      BY <1>5, <2>1, NewLapsAreCounted
    <2>4. p.CurrentCarIdx = Player /\ NewLaps(p) = Len(p.LapHistoryData) - 1
      BY <1>5, <2>3, NewLapsAreCounted
    <2>5. i \in DOMAIN Driven /\ p.LapHistoryData[i] = HistoryOf(i)
      BY <1>5, <2>1, <2>4 DEF PacketTold
    <2>6. LapStored(m.data)
      BY <2>2, <2>5 DEF LapStored
    <2>7. m.kind = "session_lap_data" /\ m.time = clock + 1
      BY <2>2
    <2>8. QED
      BY <2>6, <2>7 DEF MessageTold
  <1>6. QED
    BY <1>1, <1>2, <1>3, <1>4, <1>5, RouteOf

\* In whatever order the columns are named, each gets its own value.
LEMMA CopiesColumns ==
    ASSUME NEW columns, NEW keys
    PROVE  CopyFrom(keys, Values(columns, keys)) = [k \in ToSet(keys) |-> columns[k]]
  <1>1. ASSUME NEW k \in ToSet(keys)
        PROVE  Values(columns, keys)[CHOOSE j \in DOMAIN keys : keys[j] = k] = columns[k]
    <2>1. \E j \in DOMAIN keys : keys[j] = k
      BY DEF ToSet
    <2> DEFINE c == CHOOSE j \in DOMAIN keys : keys[j] = k
    <2>2. c \in DOMAIN keys /\ keys[c] = k
      BY <2>1
    <2> HIDE DEF c
    <2>3. Values(columns, keys)[c] = columns[k]
      BY <2>2 DEF Values
    <2>4. QED
      BY <2>3 DEF c
  <1>2. QED
    BY <1>1 DEF CopyFrom

ColumnNames == {"fl", "fr", "bl", "br", "car", "wheel", "lap_num", "current_lap_time", "sector",
                "sector1_time", "sector2_time"}

\* The order in which the columns are iterated does not change which they are.
LEMMA KeysAreColumns ==
    ASSUME NEW table \in Hypertables, NEW keys \in RowKeys(table)
    PROVE  ToSet(keys) = ToSet(Columns[table])
  <1> DEFINE s == Columns[table]
  <1>1. s \in Seq(ColumnNames)
    <2>1. Columns["vehicle_data"] \in Seq(ColumnNames)
      BY DEF Columns, ColumnNames
    <2>2. Columns["motion_data"] \in Seq(ColumnNames)
      BY DEF Columns, ColumnNames
    <2>3. Columns["extended_wheel_data"] \in Seq(ColumnNames)
      BY DEF Columns, ColumnNames
    <2>4. Columns["live_lap_data"] \in Seq(ColumnNames)
      BY DEF Columns, ColumnNames
    <2>5. QED
      BY <2>1, <2>2, <2>3, <2>4 DEF Hypertables
  <1> HIDE DEF s
  <1>2. Len(s) \in Nat /\ DOMAIN s = 1..Len(s)
    BY <1>1, LenProperties
  <1>3. ToSet(Reverse(s)) = ToSet(s)
    <2>1. Reverse(s) = [i \in 1..Len(s) |-> s[(Len(s) - i) + 1]]
      BY DEF Reverse
    <2>2. \A i \in 1..Len(s) : (Len(s) - i) + 1 \in 1..Len(s) /\ (Len(s) - ((Len(s) - i) + 1)) + 1 = i
      BY <1>2
    <2>3. DOMAIN Reverse(s) = 1..Len(s)
      BY <2>1
    <2>4. ASSUME NEW i \in 1..Len(s)
          PROVE  Reverse(s)[i] \in ToSet(s)
      BY <1>2, <2>1, <2>2 DEF ToSet
    <2>5. ASSUME NEW i \in 1..Len(s)
          PROVE  s[i] \in ToSet(Reverse(s))
      <3>1. Reverse(s)[(Len(s) - i) + 1] = s[i]
        BY <2>1, <2>2
      <3>2. QED
        BY <2>2, <2>3, <3>1 DEF ToSet
    <2>6. QED
      BY <1>2, <2>3, <2>4, <2>5 DEF ToSet
  <1>4. QED
    BY <1>3 DEF RowKeys, s

\* A row keeps the time of its message, and the columns built of it.
LEMMA RowIsStored ==
    ASSUME NEW m, StoreRow(m)
    PROVE  \E row : /\ tables' = [tables EXCEPT ![m.kind] = @ \cup {row}]
                    /\ row.time = m.time
                    /\ row.columns = [k \in ToSet(Columns[m.kind]) |-> RowColumns(m)[k]]
  <1>1. PICK keys \in RowKeys(m.kind) :
            tables' = [tables EXCEPT ![m.kind] =
                @ \cup {[Row(m) EXCEPT !.columns = CopyFrom(keys, Values(Row(m).columns, keys))]}]
    BY DEF StoreRow
  <1> DEFINE copied == CopyFrom(keys, Values(Row(m).columns, keys))
             row == [Row(m) EXCEPT !.columns = copied]
  <1>2. m.kind \in Hypertables
    BY DEF StoreRow
  <1>3. Row(m) = [time |-> m.time, columns |-> RowColumns(m)]
    BY DEF Row
  <1>4. copied = [k \in ToSet(Columns[m.kind]) |-> RowColumns(m)[k]]
    BY <1>2, <1>3, CopiesColumns, KeysAreColumns
  <1>5. row.time = m.time /\ row.columns = copied
    <2> DEFINE c == RowColumns(m)
    <2> HIDE DEF c, copied
    <2>1. Row(m) = [time |-> m.time, columns |-> c]
      BY <1>3 DEF c
    <2>2. row = [time |-> m.time, columns |-> copied]
      BY <2>1
    <2>3. QED
      BY <2>2
  <1>6. QED
    BY <1>1, <1>4, <1>5

\* The columns of a stored row.
Stored(m) == [k \in ToSet(Columns[m.kind]) |-> RowColumns(m)[k]]

\* Which columns the tables have.
LEMMA TableColumns ==
    /\ ToSet(Columns["vehicle_data"]) = {"fl", "fr", "bl", "br"}
    /\ ToSet(Columns["extended_wheel_data"]) = {"fl", "fr", "bl", "br"}
    /\ ToSet(Columns["motion_data"]) = {"car", "wheel"}
    /\ ToSet(Columns["live_lap_data"]) =
           {"lap_num", "current_lap_time", "sector", "sector1_time", "sector2_time"}
  <1>1. ToSet(<<"fl", "fr", "bl", "br">>) = {"fl", "fr", "bl", "br"}
    BY DEF ToSet
  <1>2. ToSet(<<"car", "wheel">>) = {"car", "wheel"}
    BY DEF ToSet
  <1>3. ToSet(<<"lap_num", "current_lap_time", "sector", "sector1_time", "sector2_time">>) =
            {"lap_num", "current_lap_time", "sector", "sector1_time", "sector2_time"}
    BY DEF ToSet
  <1>4. QED
    BY <1>1, <1>2, <1>3 DEF Columns

\* From the array of the game to the fields of a message to the columns: each
\* wheel of the player's car arrives in its own.
LEMMA WheelsArrive ==
    ASSUME NEW m, m.kind \in {"vehicle_data", "extended_wheel_data"},
           m.data = FourWheels(WheelArray(Player))
    PROVE  \A prefix \in DOMAIN WheelColumn : Stored(m)[prefix] = Reading(Player, WheelColumn[prefix])
  <1>1. RowColumns(m) = WheelColumns(m.data)
    BY DEF RowColumns
  <1>2. /\ m.data["front_left"] = WheelArray(Player)[2]
        /\ m.data["front_right"] = WheelArray(Player)[3]
        /\ m.data["back_left"] = WheelArray(Player)[0]
        /\ m.data["back_right"] = WheelArray(Player)[1]
    BY DEF FourWheels, WheelIndex
  <1>3. /\ WheelArray(Player)[0] = Reading(Player, "rear left")
        /\ WheelArray(Player)[1] = Reading(Player, "rear right")
        /\ WheelArray(Player)[2] = Reading(Player, "front left")
        /\ WheelArray(Player)[3] = Reading(Player, "front right")
    <2>1. WheelOrder[1] = "rear left" /\ WheelOrder[2] = "rear right"
          /\ WheelOrder[3] = "front left" /\ WheelOrder[4] = "front right"
      BY DEF WheelOrder
    <2>2. \A i \in 0..3 : WheelArray(Player)[i] = Reading(Player, WheelOrder[i + 1])
      BY DEF WheelArray
    <2>3. WheelArray(Player)[0] = Reading(Player, WheelOrder[1])
          /\ WheelArray(Player)[1] = Reading(Player, WheelOrder[2])
          /\ WheelArray(Player)[2] = Reading(Player, WheelOrder[3])
          /\ WheelArray(Player)[3] = Reading(Player, WheelOrder[4])
      BY <2>2
    <2>4. QED
      BY <2>1, <2>3
  <1>4. /\ RowColumns(m)["fl"] = m.data["front_left"]
        /\ RowColumns(m)["fr"] = m.data["front_right"]
        /\ RowColumns(m)["bl"] = m.data["back_left"]
        /\ RowColumns(m)["br"] = m.data["back_right"]
    BY <1>1 DEF WheelColumns, ColumnPrefix
  <1>5. ToSet(Columns[m.kind]) = {"fl", "fr", "bl", "br"}
    BY TableColumns
  <1>6. DOMAIN WheelColumn = {"fl", "fr", "bl", "br"}
        /\ WheelColumn["fl"] = "front left" /\ WheelColumn["fr"] = "front right"
        /\ WheelColumn["bl"] = "rear left" /\ WheelColumn["br"] = "rear right"
    BY DEF WheelColumn
  <1>7. \A prefix \in {"fl", "fr", "bl", "br"} : Stored(m)[prefix] = RowColumns(m)[prefix]
    BY <1>5 DEF Stored
  <1>8. /\ Stored(m)["fl"] = Reading(Player, "front left")
        /\ Stored(m)["fr"] = Reading(Player, "front right")
        /\ Stored(m)["bl"] = Reading(Player, "rear left")
        /\ Stored(m)["br"] = Reading(Player, "rear right")
    BY <1>2, <1>3, <1>4, <1>7
  <1>9. QED
    BY <1>6, <1>8

\* A motion row is the reading of the message.
LEMMA MotionArrives ==
    ASSUME NEW m, m.kind = "motion_data", m.data = Reading(Player, "none")
    PROVE  Stored(m) = Reading(Player, "none")
  <1>1. RowColumns(m) = Reading(Player, "none")
    BY DEF RowColumns
  <1>2. ToSet(Columns[m.kind]) = {"car", "wheel"}
    BY TableColumns
  <1>3. QED
    BY <1>1, <1>2 DEF Stored, Reading

\* A live row has the lap, the sector and the time of its message.
LEMMA LiveArrives ==
    ASSUME NEW m, m.kind = "live_lap_data"
    PROVE  /\ Stored(m).lap_num = m.data.lap_num
           /\ Stored(m).sector = m.data.sector
           /\ Stored(m).current_lap_time = m.data.lap_time
  <1>1. RowColumns(m) = LiveLapColumns(m.data)
    BY DEF RowColumns
  <1>2. /\ RowColumns(m)["lap_num"] = m.data.lap_num
        /\ RowColumns(m)["sector"] = m.data.sector
        /\ RowColumns(m)["current_lap_time"] = m.data.lap_time
    BY <1>1 DEF LiveLapColumns
  <1>3. {"lap_num", "current_lap_time", "sector"} \subseteq ToSet(Columns[m.kind])
    BY TableColumns
  <1>4. QED
    BY <1>2, <1>3 DEF Stored

\* A table that a message is stored in gains the row made of it.
LEMMA TablesGain ==
    ASSUME Forms, NEW m, StoreRow(m), NEW t \in Hypertables
    PROVE  \A r \in tables'[t] : r \in tables[t] \/ (t = m.kind /\ r.time = m.time /\ r.columns = Stored(m))
  <1>1. PICK row : /\ tables' = [tables EXCEPT ![m.kind] = @ \cup {row}]
                   /\ row.time = m.time
                   /\ row.columns = [k \in ToSet(Columns[m.kind]) |-> RowColumns(m)[k]]
    BY RowIsStored
  <1>2. row.columns = Stored(m)
    BY <1>1 DEF Stored
  <1>3. tables = [u \in Hypertables |-> tables[u]] /\ m.kind \in Hypertables
    BY DEF Forms, StoreRow
  <1>4. QED
    BY <1>1, <1>2, <1>3

-----------------------------------------------------------------------------
(* What is told is kept *)

\* The initial state tells nothing.
LEMMA InitTold == Init => Told /\ ReadingsKeepTheirPlace /\ Ordered
  <1> SUFFICES ASSUME Init PROVE Told /\ ReadingsKeepTheirPlace /\ Ordered
    OBVIOUS
  <1>1. wire = <<>> /\ messages = {} /\ session = {} /\ \A t \in Hypertables : tables[t] = {}
    BY DEF Init
  <1>2. \A t \in {"vehicle_data", "motion_data", "extended_wheel_data", "live_lap_data"} : tables[t] = {}
    BY <1>1 DEF Hypertables
  <1>3. OnWire = {}
    BY <1>1 DEF OnWire
  <1>4. Stamped = {}
    BY <1>1, <1>2 DEF Stamped, LiveMessages
  <1>5. QED
    BY <1>1, <1>2, <1>3, <1>4 DEF Told, ReadingsKeepTheirPlace, Ordered

\* What is on the wire has been there or is sent now, in every step.
LEMMA WireStep ==
    ASSUME Forms, [Next]_vars
    PROVE  \A p \in OnWire' : p \in OnWire \/ p \in Packets
  <1>1. wire \in Seq(PacketForm) /\ Len(wire) \in Nat
    BY DEF Forms
  <1>2. ASSUME NEW p \in Packets, SendPacket(p)
        PROVE  \A q \in OnWire' : q \in OnWire \/ q \in Packets
    <2>1. wire' = Append(wire, p)
      BY <1>2 DEF SendPacket
    <2>2. QED
      BY <1>1, <2>1 DEF OnWire
  <1>3. ASSUME NEW i \in 1..(Len(wire) - 1), Overtake(i)
        PROVE  \A q \in OnWire' : q \in OnWire
    <2>1. wire' = [wire EXCEPT ![i] = wire[i + 1], ![i + 1] = wire[i]]
      BY <1>3 DEF Overtake
    <2>2. i \in 1..Len(wire) /\ i + 1 \in 1..Len(wire)
      BY <1>1
    <2>3. QED
      BY <1>1, <2>1, <2>2 DEF OnWire
  <1>4. ASSUME HandlePacket
        PROVE  \A q \in OnWire' : q \in OnWire
    <2>1. wire # <<>> /\ wire' = Tail(wire)
      BY <1>4 DEF HandlePacket
    <2>2. QED
      BY <1>1, <2>1 DEF OnWire
  <1>5. CASE UNCHANGED wire
    BY <1>5 DEF OnWire
  <1>6. QED
    BY <1>2, <1>3, <1>4, <1>5 DEF Next, vars, CompleteSector, StoreRow, WriteLapRow

\* Packets go on telling the truth as the drive goes on.
LEMMA PacketsStayTold ==
    ASSUME Forms, Grown, NEW p, PacketTold(p)
    PROVE  PacketTold(p)'
  <1>1. ASSUME p.id = "LapData"
        PROVE  LapIsTrue(Own(p).CurrentLapNum, Own(p).Sector, Own(p).LastLapTimeInMS)'
    BY <1>1, LapsStay DEF PacketTold, Own
  <1>2. ASSUME p.id = "SessionHistory" /\ p.CurrentCarIdx = Player,
               NEW i \in 1..(Len(p.LapHistoryData) - 1)
        PROVE  i \in DOMAIN Driven' /\ p.LapHistoryData[i] = HistoryOf(i)'
    BY <1>2, LapsStay DEF PacketTold
  <1>3. QED
    BY <1>1, <1>2 DEF PacketTold, Own

\* So do messages.
LEMMA MessagesStayTold ==
    ASSUME Forms, Grown, NEW m, MessageTold(m)
    PROVE  MessageTold(m)'
  BY LapsStay DEF MessageTold

\* So do live rows.
LEMMA RowsStayTold ==
    ASSUME Forms, Grown, NEW r, LiveRowTold(r)
    PROVE  LiveRowTold(r)'
  BY LapsStay DEF LiveRowTold

\* Whatever is on its way was told before, or is made of the packet handled.
LEMMA MessageStep ==
    ASSUME Forms, Told, [Next]_vars
    PROVE  /\ clock' \in Nat /\ clock <= clock'
           /\ \A m \in messages' :
                 \/ m \in messages
                 \/ /\ HandlePacket /\ m \in Route(Head(wire))
                    /\ m.time = clock + 1 /\ clock' = clock + 1 /\ MessageTold(m)
                    /\ m.kind = "live_lap_data" => IsLive(Head(wire)) /\ Place(m.data) = PacketPlace(Head(wire))
  <1>1. clock \in Nat /\ clock' \in Nat
    BY FormsStep DEF Forms
  <1>2. CASE HandlePacket
    <2>1. wire # <<>> /\ wire \in Seq(PacketForm)
      BY <1>2 DEF Forms, HandlePacket
    <2>2. Head(wire) \in PacketForm /\ Head(wire) \in OnWire
      BY <2>1 DEF OnWire
    <2>3. PacketTold(Head(wire))
      BY <2>2 DEF Told
    <2>4. messages' = messages \cup Route(Head(wire)) /\ clock' = clock + 1
      BY <1>2 DEF HandlePacket
    <2>5. ASSUME NEW p, p = Head(wire), NEW m \in Route(p)
          PROVE  /\ m.time = clock + 1 /\ MessageTold(m)
                 /\ m.kind = "live_lap_data" => IsLive(p) /\ Place(m.data) = PacketPlace(p)
      BY <2>2, <2>3, <2>5, RouteTells
    <2>6. QED
      BY <1>1, <1>2, <2>4, <2>5
  <1>3. CASE clock' = clock /\ messages' \subseteq messages
    BY <1>1, <1>3
  <1>4. QED
    BY <1>2, <1>3 DEF Next, vars, CompleteSector, SendPacket, Overtake, StoreRow, WriteLapRow

\* A row is stored, or the tables stay as they are.
LEMMA TableStep ==
    ASSUME Forms, [Next]_vars
    PROVE  \/ \E m \in messages : StoreRow(m)
           \/ UNCHANGED tables
  BY DEF Next, vars, CompleteSector, SendPacket, Overtake, HandlePacket, WriteLapRow

\* Every step keeps what is told.
LEMMA ToldStep == Forms /\ Told /\ [Next]_vars => Told'
  <1> SUFFICES ASSUME Forms, Told, [Next]_vars PROVE Told'
    OBVIOUS
  <1>1. Grown
    BY StepsGrow
  <1>2. clock \in Nat /\ clock' \in Nat /\ clock <= clock'
    BY MessageStep DEF Forms
  <1>3. ASSUME NEW x, TimeGiven(x)
        PROVE  TimeGiven(x)'
    <2>1. x.time \in Nat /\ x.time <= clock
      BY <1>3 DEF TimeGiven
    <2>2. x.time <= clock'
      BY <1>2, <2>1
    <2>3. QED
      BY <2>1, <2>2 DEF TimeGiven
  <1>4. ASSUME NEW p \in OnWire'
        PROVE  PacketTold(p)'
    <2>1. PacketTold(p)
      BY <1>4, WireStep, PacketsTell DEF Told
    <2>2. QED
      BY <1>1, <2>1, PacketsStayTold
  <1>5. ASSUME NEW m \in messages'
        PROVE  MessageTold(m)' /\ TimeGiven(m)'
    <2>1. CASE m \in messages
      <3>1. MessageTold(m) /\ TimeGiven(m)
        BY <2>1 DEF Told
      <3>2. QED
        BY <1>1, <1>3, <3>1, MessagesStayTold
    <2>2. CASE m.time = clock + 1 /\ clock' = clock + 1 /\ MessageTold(m)
      <3>1. TimeGiven(m)'
        BY <1>2, <2>2 DEF TimeGiven
      <3>2. QED
        BY <1>1, <2>2, <3>1, MessagesStayTold
    <2>3. QED
      BY <1>5, <2>1, <2>2, MessageStep
  <1>6. ASSUME NEW r \in tables'["live_lap_data"]
        PROVE  LiveRowTold(r)' /\ TimeGiven(r)'
    <2>1. CASE r \in tables["live_lap_data"]
      <3>1. LiveRowTold(r) /\ TimeGiven(r)
        BY <2>1 DEF Told
      <3>2. QED
        BY <1>1, <1>3, <3>1, RowsStayTold
    <2>2. ASSUME NEW m \in messages, m.kind = "live_lap_data", r.time = m.time, r.columns = Stored(m)
          PROVE  LiveRowTold(r)' /\ TimeGiven(r)'
      <3>1. MessageTold(m) /\ TimeGiven(m)
        BY <2>2 DEF Told
      <3>2. r.columns.lap_num = m.data.lap_num /\ r.columns.sector = m.data.sector
            /\ r.columns.current_lap_time = m.data.lap_time
        BY <2>2, LiveArrives
      <3>3. LiveRowTold(r)
        BY <2>2, <3>1, <3>2 DEF MessageTold, LiveRowTold
      <3>4. TimeGiven(r)
        BY <2>2, <3>1 DEF TimeGiven
      <3>5. QED
        BY <1>1, <1>3, <3>3, <3>4, RowsStayTold
    <2>3. ASSUME NEW m \in messages, StoreRow(m)
          PROVE  LiveRowTold(r)' /\ TimeGiven(r)'
      <3>1. "live_lap_data" \in Hypertables
        BY DEF Hypertables
      <3>2. r \in tables["live_lap_data"]
            \/ ("live_lap_data" = m.kind /\ r.time = m.time /\ r.columns = Stored(m))
        BY <1>6, <2>3, <3>1, TablesGain
      <3>3. QED
        BY <2>1, <2>2, <3>2
    <2>4. QED
      BY <1>6, <2>1, <2>3, TableStep
  <1>7. ASSUME NEW r \in session'
        PROVE  LapStored(r)'
    <2>1. CASE r \in session
      <3>1. LapStored(r)
        BY <2>1 DEF Told
      <3>2. QED
        BY <1>1, <3>1, LapsStay
    <2>2. ASSUME NEW m \in messages, WriteLapRow(m), r = m.data
          PROVE  LapStored(r)'
      <3>1. MessageTold(m)
        BY DEF Told
      <3>2. m.kind = "session_lap_data"
        BY <2>2 DEF WriteLapRow
      <3>3. LapStored(r)
        BY <2>2, <3>1, <3>2 DEF MessageTold
      <3>4. QED
        BY <1>1, <3>3, LapsStay
    <2>3. CASE UNCHANGED session
      BY <1>7, <2>1, <2>3
    <2>4. ASSUME NEW m \in messages, WriteLapRow(m)
          PROVE  LapStored(r)'
      <3>1. r \in session \/ r = m.data
        BY <1>7, <2>4 DEF WriteLapRow
      <3>2. QED
        BY <2>1, <2>2, <2>4, <3>1
    <2>5. QED
      BY <2>3, <2>4 DEF Next, vars, CompleteSector, SendPacket, Overtake, HandlePacket, StoreRow
  <1>8. QED
    BY <1>4, <1>5, <1>6, <1>7 DEF Told

\* Every step keeps the readings in their place.
LEMMA ReadingsStep == Forms /\ Told /\ ReadingsKeepTheirPlace /\ [Next]_vars => ReadingsKeepTheirPlace'
  <1> SUFFICES ASSUME Forms, Told, ReadingsKeepTheirPlace, [Next]_vars PROVE ReadingsKeepTheirPlace'
    OBVIOUS
  <1>1. CASE UNCHANGED tables
    BY <1>1 DEF ReadingsKeepTheirPlace
  <1>2. ASSUME NEW m \in messages, StoreRow(m)
        PROVE  ReadingsKeepTheirPlace'
    <2>1. MessageTold(m)
      BY DEF Told
    <2>2. ASSUME NEW t \in {"vehicle_data", "extended_wheel_data"}, NEW r \in tables'[t],
                 NEW prefix \in DOMAIN WheelColumn
          PROVE  r.columns[prefix] = Reading(Player, WheelColumn[prefix])
      <3>1. t \in Hypertables
        BY DEF Hypertables
      <3>2. r \in tables[t] \/ (t = m.kind /\ r.columns = Stored(m))
        BY <1>2, <3>1, TablesGain
      <3>3. CASE r \in tables[t]
        BY <3>3 DEF ReadingsKeepTheirPlace
      <3>4. CASE t = m.kind /\ r.columns = Stored(m)
        BY <2>1, <3>4, WheelsArrive DEF MessageTold
      <3>5. QED
        BY <3>2, <3>3, <3>4
    <2>3. ASSUME NEW r \in tables'["motion_data"]
          PROVE  r.columns = Reading(Player, "none")
      <3>1. "motion_data" \in Hypertables
        BY DEF Hypertables
      <3>2. r \in tables["motion_data"] \/ ("motion_data" = m.kind /\ r.columns = Stored(m))
        BY <1>2, <3>1, TablesGain
      <3>3. CASE r \in tables["motion_data"]
        BY <3>3 DEF ReadingsKeepTheirPlace
      <3>4. CASE "motion_data" = m.kind /\ r.columns = Stored(m)
        BY <2>1, <3>4, MotionArrives DEF MessageTold
      <3>5. QED
        BY <3>2, <3>3, <3>4
    <2>4. QED
      BY <2>2, <2>3 DEF ReadingsKeepTheirPlace
  <1>3. QED
    BY <1>1, <1>2, TableStep

-----------------------------------------------------------------------------
(* The order of what is live is kept *)

\* A packet of the current lap is sent of where the player is now.
LEMMA LiveIsNow ==
    ASSUME Forms, NEW p \in Packets, IsLive(p)
    PROVE  PacketPlace(p) = Now
  <1>1. p = [id |-> "LapData", cars |-> [c \in Cars |-> LapData(drive[c])]]
    BY DEF Packets, IsLive
  <1>2. Own(p) = LapData(drive[Player])
    BY <1>1, PlayersDrive DEF Own
  <1>3. Own(p).CurrentLapNum = Len(Driven) + 1 /\ Own(p).Sector = Len(drive[Player].now)
    BY <1>2 DEF LapData, Driven
  <1>4. QED
    BY <1>3 DEF PacketPlace, Now

\* A packet that tells the truth is of a place no further than that.
LEMMA PacketPlaces ==
    ASSUME NEW p, PacketTold(p), IsLive(p)
    PROVE  PacketPlace(p) \in Nat /\ PacketPlace(p) <= Now
  <1> DEFINE n == Own(p).CurrentLapNum
             k == Own(p).Sector
             l == Len(Driven) + 1
  <1>1. n \in 1..l /\ k \in 0..2 /\ 3 * n + k <= Now
    BY DEF PacketTold, IsLive, LapIsTrue
  <1>2. PacketPlace(p) = 3 * n + k
    BY DEF PacketPlace
  <1> HIDE DEF n, k, l
  <1>3. QED
    BY <1>1, <1>2

\* What is stamped has been stamped already, and tells of a place no further
\* than that.
LEMMA StampedBounds ==
    ASSUME Told, NEW a \in Stamped
    PROVE  a.time \in Nat /\ a.time <= clock /\ a.place \in Nat /\ a.place <= Now
  <1>1. ASSUME NEW n, NEW sector, NEW time, LapIsTrue(n, sector, time)
        PROVE  3 * n + sector \in Nat /\ 3 * n + sector <= Now
    <2> DEFINE l == Len(Driven) + 1
    <2>1. n \in 1..l /\ sector \in 0..2 /\ 3 * n + sector <= Now
      BY <1>1 DEF LapIsTrue
    <2> HIDE DEF l
    <2>2. QED
      BY <2>1
  <1>2. ASSUME NEW m \in LiveMessages, a = [time |-> m.time, place |-> Place(m.data)]
        PROVE  a.time \in Nat /\ a.time <= clock /\ a.place \in Nat /\ a.place <= Now
    <2>1. LapIsTrue(m.data.lap_num, m.data.sector, m.data.lap_time) /\ TimeGiven(m)
      BY DEF Told, LiveMessages, MessageTold
    <2>2. a.time = m.time /\ a.place = 3 * m.data.lap_num + m.data.sector
      BY <1>2 DEF Place
    <2>3. QED
      BY <1>1, <2>1, <2>2 DEF TimeGiven
  <1>3. ASSUME NEW r \in tables["live_lap_data"], a = [time |-> r.time, place |-> Place(r.columns)]
        PROVE  a.time \in Nat /\ a.time <= clock /\ a.place \in Nat /\ a.place <= Now
    <2>1. LapIsTrue(r.columns.lap_num, r.columns.sector, r.columns.current_lap_time) /\ TimeGiven(r)
      BY DEF Told, LiveRowTold
    <2>2. a.time = r.time /\ a.place = 3 * r.columns.lap_num + r.columns.sector
      BY <1>3 DEF Place
    <2>3. QED
      BY <1>1, <2>1, <2>2 DEF TimeGiven
  <1>4. QED
    BY <1>2, <1>3 DEF Stamped

\* Something new is stamped only when a packet of the current lap is handled;
\* storing a message moves its stamp from the message to the row.
LEMMA StampedStep ==
    ASSUME Forms, Told, [Next]_vars, NEW a \in Stamped'
    PROVE  \/ a \in Stamped
           \/ /\ HandlePacket /\ IsLive(Head(wire))
              /\ a.time = clock + 1 /\ a.place = PacketPlace(Head(wire))
  <1>1. ASSUME NEW m \in messages', m.kind = "live_lap_data", a = [time |-> m.time, place |-> Place(m.data)]
        PROVE  \/ a \in Stamped
               \/ /\ HandlePacket /\ IsLive(Head(wire))
                  /\ a.time = clock + 1 /\ a.place = PacketPlace(Head(wire))
    <2>1. CASE m \in messages
      BY <1>1, <2>1 DEF Stamped, LiveMessages
    <2>2. CASE /\ HandlePacket /\ m.time = clock + 1
               /\ IsLive(Head(wire)) /\ Place(m.data) = PacketPlace(Head(wire))
      BY <1>1, <2>2
    <2>3. QED
      BY <1>1, <2>1, <2>2, MessageStep
  <1>2. ASSUME NEW r \in tables'["live_lap_data"], a = [time |-> r.time, place |-> Place(r.columns)]
        PROVE  a \in Stamped
    <2>1. CASE r \in tables["live_lap_data"]
      BY <1>2, <2>1 DEF Stamped
    <2>2. ASSUME NEW m \in messages, m.kind = "live_lap_data", r.time = m.time, r.columns = Stored(m)
          PROVE  a \in Stamped
      <3>1. Place(r.columns) = Place(m.data)
        BY <2>2, LiveArrives DEF Place
      <3>2. a = [time |-> m.time, place |-> Place(m.data)] /\ m \in LiveMessages
        BY <1>2, <2>2, <3>1 DEF LiveMessages
      <3>3. QED
        BY <3>2 DEF Stamped
    <2>3. ASSUME NEW m \in messages, StoreRow(m)
          PROVE  a \in Stamped
      <3>1. "live_lap_data" \in Hypertables
        BY DEF Hypertables
      <3>2. r \in tables["live_lap_data"]
            \/ ("live_lap_data" = m.kind /\ r.time = m.time /\ r.columns = Stored(m))
        BY <1>2, <2>3, <3>1, TablesGain
      <3>3. QED
        BY <2>1, <2>2, <3>2
    <2>4. QED
      BY <1>2, <2>1, <2>3, TableStep
  <1>3. QED
    BY <1>1, <1>2 DEF Stamped, LiveMessages

\* Every step keeps the order, unless UDP has not.
LEMMA OrderedStep == Forms /\ Told /\ Ordered /\ [Next]_vars => Ordered'
  <1> SUFFICES ASSUME Forms, Told, Ordered, [Next]_vars, reorders' = 0
               PROVE  /\ \A a, b \in Stamped' : a.time < b.time => a.place <= b.place
                      /\ \A a \in Stamped' : \A i \in DOMAIN wire' :
                            IsLive(wire'[i]) => a.place <= PacketPlace(wire'[i])
                      /\ \A i, j \in DOMAIN wire' :
                            i < j /\ IsLive(wire'[i]) /\ IsLive(wire'[j])
                                => PacketPlace(wire'[i]) <= PacketPlace(wire'[j])
    BY DEF Ordered, IsLive, PacketPlace, Own
  <1>1. wire \in Seq(PacketForm) /\ Len(wire) \in Nat /\ reorders \in Nat /\ clock \in Nat /\ Now \in Nat
    BY NowIsANumber DEF Forms
  <1>2. reorders = 0 /\ ~ \E i \in 1..(Len(wire) - 1) : Overtake(i)
    <2>1. \A i \in 1..(Len(wire) - 1) : ~Overtake(i)
      BY <1>1 DEF Overtake
    <2>2. reorders' = reorders \/ \E i \in 1..(Len(wire) - 1) : Overtake(i)
      BY DEF Next, vars, CompleteSector, SendPacket, HandlePacket, StoreRow, WriteLapRow
    <2>3. QED
      BY <2>1, <2>2
  <1>3. /\ \A a, b \in Stamped : a.time < b.time => a.place <= b.place
        /\ \A a \in Stamped : \A i \in DOMAIN wire :
              IsLive(wire[i]) => a.place <= PacketPlace(wire[i])
        /\ \A i, j \in DOMAIN wire :
              i < j /\ IsLive(wire[i]) /\ IsLive(wire[j]) => PacketPlace(wire[i]) <= PacketPlace(wire[j])
    BY <1>2 DEF Ordered
  <1>4. \A i \in DOMAIN wire : IsLive(wire[i]) => PacketPlace(wire[i]) \in Nat /\ PacketPlace(wire[i]) <= Now
    <2>1. \A p \in OnWire : IsLive(p) => PacketPlace(p) \in Nat /\ PacketPlace(p) <= Now
      BY PacketPlaces DEF Told
    <2>2. QED
      BY <2>1 DEF OnWire
  <1>5. \A a \in Stamped : a.time \in Nat /\ a.time <= clock /\ a.place \in Nat /\ a.place <= Now
    BY StampedBounds
  <1>6. CASE HandlePacket
    <2>1. wire # <<>> /\ wire' = Tail(wire) /\ 1 \in DOMAIN wire /\ Head(wire) = wire[1]
      BY <1>1, <1>6 DEF HandlePacket
    <2>2. \A i \in DOMAIN wire' : i \in Nat /\ i >= 1 /\ i + 1 \in DOMAIN wire /\ wire'[i] = wire[i + 1]
      BY <1>1, <2>1
    <2>3. \A a \in Stamped' : a \in Stamped \/ (IsLive(wire[1]) /\ a.time = clock + 1 /\ a.place = PacketPlace(wire[1]))
      BY <2>1, StampedStep
    <2>4. ASSUME NEW a \in Stamped', NEW b \in Stamped', a.time < b.time
          PROVE  a.place <= b.place
      <3>1. CASE a \in Stamped /\ b \in Stamped
        BY <1>3, <2>4, <3>1
      <3>2. CASE a \in Stamped /\ IsLive(wire[1]) /\ b.place = PacketPlace(wire[1])
        BY <1>3, <2>1, <3>2
      <3>3. CASE a.time = clock + 1
        BY <1>1, <1>5, <2>3, <2>4, <3>3
      <3>4. QED
        BY <2>3, <3>1, <3>2, <3>3
    <2>5. ASSUME NEW a \in Stamped', NEW i \in DOMAIN wire', IsLive(wire'[i])
          PROVE  a.place <= PacketPlace(wire'[i])
      <3>1. i + 1 \in DOMAIN wire /\ IsLive(wire[i + 1]) /\ wire'[i] = wire[i + 1] /\ 1 < i + 1
        BY <2>2, <2>5
      <3>2. CASE a \in Stamped
        BY <1>3, <3>1, <3>2
      <3>3. CASE IsLive(wire[1]) /\ a.place = PacketPlace(wire[1])
        BY <1>3, <2>1, <3>1, <3>3
      <3>4. QED
        BY <2>3, <3>2, <3>3
    <2>6. ASSUME NEW i \in DOMAIN wire', NEW j \in DOMAIN wire', i < j, IsLive(wire'[i]), IsLive(wire'[j])
          PROVE  PacketPlace(wire'[i]) <= PacketPlace(wire'[j])
      <3>1. i + 1 < j + 1
        BY <2>2, <2>6
      <3>2. QED
        BY <1>3, <2>2, <2>6, <3>1
    <2>7. QED
      BY <2>4, <2>5, <2>6
  <1>7. ASSUME NEW p \in Packets, SendPacket(p)
        PROVE  /\ \A i \in DOMAIN wire' : i \in DOMAIN wire \/ i = Len(wire) + 1
               /\ \A i \in DOMAIN wire : wire'[i] = wire[i]
               /\ wire'[Len(wire) + 1] = p
               /\ Stamped' = Stamped
    <2>1. wire' = Append(wire, p)
      BY <1>7 DEF SendPacket
    <2>2. p \in PacketForm
      BY PacketsHaveForm
    <2>3. Stamped' = Stamped
      BY <1>7 DEF SendPacket, Stamped, LiveMessages
    <2>4. QED
      BY <1>1, <2>1, <2>2, <2>3
  <1>8. ASSUME NEW p \in Packets, SendPacket(p)
        PROVE  /\ \A a, b \in Stamped' : a.time < b.time => a.place <= b.place
               /\ \A a \in Stamped' : \A i \in DOMAIN wire' :
                     IsLive(wire'[i]) => a.place <= PacketPlace(wire'[i])
               /\ \A i, j \in DOMAIN wire' :
                     i < j /\ IsLive(wire'[i]) /\ IsLive(wire'[j])
                         => PacketPlace(wire'[i]) <= PacketPlace(wire'[j])
    <2> DEFINE n == Len(wire) + 1
    <2>1. /\ \A i \in DOMAIN wire' : i \in DOMAIN wire \/ i = n
          /\ \A i \in DOMAIN wire : wire'[i] = wire[i] /\ i < n
          /\ wire'[n] = p
          /\ Stamped' = Stamped
          /\ n \in Nat
      BY <1>1, <1>7, <1>8
    <2>2. IsLive(p) => PacketPlace(p) = Now
      BY LiveIsNow
    <2> HIDE DEF n
    <2>3. ASSUME NEW a \in Stamped', NEW i \in DOMAIN wire', IsLive(wire'[i])
          PROVE  a.place <= PacketPlace(wire'[i])
      BY <1>3, <1>5, <2>1, <2>2, <2>3
    <2>4. ASSUME NEW i \in DOMAIN wire', NEW j \in DOMAIN wire', i < j, IsLive(wire'[i]), IsLive(wire'[j])
          PROVE  PacketPlace(wire'[i]) <= PacketPlace(wire'[j])
      <3>1. CASE i \in DOMAIN wire /\ j \in DOMAIN wire
        BY <1>3, <2>1, <2>4, <3>1
      <3>2. CASE i \in DOMAIN wire /\ j = n
        BY <1>4, <2>1, <2>2, <2>4, <3>2
      <3>3. CASE i = n
        <4>1. j \in DOMAIN wire => j \in Nat /\ j < n
          BY <1>1, <2>1
        <4>2. QED
          BY <2>1, <2>4, <3>3, <4>1
      <3>4. QED
        BY <2>1, <3>1, <3>2, <3>3
    <2>5. QED
      BY <1>3, <2>1, <2>3, <2>4
  <1>9. CASE UNCHANGED wire /\ ~HandlePacket
    <2>1. \A a \in Stamped' : a \in Stamped
      BY <1>9, StampedStep
    <2>2. QED
      BY <1>3, <1>9, <2>1
  <1>10. QED
    BY <1>2, <1>6, <1>8, <1>9 DEF Next, vars, CompleteSector, StoreRow, WriteLapRow

-----------------------------------------------------------------------------
(* The inductive invariant *)

\* DriveInv holds to begin with and is kept by every step.
LEMMA DriveInvariant == Spec => []DriveInv
  <1>1. Init => DriveInv
    BY InitForms, InitTold DEF DriveInv
  <1>2. DriveInv /\ [Next]_vars => DriveInv'
    <2> SUFFICES ASSUME DriveInv, [Next]_vars PROVE DriveInv'
      OBVIOUS
    <2>1. Forms /\ Told /\ Ordered /\ ReadingsKeepTheirPlace
      BY DEF DriveInv
    <2>2. Forms'
      BY <2>1, FormsStep
    <2>3. Told'
      BY <2>1, ToldStep
    <2>4. Ordered'
      BY <2>1, OrderedStep
    <2>5. ReadingsKeepTheirPlace'
      BY <2>1, ReadingsStep
    <2>6. QED
      BY <2>2, <2>3, <2>4, <2>5 DEF DriveInv
  <1>3. QED
    BY <1>1, <1>2, PTL DEF Spec

-----------------------------------------------------------------------------
(* A lap that is stored *)

\* Sectors add up to the time of their lap but for their whole minutes.
LEMMA MinutesAreMissing ==
    ASSUME NEW lap \in Lap, NEW times, times = [j \in Sectors |-> InMS(lap.sectors[j])]
    PROVE  LET missing == LapTime(lap) - Total(times)
           IN  /\ missing >= 0 /\ missing % Minute = 0
               /\ missing = 0 <=> \A i \in Sectors : lap.sectors[i] < Minute
  <1> DEFINE t(j) == lap.sectors[j]
             a == t(1)
             b == t(2)
             c == t(3)
  <1>1. a \in Nat /\ b \in Nat /\ c \in Nat
    <2>1. Times \subseteq Nat /\ 1 \in Sectors /\ 2 \in Sectors /\ 3 \in Sectors
      BY DriveAssumption DEF Sectors
    <2>2. QED
      BY <2>1, LapTimes
  <1>2. times \in Seq(Int) /\ Len(times) = 3
    <2>1. times \in [1..3 -> Int]
      <3>1. \A j \in Sectors : InMS(lap.sectors[j]) \in Int
        <4>1. ASSUME NEW j \in Sectors
              PROVE  lap.sectors[j] \in Nat
          BY LapTimes, DriveAssumption
        <4>2. QED
          BY <4>1, MinutesAndRest
      <3>2. QED
        BY <3>1 DEF Sectors
    <2>2. \A f \in [1..3 -> Int] : f \in Seq(Int)
      <3>1. 3 \in Nat
        OBVIOUS
      <3>2. QED
        BY <3>1, SeqDef
    <2>3. times \in Seq(Int)
      BY <2>1, <2>2
    <2>4. QED
      BY <2>1, <2>3, LenProperties
  <1>3. Total(times) = InMS(a) + InMS(b) + InMS(c)
    <2>1. times[1] = InMS(a) /\ times[2] = InMS(b) /\ times[3] = InMS(c)
      BY DEF Sectors
    <2>2. QED
      BY <1>2, <2>1 DEF Total, SectorTime
  <1>4. LapTime(lap) = a + b + c
    BY DEF LapTime
  <1>5. (\A i \in Sectors : lap.sectors[i] < Minute) <=> a < Minute /\ b < Minute /\ c < Minute
    BY DEF Sectors
  <1> HIDE DEF a, b, c
  <1> DEFINE k == Minutes(a) + Minutes(b) + Minutes(c)
             missing == LapTime(lap) - Total(times)
  <1>6. Minute \in Nat /\ Minute > 0
    BY DriveAssumption
  <1>7. /\ Minutes(a) \in Nat /\ InMS(a) \in Nat /\ InMS(a) < Minute /\ a = Minute * Minutes(a) + InMS(a)
        /\ Minutes(b) \in Nat /\ InMS(b) \in Nat /\ InMS(b) < Minute /\ b = Minute * Minutes(b) + InMS(b)
        /\ Minutes(c) \in Nat /\ InMS(c) \in Nat /\ InMS(c) < Minute /\ c = Minute * Minutes(c) + InMS(c)
    BY <1>1, MinutesAndRest
  <1>8. k \in Nat /\ missing = Minute * k
    BY <1>3, <1>4, <1>6, <1>7
  <1>9. \A n, r \in Nat : Minute * n + r < Minute => n = 0
    BY <1>6
  <1>10. missing = 0 <=> k = 0
    BY <1>6, <1>8
  <1>11. k = 0 <=> a < Minute /\ b < Minute /\ c < Minute
    <2>1. k = 0 <=> Minutes(a) = 0 /\ Minutes(b) = 0 /\ Minutes(c) = 0
      BY <1>7
    <2>2. Minutes(a) = 0 <=> a < Minute
      BY <1>6, <1>7, <1>9
    <2>3. Minutes(b) = 0 <=> b < Minute
      BY <1>6, <1>7, <1>9
    <2>4. Minutes(c) = 0 <=> c < Minute
      BY <1>6, <1>7, <1>9
    <2>5. QED
      BY <2>1, <2>2, <2>3, <2>4
  <1>12. missing >= 0 /\ missing % Minute = 0
    <2> HIDE DEF k, missing
    <2>1. Minute * k >= 0 /\ (Minute * k) % Minute = 0
      BY <1>6, <1>8
    <2>2. QED
      BY <1>8, <2>1
  <1>13. QED
    BY <1>5, <1>10, <1>11, <1>12

\* The flags of a lap give back which of its sectors were clean.
LEMMA FlagsAreRead ==
    ASSUME NEW cut \in SUBSET Sectors
    PROVE  LET valid == Validity(LapValidBitFlags(cut))
           IN  /\ valid.lap <=> cut = {}
               /\ \A i \in Sectors : valid.sectors[i] <=> i \notin cut
  <1> DEFINE v == IF cut = {} THEN 1 ELSE 0
             a == IF 1 \in cut THEN 0 ELSE 2
             b == IF 2 \in cut THEN 0 ELSE 4
             c == IF 3 \in cut THEN 0 ELSE 8
             flags == v + a + b + c
  <1>1. flags = LapValidBitFlags(cut)
    BY DEF LapValidBitFlags
  <1>2. v \in {0, 1} /\ a \in {0, 2} /\ b \in {0, 4} /\ c \in {0, 8}
        /\ (v = 1 <=> cut = {}) /\ (a = 2 <=> 1 \notin cut) /\ (b = 4 <=> 2 \notin cut) /\ (c = 8 <=> 3 \notin cut)
    OBVIOUS
  <1> HIDE DEF v, a, b, c
  <1>3. /\ Bit(flags, 1) <=> v = 1
        /\ Bit(flags, 2) <=> a = 2
        /\ Bit(flags, 4) <=> b = 4
        /\ Bit(flags, 8) <=> c = 8
    BY <1>2 DEF Bit
  <1> HIDE DEF flags
  <1>4. Validity(flags).lap = Bit(flags, 1)
        /\ Validity(flags).sectors[1] = Bit(flags, 2)
        /\ Validity(flags).sectors[2] = Bit(flags, 4)
        /\ Validity(flags).sectors[3] = Bit(flags, 8)
    BY DEF Validity, Sectors
  <1>5. QED
    BY <1>1, <1>2, <1>3, <1>4 DEF Sectors

\* What the table says of a lap that is over.
LEMMA StoredLap ==
    ASSUME Forms, NEW r, NEW i \in DOMAIN Driven, r = HistoricLapData(i, HistoryOf(i))
    PROVE  /\ Driven[i] \in Lap
           /\ r.lap_num = i - 1
           /\ r.lap_time = LapTime(Driven[i])
           /\ r.sector_times = [j \in Sectors |-> InMS(Driven[i].sectors[j])]
           /\ r.valid = Validity(LapValidBitFlags(Driven[i].cut))
  <1>1. Driven[i] \in Lap
    BY PlayersDrive
  <1> DEFINE lap == Driven[i]
  <1> HIDE DEF lap
  <1>2. lap \in Lap
    BY <1>1 DEF lap
  <1>3. HistoryOf(i) = LapHistoryData(lap.sectors, lap.cut)
    BY DEF HistoryOf, lap
  <1>4. /\ HistoryOf(i).LapTimeInMS = Total(lap.sectors)
        /\ HistoryOf(i).SectorTimeInMS = [j \in Sectors |-> InMS(SectorTime(lap.sectors, j))]
        /\ HistoryOf(i).LapValidBitFlags = LapValidBitFlags(lap.cut)
    BY <1>3 DEF LapHistoryData
  <1>5. /\ r.lap_num = i - 1
        /\ r.lap_time = HistoryOf(i).LapTimeInMS
        /\ r.sector_times = HistoryOf(i).SectorTimeInMS
        /\ r.valid = Validity(HistoryOf(i).LapValidBitFlags)
    BY DEF HistoricLapData
  <1>6. Total(lap.sectors) = LapTime(lap) /\ \A j \in Sectors : SectorTime(lap.sectors, j) = lap.sectors[j]
    BY <1>2, LapTimes
  <1>7. QED
    BY <1>2, <1>4, <1>5, <1>6 DEF lap

-----------------------------------------------------------------------------
(* The theorems *)

\* The readings in the wheel and motion tables are those of the player's car,
\* each in the columns of its own wheel, whatever the orders and the names the
\* game, the messages and the tables have for wheels, and in whatever order
\* writeBatch names the columns.
THEOREM ReadingsArriveInPlace == Spec => []ReadingsKeepTheirPlace
  <1>1. DriveInv => ReadingsKeepTheirPlace
    BY DEF DriveInv
  <1>2. QED
    BY <1>1, DriveInvariant, PTL

\* Live rows sorted by their time follow the drive, in whatever order messages
\* reach the tables, unless UDP has reordered packets.
THEOREM LiveRowsKeepOrder == Spec => []LiveRowsFollowTheDrive
  <1>1. DriveInv => LiveRowsFollowTheDrive
    <2> SUFFICES ASSUME DriveInv, reorders = 0, NEW r \in LiveRows, NEW s \in LiveRows, r.time < s.time
                 PROVE  Place(r) <= Place(s)
      BY DEF LiveRowsFollowTheDrive
    <2>1. \A a, b \in Stamped : a.time < b.time => a.place <= b.place
      BY DEF DriveInv, Ordered
    <2>2. ASSUME NEW x \in LiveRows
          PROVE  [time |-> x.time, place |-> Place(x)] \in Stamped
      <3>1. PICK row \in tables["live_lap_data"] :
                x = [time |-> row.time, lap_num |-> row.columns.lap_num, sector |-> row.columns.sector,
                     current_lap_time |-> row.columns.current_lap_time]
        BY DEF LiveRows
      <3>2. x.time = row.time /\ Place(x) = Place(row.columns)
        BY <3>1 DEF Place
      <3>3. QED
        BY <3>2 DEF Stamped
    <2>3. QED
      BY <2>1, <2>2
  <1>2. QED
    BY <1>1, DriveInvariant, PTL

\* A lap marker names a lap the player has completed and its exact time, and
\* agrees with the session table about it.
THEOREM MarkersAreTrue == Spec => []LapMarkersAreTrue
  <1>1. DriveInv => LapMarkersAreTrue
    <2> SUFFICES ASSUME DriveInv, NEW r \in LiveRows, r.current_lap_time > 0
                 PROVE  /\ r.lap_num - 1 \in DOMAIN Driven
                        /\ r.current_lap_time = LapTime(Driven[r.lap_num - 1])
                        /\ \A s \in session :
                              s.lap_num = r.lap_num - 2 => s.lap_time = r.current_lap_time
      BY DEF LapMarkersAreTrue
    <2>1. Forms /\ Told
      BY DEF DriveInv
    <2>2. LapIsTrue(r.lap_num, r.sector, r.current_lap_time)
      BY <2>1 DEF LiveRows, Told, LiveRowTold
    <2> DEFINE n == r.lap_num
               l == Len(Driven)
    <2>3. l \in Nat /\ DOMAIN Driven = 1..l
      BY <2>1, PlayersDrive, LenProperties
    <2>4. n \in 1..(l + 1) /\ n # 1 /\ r.current_lap_time = LapTime(Driven[n - 1])
      BY <2>2 DEF LapIsTrue
    <2> HIDE DEF n, l
    <2>5. n - 1 \in DOMAIN Driven
      BY <2>3, <2>4
    <2>6. ASSUME NEW s \in session, s.lap_num = n - 2
          PROVE  s.lap_time = r.current_lap_time
      <3>1. PICK i \in DOMAIN Driven : s = HistoricLapData(i, HistoryOf(i))
        BY <2>1 DEF Told, LapStored
      <3>2. s.lap_num = i - 1 /\ s.lap_time = LapTime(Driven[i])
        BY <2>1, <3>1, StoredLap
      <3>3. i = n - 1
        BY <2>3, <2>4, <2>6, <3>2
      <3>4. QED
        BY <2>4, <3>2, <3>3
    <2>7. QED
      BY <2>4, <2>5, <2>6 DEF n
  <1>2. QED
    BY <1>1, DriveInvariant, PTL

\* A row of the session table is a lap the player has completed: exact in its
\* number, its time and its validity; its sectors fall short by whole minutes,
\* and only if one of them took a minute.
THEOREM SessionRowsTellTheDrive == Spec => []SessionRowsAreTrue
  <1>1. DriveInv => SessionRowsAreTrue
    <2> SUFFICES ASSUME DriveInv, NEW r \in session
                 PROVE  /\ r.lap_num + 1 \in DOMAIN Driven
                        /\ LET lap == Driven[r.lap_num + 1]
                               missing == r.lap_time - Total(r.sector_times)
                           IN  /\ r.lap_time = LapTime(lap)
                               /\ missing >= 0 /\ missing % Minute = 0
                               /\ missing = 0 <=> \A i \in Sectors : lap.sectors[i] < Minute
                               /\ r.valid.lap <=> lap.cut = {}
                               /\ \A i \in Sectors : r.valid.sectors[i] <=> i \notin lap.cut
      BY DEF SessionRowsAreTrue
    <2>1. Forms /\ Told
      BY DEF DriveInv
    <2>2. PICK i \in DOMAIN Driven : r = HistoricLapData(i, HistoryOf(i))
      BY <2>1 DEF Told, LapStored
    <2> DEFINE lap == Driven[i]
    <2>3. /\ lap \in Lap
          /\ r.lap_num = i - 1
          /\ r.lap_time = LapTime(lap)
          /\ r.sector_times = [j \in Sectors |-> InMS(lap.sectors[j])]
          /\ r.valid = Validity(LapValidBitFlags(lap.cut))
      BY <2>1, <2>2, StoredLap
    <2>4. r.lap_num + 1 = i
      <3>1. i \in Nat
        BY <2>1, PlayersDrive
      <3>2. QED
        BY <2>3, <3>1
    <2> HIDE DEF lap
    <2>5. lap.cut \in SUBSET Sectors
      BY <2>3, LapTimes
    <2>6. /\ r.valid.lap <=> lap.cut = {}
          /\ \A j \in Sectors : r.valid.sectors[j] <=> j \notin lap.cut
      BY <2>3, <2>5, FlagsAreRead
    <2>7. /\ r.lap_time - Total(r.sector_times) >= 0
          /\ (r.lap_time - Total(r.sector_times)) % Minute = 0
          /\ r.lap_time - Total(r.sector_times) = 0 <=> \A j \in Sectors : lap.sectors[j] < Minute
      BY <2>3, MinutesAreMissing
    <2>8. QED
      BY <2>2, <2>3, <2>4, <2>6, <2>7 DEF lap
  <1>2. QED
    BY <1>1, DriveInvariant, PTL
=============================================================================
