--------------------------- MODULE GnssDriverProofs ---------------------------
(***************************************************************************)
(* For every configuration, speed and day:                                 *)
(*   - what the handlers of NmeaData keep true of __nav_data, whatever the *)
(*     numbers in a sentence;                                              *)
(*   - the days of utc_to_epoch are those of the calendar;                 *)
(*   - with a receiving task that outranks the callers, and readers that   *)
(*     are not killed while they copy, nothing is used that is not there;  *)
(*   - a copy of the data has latitude and longitude of one fix, and its   *)
(*     Unix time, its date and its time of day are each of a second that   *)
(*     has been;                                                           *)
(*   - the two ends of the line keep the same speed.                       *)
(***************************************************************************)
EXTENDS GnssDriver, TLAPS, WellFoundedInduction

-----------------------------------------------------------------------------
(* The handlers of the sentences                                           *)

Utcs == [year : Nat, month : 0 .. 12, day : 0 .. 31, hour : 0 .. 23, minute : 0 .. 59,
         second : 0 .. 60]
Navs == [utc : Utcs, epoch : Nat, valid : BOOLEAN, lat : Nat, lon : Nat]

\* Latitude and longitude are of one fix, or of none.
Whole(n) == n.lat = n.lon

\* A sentence has a position or none, whatever it says of its fix.
Located(s) ==
  /\ s.fix \in BOOLEAN /\ s.lat = s.lon
  /\ s.lat = Empty \/ s.lat \in Nat

WellFormed(s) ==
  /\ s.type \in {"GGA", "RMC", "ZDA"} => s.time \in Int
  /\ s.type \in {"GGA", "RMC"} => Located(s)
  /\ s.type = "RMC" => s.date \in Int
  /\ s.type = "ZDA" => s.day \in Int /\ s.month \in Int /\ s.year \in Int

-----------------------------------------------------------------------------

LEMMA AtTimeType ==
  ASSUME NEW u \in Utcs, NEW h \in 0 .. 23, NEW m \in 0 .. 59, NEW s \in 0 .. 60
  PROVE  AtTime(u, h, m, s) \in Utcs
BY DEF Utcs, AtTime

LEMMA OnDateType ==
  ASSUME NEW u \in Utcs, NEW d \in 0 .. 31, NEW m \in 0 .. 12, NEW y \in Nat
  PROVE  OnDate(u, d, m, y) \in Utcs
BY DEF Utcs, OnDate

LEMMA WithTimeType ==
  ASSUME NEW u \in Utcs, NEW t \in Int
  PROVE  WithTime(u, t) \in Utcs
<1>1. CASE ~TimeOk(t)
  BY <1>1 DEF WithTime
<1>2. CASE TimeOk(t)
  <2> DEFINE h == (t \div 10000) % 256
             m == (t \div 100) % 100
             sec == t % 100
  <2>1. h \in 0 .. 23 /\ m \in 0 .. 59 /\ sec \in 0 .. 60
    BY <1>2 DEF TimeOk
  <2>2. WithTime(u, t) = AtTime(u, h, m, sec)
    BY <1>2 DEF WithTime
  <2> HIDE DEF h, m, sec
  <2> QED BY <2>1, <2>2, AtTimeType
<1> QED BY <1>1, <1>2

LEMMA WithDateType ==
  ASSUME NEW u \in Utcs, NEW d \in Int
  PROVE  WithDate(u, d) \in Utcs
<1>1. CASE ~DateOk(d)
  BY <1>1 DEF WithDate
<1>2. CASE DateOk(d)
  <2> DEFINE day == (d \div 10000) % 256
             m == (d \div 100) % 100
             y == 2000 + (d % 100)
  <2>1. day \in 0 .. 31 /\ m \in 0 .. 12 /\ y \in Nat
    BY <1>2 DEF DateOk
  <2>2. WithDate(u, d) = OnDate(u, day, m, y)
    BY <1>2 DEF WithDate
  <2> HIDE DEF day, m, y
  <2> QED BY <2>1, <2>2, OnDateType
<1> QED BY <1>1, <1>2

(* The Unix time of a date from 2020 on does not come out negative. *)
LEMMA EpochType ==
  ASSUME NEW u \in Utcs
  PROVE  UtcToEpoch(u) \in Nat
<1>1. /\ u.year \in Nat /\ u.month \in 0 .. 12 /\ u.day \in 0 .. 31
      /\ u.hour \in 0 .. 23 /\ u.minute \in 0 .. 59 /\ u.second \in 0 .. 60
  BY DEF Utcs
<1>2. CASE u.year < 2020 \/ u.month \notin 1 .. 12 \/ u.day \notin 1 .. 31
  BY <1>2 DEF UtcToEpoch
<1>3. CASE u.year >= 2020 /\ u.month \in 1 .. 12 /\ u.day \in 1 .. 31
  <2>1. MonthDays[u.month] \in Nat
    BY <1>3 DEF MonthDays
  <2>2. /\ (u.year - 1970) * 365 \in Nat /\ (u.year - 1969) \div 4 \in Nat
        /\ (u.year - 1901) \div 100 \in Nat /\ (u.year - 1601) \div 400 \in Nat
        /\ (u.year - 1901) \div 100 <= (u.year - 1970) * 365
    BY <1>1, <1>3
  <2>3. Days(u) \in Nat
    BY <1>1, <1>3, <2>1, <2>2 DEF Days
  <2>4. Days(u) * 86400 + u.hour * 3600 + u.minute * 60 + u.second \in Nat
    <3>1. ASSUME NEW d \in Nat, NEW h \in Nat, NEW m \in Nat, NEW s \in Nat
          PROVE  d * 86400 + h * 3600 + m * 60 + s \in Nat
      OBVIOUS
    <3>2. u.hour \in Nat /\ u.minute \in Nat /\ u.second \in Nat
      BY <1>1
    <3> QED BY <2>3, <3>1, <3>2
  <2> QED BY <1>1, <1>3, <2>4 DEF UtcToEpoch
<1> QED BY <1>1, <1>2, <1>3

\* What a change of some fields leaves of the others.
LEMMA ChangeValid ==
  ASSUME NEW n \in Navs, NEW v \in BOOLEAN, NEW m, m = [n EXCEPT !.valid = v]
  PROVE  m \in Navs /\ m.lat = n.lat /\ m.lon = n.lon /\ m.valid = v
BY DEF Navs

LEMMA ChangeUtc ==
  ASSUME NEW n \in Navs, NEW u \in Utcs, NEW m, m = [n EXCEPT !.utc = u]
  PROVE  m \in Navs /\ m.lat = n.lat /\ m.lon = n.lon /\ m.valid = n.valid
BY DEF Navs

LEMMA NavFields ==
  ASSUME NEW n \in Navs
  PROVE  n.utc \in Utcs /\ n.epoch \in Nat /\ n.valid \in BOOLEAN
BY DEF Navs

-----------------------------------------------------------------------------
(* Sentences                                                               *)

LEMMA PositionOk ==
  ASSUME NEW n \in Navs, NEW s, Located(s)
  PROVE  /\ WithPosition(n, s) \in Navs
         /\ WithPosition(n, s).valid = n.valid
         /\ n.lat = n.lon => WithPosition(n, s).lat = WithPosition(n, s).lon
<1>1. CASE s.lat = Empty
  BY <1>1 DEF WithPosition, Placed, Located
<1>2. CASE s.lat # Empty
  <2>1. s.lat \in Nat /\ s.lon = s.lat /\ Placed(s)
    BY <1>2 DEF Located, Placed
  <2> DEFINE m == [n EXCEPT !.lat = s.lat, !.lon = s.lon]
  <2>2. m \in Navs /\ m.lat = s.lat /\ m.lon = s.lon /\ m.valid = n.valid
    BY <2>1 DEF Navs
  <2>3. WithPosition(n, s) = m
    BY <2>1 DEF WithPosition
  <2> QED BY <2>1, <2>2, <2>3
<1> QED BY <1>1, <1>2

LEMMA GgaOk ==
  ASSUME NEW n \in Navs, Whole(n), NEW s, s.time \in Int, Located(s)
  PROVE  ParseGga(n, s) \in Navs /\ Whole(ParseGga(n, s))
<1> DEFINE timed == [n EXCEPT !.utc = WithTime(@, s.time)]
<1>1. /\ timed \in Navs /\ timed.lat = n.lat /\ timed.lon = n.lon /\ timed.valid = n.valid
  <2>1. WithTime(n.utc, s.time) \in Utcs
    BY NavFields, WithTimeType
  <2> QED BY <2>1, ChangeUtc
<1>2. n.lat = n.lon
  BY DEF Whole
<1>3. ParseGga(n, s) = IF s.fix /\ Placed(s)
                       THEN [WithPosition(timed, s) EXCEPT !.valid = TRUE]
                       ELSE [timed EXCEPT !.valid = FALSE]
  BY DEF ParseGga
<1> HIDE DEF timed
<1>4. CASE s.fix /\ Placed(s)
  <2> DEFINE placed == WithPosition(timed, s)
  <2>1. placed \in Navs /\ placed.lat = placed.lon
    BY <1>1, <1>2, PositionOk
  <2>2. ParseGga(n, s) = [placed EXCEPT !.valid = TRUE]
    BY <1>3, <1>4
  <2> HIDE DEF placed
  <2> QED BY <2>1, <2>2, ChangeValid DEF Whole
<1>5. CASE ~(s.fix /\ Placed(s))
  <2>1. ParseGga(n, s) = [timed EXCEPT !.valid = FALSE]
    BY <1>3, <1>5
  <2> QED BY <1>1, <1>2, <2>1, ChangeValid DEF Whole
<1> QED BY <1>4, <1>5

LEMMA RmcOk ==
  ASSUME NEW n \in Navs, Whole(n), NEW s, s.time \in Int, s.date \in Int, Located(s)
  PROVE  ParseRmc(n, s) \in Navs /\ Whole(ParseRmc(n, s))
<1> DEFINE utc == WithDate(WithTime(n.utc, s.time), s.date)
           epoch == IF TimeOk(s.time) /\ DateOk(s.date) THEN UtcToEpoch(utc) ELSE n.epoch
           dated == [n EXCEPT !.utc = utc, !.epoch = epoch]
           placed == IF s.fix THEN WithPosition(dated, s) ELSE dated
<1>1. utc \in Utcs
  BY NavFields, WithTimeType, WithDateType
<1>2. epoch \in Nat
  BY <1>1, NavFields, EpochType
<1>3. ParseRmc(n, s) = [placed EXCEPT !.valid = s.fix]
  BY DEF ParseRmc
<1>4. n.lat = n.lon
  BY DEF Whole
<1> HIDE DEF utc, epoch
<1>5. dated \in Navs /\ dated.lat = dated.lon
  BY <1>1, <1>2, <1>4 DEF Navs
<1> HIDE DEF dated
<1>6. placed \in Navs /\ placed.lat = placed.lon
  <2>1. CASE s.fix
    BY <2>1, <1>5, PositionOk
  <2>2. CASE ~s.fix
    BY <2>2, <1>5
  <2> QED BY <2>1, <2>2
<1>7. s.fix \in BOOLEAN
  BY DEF Located
<1> HIDE DEF placed
<1> QED BY <1>3, <1>6, <1>7, ChangeValid DEF Whole

LEMMA ZdaOk ==
  ASSUME NEW n \in Navs, Whole(n), NEW s, s.time \in Int,
         s.day \in Int, s.month \in Int, s.year \in Int
  PROVE  ParseZda(n, s) \in Navs /\ Whole(ParseZda(n, s))
<1> DEFINE utc == WithTime(n.utc, s.time)
           whole == OnDate(utc, s.day, s.month, s.year)
           dated == /\ TimeOk(s.time) /\ s.day \in 1 .. 31 /\ s.month \in 1 .. 12
                    /\ s.year >= 2020
<1>1. utc \in Utcs
  BY NavFields, WithTimeType
<1>2. ParseZda(n, s) = IF dated THEN [n EXCEPT !.utc = whole, !.epoch = UtcToEpoch(whole)]
                       ELSE [n EXCEPT !.utc = utc]
  BY DEF ParseZda
<1>3. dated => whole \in Utcs
  <2>1. dated => s.day \in 0 .. 31 /\ s.month \in 0 .. 12 /\ s.year \in Nat
    OBVIOUS
  <2> HIDE DEF utc, dated
  <2> QED BY <1>1, <2>1, OnDateType
<1> HIDE DEF utc, whole, dated
<1>4. CASE dated
  <2>1. UtcToEpoch(whole) \in Nat
    BY <1>3, <1>4, EpochType
  <2> DEFINE e == UtcToEpoch(whole)
             m == [n EXCEPT !.utc = whole, !.epoch = e]
  <2>2. ParseZda(n, s) = m
    BY <1>2, <1>4
  <2>3. whole \in Utcs /\ e \in Nat
    BY <1>3, <1>4, <2>1
  <2> HIDE DEF e
  <2>4. m \in Navs /\ m.lat = n.lat /\ m.lon = n.lon /\ m.valid = n.valid
    BY <2>3 DEF Navs
  <2> HIDE DEF m
  <2> QED BY <2>2, <2>4 DEF Whole
<1>5. CASE ~dated
  BY <1>1, <1>2, <1>5, ChangeUtc DEF Whole
<1> QED BY <1>4, <1>5

(* Whatever the fields of a sentence say, __nav_data keeps a time of day and *)
(* a date in their ranges, and latitude and longitude of one fix.            *)
THEOREM ParseOk ==
  ASSUME NEW n \in Navs, Whole(n), NEW s, WellFormed(s)
  PROVE  Parse(n, s) \in Navs /\ Whole(Parse(n, s))
<1>1. CASE s.type = "GGA"
  BY <1>1, GgaOk DEF Parse, WellFormed
<1>2. CASE s.type = "RMC"
  BY <1>2, RmcOk DEF Parse, WellFormed
<1>3. CASE s.type = "ZDA"
  BY <1>3, ZdaOk DEF Parse, WellFormed
<1>4. CASE s.type \notin {"GGA", "RMC", "ZDA"}
  BY <1>4 DEF Parse
<1> QED BY <1>1, <1>2, <1>3, <1>4

-----------------------------------------------------------------------------
(* What the driver uses                                                    *)

Starting == {"pps", "slow", "speed", "switch", "tune", "start"}
Closing == {"close isr", "close timer", "close uart"}

\* What each step of atgm_init and atgm_close relies on.
StepInv ==
  /\ uart \in BOOLEAN /\ hasMutex \in BOOLEAN /\ isr \in BOOLEAN
  /\ timer = "dangling" => pc = "close uart"
  /\ pc \in {"close timer", "close uart"} => ~isr
  /\ pc \in Closing => rx = "none"
  /\ pc \in Starting => uart /\ hasMutex

LiveInv == UsesLive /\ StepInv

-----------------------------------------------------------------------------

LEMMA LiveStep ==
  ASSUME RxAbove, "copies" \notin KillPoints, LiveInv, [Next]_vars
  PROVE  LiveInv'
<1> USE DEF LiveInv, StepInv, UsesLive, Starting, Closing, Runs, RxReady
<1>0. CASE UNCHANGED vars
  BY <1>0 DEF vars, world, ports, reading
<1>1. ASSUME NEW cfg \in Configs, InitBegins(cfg)
      PROVE  LiveInv'
  BY <1>1 DEF InitBegins, world, reading
<1>2. CASE InitPps
  BY <1>2 DEF InitPps, world, reading
<1>3. CASE InitSlows \/ InitTunes \/ InitStarts
  BY <1>3 DEF InitSlows, InitTunes, InitStarts, world, ports, reading
<1>4. ASSUME NEW b \in Speeds, SetBaudrate(b)
      PROVE  LiveInv'
  BY <1>4 DEF SetBaudrate, world, ports, reading
<1>5. CASE SpeedSent \/ SpeedSwitched \/ SaveConfig
  BY <1>5 DEF SpeedSent, SpeedSwitched, SaveConfig, world, ports, reading
<1>6. CASE CloseBegins
  BY <1>6 DEF CloseBegins, world, ports, reading
<1>7. CASE CloseIsr
  BY <1>7 DEF CloseIsr, world, reading
<1>8. CASE CloseTimer
  BY <1>8 DEF CloseTimer, world, reading
<1>9. CASE CloseUart
  BY <1>9 DEF CloseUart, world, reading
<1>10. ASSUME Reader
      PROVE  LiveInv'
  <2>1. UNCHANGED <<hasMutex, uart, timer, isr, rx, pc>>
    BY <1>10, Zenon DEF Reader, Wants, Takes, Gives, Returns, Killed, ports
  <2>2. (mutex' = "rx" <=> mutex = "rx") /\ (mutex' = "reader" <=> rpc' = "copies")
    <3>1. CASE Wants
      <4>1. rpc = "idle" /\ rpc' = "wants" /\ mutex' = mutex
        BY <3>1, Zenon DEF Wants
      <4> QED BY <4>1
    <3>2. CASE Takes
      <4>1. mutex = "nobody" /\ mutex' = "reader" /\ rpc' = "copies"
        BY <3>2, Zenon DEF Takes
      <4> QED BY <4>1
    <3>3. CASE Gives
      <4>1. mutex = "reader" /\ mutex' = "nobody" /\ rpc' = "copied"
        BY <3>3 DEF Gives
      <4> QED BY <4>1
    <3>4. CASE Returns \/ Killed
      <4>1. rpc # "copies" /\ rpc' = "idle" /\ mutex' = mutex
        BY <3>4 DEF Returns, Killed
      <4> QED BY <4>1
    <3> QED BY <1>10, <3>1, <3>2, <3>3, <3>4 DEF Reader
  <2> QED BY <2>1, <2>2
<1>11. CASE Line
  BY <1>11 DEF Line, world, ports, reading
<1>12. CASE RxTakes \/ RxParses
  BY <1>12 DEF RxTakes, RxParses, world, ports, reading
<1>13. CASE SecondPasses
  BY <1>13 DEF SecondPasses, ports, reading
<1>14. CASE ModulePowerCycle
  BY <1>14 DEF ModulePowerCycle, ports, reading
<1>15. CASE Restart
  BY <1>15 DEF Restart, world
<1> QED BY <1>0, <1>1, <1>2, <1>3, <1>4, <1>5, <1>6, <1>7, <1>8, <1>9, <1>10, <1>11, <1>12,
           <1>13, <1>14, <1>15 DEF Next, Manager

(* At whatever step of atgm_init or atgm_close a pulse, a sentence or a      *)
(* reader comes, the mutex has a holder that gives it back, the interrupt    *)
(* finds no deleted timer and the receiving task has its port.  It takes a   *)
(* receiving task above the callers, or atgm_close deletes it while it holds *)
(* the mutex, and readers that are not killed inside memcpy.                 *)
THEOREM NothingGone == RxAbove /\ "copies" \notin KillPoints => (Spec => []UsesLive)
<1>1. Init => LiveInv
  BY DEF Init, LiveInv, UsesLive, StepInv, Starting, Closing
<1>2. CASE RxAbove /\ "copies" \notin KillPoints
  <2>1. LiveInv /\ [Next]_vars => LiveInv'
    BY <1>2, LiveStep
  <2>2. LiveInv => UsesLive
    BY DEF LiveInv
  <2> QED BY <1>1, <2>1, <2>2, PTL DEF Spec
<1> QED BY <1>2

-----------------------------------------------------------------------------
(* The speed of the line                                                   *)

Served == {4800, 9600, 19200, 38400, 57600, 115200}

Jobs == [baud : Nat, led : BOOLEAN, tune : BOOLEAN, pps : BOOLEAN]

\* The module is where the next step of atgm_init or atgm_set_baudrate needs it.
Reached ==
  /\ pc = "pps" => /\ chip = FactorySpeed \/ chip = job.baud \/ job.baud = 0
                   /\ job.baud > 0 => host = job.baud
                   /\ job.baud = 0 => host = DefaultSpeed /\ chip = DefaultSpeed
  /\ pc \in {"slow", "speed"} => chip = FactorySpeed \/ chip = job.baud
  /\ pc = "speed" => host = FactorySpeed
  /\ pc \in {"switch", "switch only"} => chip = Supported(job.baud)
  /\ pc \in {"tune", "start", "idle", "speed only"} => host = chip
  /\ pc # "pps" => (job.pps => isr)
  /\ pc \in {"start", "idle", "speed only", "switch only"} => (job.tune => tuned)
  /\ pc \in {"idle", "speed only", "switch only"} => rx # "none"

LinkInv ==
  /\ chip \in Served /\ saved \in Served
  /\ isr \in BOOLEAN /\ tuned \in BOOLEAN /\ initialized \in BOOLEAN
  /\ job \in Jobs
  /\ good => initialized /\ pc \notin Closing /\ Reached

LEMMA SupportedServed ==
  /\ Served \subseteq Nat /\ FactorySpeed \in Served
  /\ \A b \in Nat : Supported(b) \in Served
  /\ \A b \in Served : Supported(b) = b
BY DEF Served, Supported, FactorySpeed

\* The records that a job goes through.
LEMMA JobsAre ==
  /\ NoJob \in Jobs
  /\ \A j \in Jobs : j.baud \in Nat /\ j.tune \in BOOLEAN /\ j.pps \in BOOLEAN
  /\ \A j \in Jobs, b \in Nat :
       /\ [j EXCEPT !.baud = b] \in Jobs
       /\ [j EXCEPT !.baud = b].baud = b
       /\ [j EXCEPT !.baud = b].tune = j.tune /\ [j EXCEPT !.baud = b].pps = j.pps
  /\ \A j \in Jobs :
       /\ [j EXCEPT !.baud = 0, !.led = FALSE] \in Jobs
       /\ [j EXCEPT !.baud = 0, !.led = FALSE].tune = j.tune
       /\ [j EXCEPT !.baud = 0, !.led = FALSE].pps = j.pps
<1>1. NoJob \in Jobs
  BY DEF NoJob, Jobs
<1>2. \A j \in Jobs : j.baud \in Nat /\ j.tune \in BOOLEAN /\ j.pps \in BOOLEAN
  BY DEF Jobs
<1>3. ASSUME NEW j \in Jobs, NEW b \in Nat
      PROVE  /\ [j EXCEPT !.baud = b] \in Jobs
             /\ [j EXCEPT !.baud = b].baud = b
             /\ [j EXCEPT !.baud = b].tune = j.tune /\ [j EXCEPT !.baud = b].pps = j.pps
  BY DEF Jobs
<1>4. ASSUME NEW j \in Jobs
      PROVE  /\ [j EXCEPT !.baud = 0, !.led = FALSE] \in Jobs
             /\ [j EXCEPT !.baud = 0, !.led = FALSE].tune = j.tune
             /\ [j EXCEPT !.baud = 0, !.led = FALSE].pps = j.pps
  BY DEF Jobs
<1> QED BY <1>1, <1>2, <1>3, <1>4

LEMMA LinkInit == Init => LinkInv
BY JobsAre, SupportedServed DEF Init, LinkInv

LEMMA LinkStep == LinkInv /\ [Next]_vars => LinkInv'
<1> SUFFICES ASSUME LinkInv, [Next]_vars PROVE LinkInv'
  OBVIOUS
<1>a. /\ chip \in Served /\ saved \in Served /\ Served \subseteq Nat /\ FactorySpeed \in Served
      /\ isr \in BOOLEAN /\ tuned \in BOOLEAN /\ initialized \in BOOLEAN
      /\ job \in Jobs /\ job.baud \in Nat /\ job.tune \in BOOLEAN /\ job.pps \in BOOLEAN
      /\ good => initialized /\ pc \notin Closing /\ Reached
  BY JobsAre, SupportedServed DEF LinkInv
<1>0. ASSUME UNCHANGED <<chip, saved, host, isr, tuned, initialized, pc, job, good>>,
             rx' = rx \/ (rx # "none" /\ rx' # "none")
      PROVE  LinkInv'
  BY <1>a, <1>0 DEF LinkInv, Reached
<1>1. ASSUME NEW cfg \in Configs, InitBegins(cfg)
      PROVE  LinkInv'
  <2>1. cfg \in Jobs /\ cfg.baud \in Nat
    <3>1. cfg \in Jobs
      BY DriverAssumption DEF Jobs
    <3> QED BY <3>1, JobsAre
  <2>2. /\ pc' = "pps" /\ job' = cfg /\ initialized' = TRUE /\ tuned' = FALSE
        /\ host' = IF cfg.baud > 0 THEN cfg.baud ELSE DefaultSpeed
        /\ UNCHANGED <<chip, saved, isr>>
    BY <1>1 DEF InitBegins, world
  <2>3. good' => chip \in Within(cfg)
    BY <1>1, Zenon DEF InitBegins
  <2>4. chip \in Within(cfg) =>
          /\ chip = FactorySpeed \/ chip = cfg.baud \/ cfg.baud = 0
          /\ cfg.baud = 0 => chip = DefaultSpeed
    BY DEF Within
  <2>5. chip \in Within(cfg) => Reached'
    BY <2>1, <2>2, <2>4 DEF Reached
  <2> QED BY <1>a, <2>1, <2>2, <2>3, <2>5 DEF LinkInv, Closing
<1>2. CASE InitPps
  <2>1. /\ pc = "pps" /\ isr' = (isr \/ job.pps)
        /\ pc' = IF job.baud > 0 /\ job.baud # FactorySpeed THEN "slow" ELSE "tune"
        /\ UNCHANGED <<chip, saved, host, tuned, initialized, job, good>>
    BY <1>2 DEF InitPps, world
  <2>2. isr' \in BOOLEAN /\ (job.pps => isr')
    BY <1>a, <2>1, Zenon
  <2> QED BY <1>a, <2>1, <2>2 DEF LinkInv, Reached, Closing
<1>3. CASE InitSlows
  <2>1. /\ pc = "slow" /\ pc' = "speed" /\ host' = FactorySpeed
        /\ UNCHANGED <<chip, saved, isr, tuned, initialized, job, good>>
    BY <1>3 DEF InitSlows, world
  <2> QED BY <1>a, <2>1 DEF LinkInv, Reached, Closing
<1>4. CASE InitTunes
  <2>1. /\ pc = "tune" /\ pc' = "start"
        /\ UNCHANGED <<chip, saved, host, isr, initialized, job, good>>
    BY <1>4 DEF InitTunes, world, ports
  <2>2. tuned' = IF job.tune THEN tuned \/ (initialized /\ host = chip) ELSE tuned
    BY <1>4 DEF InitTunes, SetsModeAndRate, Heard
  <2> QED BY <1>a, <2>1, <2>2 DEF LinkInv, Reached, Closing
<1>5. CASE InitStarts
  <2>1. /\ pc = "start" /\ pc' = "idle" /\ rx' # "none"
        /\ UNCHANGED <<chip, saved, host, isr, tuned, initialized, good>>
    BY <1>5 DEF InitStarts, world, ports
  <2>2. job' \in Jobs /\ job'.tune = job.tune /\ job'.pps = job.pps
    BY <1>5, <1>a, JobsAre DEF InitStarts
  <2> QED BY <1>a, <2>1, <2>2 DEF LinkInv, Reached, Closing
<1>6. ASSUME NEW b \in Speeds, SetBaudrate(b)
      PROVE  LinkInv'
  <2>1. /\ pc = "idle" /\ pc' = "speed only"
        /\ UNCHANGED <<chip, saved, host, isr, tuned, initialized, rx, good>>
    BY <1>6 DEF SetBaudrate, world, ports
  <2>2. job' \in Jobs /\ job'.tune = job.tune /\ job'.pps = job.pps
    <3>1. job' = [job EXCEPT !.baud = b]
      BY <1>6, Zenon DEF SetBaudrate
    <3>2. b \in Nat
      BY DriverAssumption
    <3> QED BY <1>a, <3>1, <3>2, JobsAre
  <2> QED BY <1>a, <2>1, <2>2 DEF LinkInv, Reached, Closing
<1>7. CASE SpeedSent
  <2>1. \/ pc = "speed" /\ pc' = "switch"
        \/ pc = "speed only" /\ pc' = "switch only"
    BY <1>7 DEF SpeedSent
  <2>2. /\ UNCHANGED <<saved, host, isr, tuned, initialized, rx, job, good>>
        /\ chip' = IF initialized /\ host = chip THEN Supported(job.baud) ELSE chip
    BY <1>7, Zenon DEF SpeedSent, Heard, ports
  <2>3. Supported(job.baud) \in Served /\ (job.baud \in Served => Supported(job.baud) = job.baud)
    BY <1>a, SupportedServed
  <2>4. good => chip' = Supported(job.baud)
    BY <1>a, <2>1, <2>2, <2>3 DEF Reached
  <2> QED BY <1>a, <2>1, <2>2, <2>3, <2>4 DEF LinkInv, Reached, Closing
<1>8. CASE SpeedSwitched
  <2>1. \/ pc = "switch" /\ pc' = "tune"
        \/ pc = "switch only" /\ pc' = "idle"
    <3>1. pc \in {"switch", "switch only"} /\ pc' = IF pc = "switch" THEN "tune" ELSE "idle"
      BY <1>8, Zenon DEF SpeedSwitched
    <3> QED BY <3>1
  <2>2. /\ host' = Supported(job.baud)
        /\ UNCHANGED <<chip, saved, isr, tuned, initialized, rx, good>>
    BY <1>8, Zenon DEF SpeedSwitched, world
  <2>3. job' \in Jobs /\ job'.tune = job.tune /\ job'.pps = job.pps
    <3>1. job' = [job EXCEPT !.baud = 0]
      BY <1>8, Zenon DEF SpeedSwitched
    <3> QED BY <1>a, <3>1, JobsAre
  <2> QED BY <1>a, <2>1, <2>2, <2>3 DEF LinkInv, Reached, Closing
<1>9. CASE SaveConfig
  <2>1. saved' = chip /\ UNCHANGED <<chip, host, isr, tuned, initialized, rx, pc, job, good>>
    BY <1>9 DEF SaveConfig, ports
  <2> QED BY <1>a, <2>1 DEF LinkInv, Reached
<1>10. CASE CloseBegins
  <2>1. good' = FALSE /\ job' = NoJob /\ UNCHANGED <<chip, saved, isr, tuned, initialized>>
    BY <1>10 DEF CloseBegins, world, ports
  <2> QED BY <1>a, <2>1, JobsAre DEF LinkInv
<1>11. CASE CloseIsr \/ CloseTimer \/ CloseUart
  <2>1. pc \in Closing /\ isr' \in BOOLEAN /\ initialized' \in BOOLEAN
        /\ UNCHANGED <<chip, saved, tuned, job, good>>
    BY <1>11, <1>a DEF CloseIsr, CloseTimer, CloseUart, world, Closing
  <2> QED BY <1>a, <2>1 DEF LinkInv
<1>12. ASSUME Reader
       PROVE  LinkInv'
  <2>1. UNCHANGED <<chip, saved, host, isr, tuned, initialized, pc, job, rx, good>>
    BY <1>12, Zenon DEF Reader, Wants, Takes, Gives, Returns, Killed, world, ports
  <2> QED BY <1>0, <2>1
<1>13. CASE Line
  <2>1. /\ UNCHANGED <<chip, saved, host, isr, tuned, initialized, pc, job, good>>
        /\ rx # "none" /\ rx' # "none"
    BY <1>13 DEF Line, world, ports
  <2> QED BY <1>0, <2>1
<1>14. CASE RxTakes \/ RxParses
  <2>1. /\ UNCHANGED <<chip, saved, host, isr, tuned, initialized, pc, job, good>>
        /\ rx # "none" /\ rx' # "none"
    BY <1>14 DEF RxTakes, RxParses, world, ports
  <2> QED BY <1>0, <2>1
<1>15. CASE SecondPasses
  <2>1. UNCHANGED <<chip, saved, host, isr, tuned, initialized, pc, job, rx, good>>
    BY <1>15 DEF SecondPasses, ports
  <2> QED BY <1>0, <2>1
<1>16. CASE ModulePowerCycle
  <2>1. /\ good' = FALSE /\ chip' = saved /\ tuned' = FALSE
        /\ UNCHANGED <<saved, isr, initialized, job>>
    BY <1>16 DEF ModulePowerCycle, ports
  <2> QED BY <1>a, <2>1 DEF LinkInv
<1>17. CASE Restart
  <2>1. /\ good' = FALSE /\ isr' = FALSE /\ initialized' = FALSE /\ job' = NoJob
        /\ UNCHANGED <<chip, saved, tuned>>
    BY <1>17 DEF Restart, world
  <2> QED BY <1>a, <2>1, JobsAre DEF LinkInv
<1>18. CASE UNCHANGED vars
  BY <1>0, <1>18 DEF vars, world, ports
<1> QED BY <1>1, <1>2, <1>3, <1>4, <1>5, <1>6, <1>7, <1>8, <1>9, <1>10, <1>11, <1>12,
           <1>13, <1>14, <1>15, <1>16, <1>17, <1>18 DEF Next, Manager

(* For all configurations and speeds: a driver whose atgm_init could reach   *)
(* the module talks to it at its speed, and goes on doing so through any     *)
(* number of changes of the speed and of saved configurations.               *)
THEOREM LinkKept == Spec => []Linked
<1>1. LinkInv => Linked
  BY DEF LinkInv, Linked, Reached
<1> QED BY <1>1, LinkInit, LinkStep, PTL DEF Spec

-----------------------------------------------------------------------------
(* What is copied                                                          *)

DayRecord == [year : Nat, month : Nat, day : Nat]

LEMMA DateType ==
  ASSUME day0 \in Days0, NEW j
  PROVE  Date(j) \in DayRecord
<1>1. day0 \in DayRecord
  BY DriverAssumption DEF DayRecord
<1>2. ASSUME NEW d \in DayRecord PROVE NextDay(d) \in DayRecord
  <2>1. d.year \in Nat /\ d.month \in Nat /\ d.day \in Nat
    BY DEF DayRecord
  <2>2. [d EXCEPT !.day = @ + 1] \in DayRecord
    BY DEF DayRecord
  <2>3. [d EXCEPT !.day = 1, !.month = @ + 1] \in DayRecord
    <3>1. ASSUME NEW m \in Nat, NEW x \in Nat
          PROVE  [d EXCEPT !.day = x, !.month = m] \in DayRecord
      BY DEF DayRecord
    <3>2. d.month + 1 \in Nat
      BY <2>1
    <3> QED BY <3>1, <3>2, Zenon
  <2>4. [year |-> d.year + 1, month |-> 1, day |-> 1] \in DayRecord
    BY <2>1 DEF DayRecord
  <2> QED BY <2>2, <2>3, <2>4 DEF NextDay
<1> QED BY <1>1, <1>2 DEF Date

\* The day and the second of the day of the j-th second after the last one of day d.
DayAt(d, j) == IF j = 0 THEN d ELSE NextDay(d)
SecondAt(j) == IF j = 0 THEN DayLength - 1 ELSE j - 1

LEMMA SentencesWellFormed ==
  ASSUME day0 \in Days0, NEW j \in Nat, NEW s \in Sentences(j)
  PROVE  WellFormed(s)
<1> DEFINE date == Date(j)
           times == {Empty, Time(j)}
           dates == {Empty, Short(date)}
           places == {Empty, j + 1}
<1>1. date.year \in Nat /\ date.month \in Nat /\ date.day \in Nat
  BY DateType DEF DayRecord
<1>2. times \subseteq Int
  <2>1. SecondAt(j) \in Nat
    BY DEF SecondAt, DayLength
  <2>2. ASSUME NEW x \in Nat PROVE Clock(x) \in Int
    BY DEF Clock
  <2>3. Time(j) = Clock(SecondAt(j))
    BY DEF Time, SecondAt
  <2> QED BY <2>1, <2>2, <2>3 DEF Empty
<1> HIDE DEF date
<1>3. dates \subseteq Int
  BY <1>1 DEF Empty, Short
<1>4. \A p \in places : p = Empty \/ p \in Nat
  OBVIOUS
<1> HIDE DEF times, dates, places
<1>5. ASSUME NEW t \in times, NEW f \in BOOLEAN, NEW p \in places,
             s = [type |-> "GGA", time |-> t, fix |-> f, lat |-> p, lon |-> p]
      PROVE  WellFormed(s)
  BY <1>2, <1>4, <1>5 DEF WellFormed, Located
<1>6. ASSUME NEW t \in times, NEW d \in dates, NEW f \in BOOLEAN, NEW p \in places,
             s = [type |-> "RMC", time |-> t, date |-> d, fix |-> f, lat |-> p, lon |-> p]
      PROVE  WellFormed(s)
  BY <1>2, <1>3, <1>4, <1>6 DEF WellFormed, Located
<1>7. ASSUME NEW t \in times,
             s = [type |-> "ZDA", time |-> t, day |-> date.day, month |-> date.month,
                  year |-> date.year]
      PROVE  WellFormed(s)
  BY <1>1, <1>2, <1>7 DEF WellFormed
<1>8. CASE s = [type |-> "other"]
  BY <1>8 DEF WellFormed
<1> QED BY <1>5, <1>6, <1>7, <1>8 DEF Sentences, date, times, dates, places

\* The parser has the mutex while it changes the data, the reader while it
\* copies them.
DataInv ==
  /\ day0 \in Days0 /\ now \in 0 .. MaxSeconds
  /\ nav \in Navs /\ Whole(nav) /\ (line = NoLine \/ line \in 0 .. now)
  /\ rx = "holds" => mutex = "rx"
  /\ rpc = "copies" => mutex = "reader" /\ copy.lat = nav.lat /\ copy.valid = nav.valid
  /\ copy \in Navs
  /\ OneFix

LEMMA NoDataOk == NoData \in Navs /\ Whole(NoData)
<1>1. NoData.utc \in Utcs /\ NoData.lat = 0 /\ NoData.lon = 0 /\ NoData.valid = FALSE
  BY DEF NoData, Utcs, Nowhere
<1>2. NoData \in Navs
  BY <1>1 DEF NoData, Navs, Nowhere
<1> QED BY <1>1, <1>2 DEF Whole

\* The first and the second half of memcpy.
LEMMA HalfCopied ==
  ASSUME NEW n \in Navs, NEW c, c = [NoData EXCEPT !.valid = n.valid, !.lat = n.lat]
  PROVE  c \in Navs /\ c.lat = n.lat /\ c.valid = n.valid
BY NoDataOk DEF Navs

LEMMA WholeCopied ==
  ASSUME NEW n \in Navs, NEW b \in Navs, NEW c,
         c = [b EXCEPT !.lon = n.lon, !.utc = n.utc, !.epoch = n.epoch]
  PROVE  c \in Navs /\ c.lat = b.lat /\ c.valid = b.valid /\ c.lon = n.lon
BY DEF Navs

LEMMA DataInit == Init => DataInv
<1> SUFFICES ASSUME Init PROVE DataInv
  OBVIOUS
<1>1. day0 \in Days0 /\ now = 0 /\ nav = NoData /\ line = NoLine /\ copy = NoData
      /\ rx = "none" /\ rpc = "idle"
  BY Zenon DEF Init
<1>2. now \in 0 .. MaxSeconds
  BY <1>1, DriverAssumption
<1> QED BY <1>1, <1>2, NoDataOk DEF DataInv, OneFix

LEMMA DataStep == DataInv /\ [Next]_vars => DataInv'
<1> SUFFICES ASSUME DataInv, [Next]_vars PROVE DataInv'
  OBVIOUS
<1> USE DEF DataInv, OneFix
<1>1. ASSUME UNCHANGED <<day0, now, mutex, nav, rpc, copy>>,
             rx' # "holds" \/ rx' = rx,
             line' = line \/ line' = NoLine \/ line' = now
      PROVE  DataInv'
  BY <1>1 DEF Whole
<1>2. CASE UNCHANGED vars
  BY <1>1, <1>2 DEF vars, world, reading
<1>3. CASE Manager
  <2>1. UNCHANGED <<day0, now, mutex, nav, rpc, copy>>
    BY <1>3, Zenon
       DEF Manager, InitBegins, InitPps, InitSlows, InitTunes, InitStarts, SetBaudrate, SpeedSent,
           SpeedSwitched, SaveConfig, CloseBegins, CloseIsr, CloseTimer, CloseUart, world, reading
  <2>2. rx' # "holds" \/ rx' = rx
    <3>1. CASE InitStarts
      BY <3>1 DEF InitStarts
    <3>2. CASE CloseBegins
      BY <3>2 DEF CloseBegins
    <3>3. CASE ~InitStarts /\ ~CloseBegins
      BY <1>3, <3>3, Zenon
         DEF Manager, InitBegins, InitPps, InitSlows, InitTunes, SetBaudrate, SpeedSent,
             SpeedSwitched, SaveConfig, CloseIsr, CloseTimer, CloseUart
    <3> QED BY <3>1, <3>2, <3>3
  <2>3. line' = line \/ line' = NoLine
    BY <1>3, Zenon
       DEF Manager, InitBegins, InitPps, InitSlows, InitTunes, InitStarts, SetBaudrate, SpeedSent,
           SpeedSwitched, SaveConfig, CloseBegins, CloseIsr, CloseTimer, CloseUart
  <2> QED BY <1>1, <2>1, <2>2, <2>3
<1>4. CASE Line
  <2>1. /\ rx' = "parses"
        /\ line' = now \/ line' = NoLine
        /\ UNCHANGED <<day0, now, mutex, nav, rpc, copy>>
    BY <1>4 DEF Line, world, reading
  <2> QED BY <1>1, <2>1
<1>5. CASE RxTakes
  <2>1. mutex = "nobody" /\ mutex' = "rx" /\ UNCHANGED <<day0, now, nav, line, rpc, copy>>
    BY <1>5 DEF RxTakes, world, reading
  <2> QED BY <2>1 DEF Whole
<1>6. CASE RxParses
  <2>1. /\ rx = "holds" /\ rx' = "waits" /\ line' = NoLine
        /\ UNCHANGED <<day0, now, rpc, copy>>
        /\ \/ line = NoLine /\ nav' = nav
           \/ line # NoLine /\ \E s \in Sentences(line) : nav' = Parse(nav, s)
    BY <1>6 DEF RxParses, world, reading
  <2>2. nav' \in Navs /\ Whole(nav')
    <3>1. CASE nav' = nav
      BY <3>1 DEF Whole
    <3>2. CASE line # NoLine /\ \E s \in Sentences(line) : nav' = Parse(nav, s)
      <4>1. PICK s \in Sentences(line) : nav' = Parse(nav, s)
        BY <3>2
      <4>2. WellFormed(s)
        BY <3>2, SentencesWellFormed
      <4>3. Parse(nav, s) \in Navs /\ Whole(Parse(nav, s))
        BY <4>2, ParseOk
      <4> QED BY <4>1, <4>3
    <3> QED BY <2>1, <3>1, <3>2
  <2>3. rpc' # "copies"
    BY <2>1
  <2> QED BY <2>1, <2>2, <2>3
<1>7. CASE Wants
  <2>1. rpc' = "wants" /\ UNCHANGED <<day0, now, mutex, nav, rx, line, copy>>
    BY <1>7, Zenon DEF Wants, world
  <2> QED BY <2>1 DEF Whole
<1>8. CASE Takes
  <2>1. /\ mutex = "nobody" /\ mutex' = "reader" /\ rpc' = "copies"
        /\ copy' = [NoData EXCEPT !.valid = nav.valid, !.lat = nav.lat]
        /\ UNCHANGED <<day0, now, nav, rx, line>>
    BY <1>8, Zenon DEF Takes, world
  <2>2. copy' \in Navs /\ copy'.lat = nav.lat /\ copy'.valid = nav.valid
    BY <2>1, HalfCopied
  <2>3. /\ mutex = "nobody" /\ mutex' = "reader" /\ rpc' = "copies"
        /\ UNCHANGED <<day0, now, nav, rx, line>>
    BY <2>1
  <2> QED BY <2>2, <2>3 DEF Whole
<1>9. CASE Gives
  <2>1. /\ rpc = "copies" /\ rpc' = "copied" /\ UNCHANGED <<day0, now, nav, rx, line>>
        /\ copy' = [copy EXCEPT !.lon = nav.lon, !.utc = nav.utc, !.epoch = nav.epoch]
    BY <1>9, Zenon DEF Gives, world
  <2>2. copy' \in Navs /\ copy'.lat = copy.lat /\ copy'.valid = copy.valid /\ copy'.lon = nav.lon
    BY <2>1, WholeCopied
  <2>3. rpc = "copies" /\ rpc' = "copied" /\ UNCHANGED <<day0, now, nav, rx, line>>
    BY <2>1
  <2>4. rx # "holds"
    BY <2>3
  <2> QED BY <2>2, <2>3, <2>4 DEF Whole
<1>10. CASE Returns \/ Killed
  <2>1. rpc' = "idle" /\ copy' = NoData /\ UNCHANGED <<day0, now, mutex, nav, rx, line>>
    BY <1>10, Zenon DEF Returns, Killed, world
  <2> QED BY <2>1, NoDataOk DEF Whole
<1>11. CASE SecondPasses
  <2>1. now < MaxSeconds /\ now' = now + 1 /\ UNCHANGED <<day0, mutex, nav, rx, line, rpc, copy>>
    BY <1>11 DEF SecondPasses, reading
  <2>2. now' \in 0 .. MaxSeconds
    BY <2>1, DriverAssumption
  <2> QED BY <2>1, <2>2 DEF Whole
<1>12. CASE ModulePowerCycle
  BY <1>1, <1>12 DEF ModulePowerCycle, reading
<1>13. CASE Restart
  <2>1. /\ nav' = NoData /\ line' = NoLine /\ copy' = NoData /\ rx' = "none" /\ rpc' = "idle"
        /\ UNCHANGED <<day0, now>>
    BY <1>13, Zenon DEF Restart, world
  <2> QED BY <2>1, NoDataOk
<1> QED BY <1>2, <1>3, <1>4, <1>5, <1>6, <1>7, <1>8, <1>9, <1>10, <1>11, <1>12, <1>13
        DEF Next, Reader

-----------------------------------------------------------------------------
(* The calendar                                                            *)

\* Sets with names of their own: the provers take long numbers apart.
Year == 1970 .. 2100
Month == 1 .. 12
MonthDay == 1 .. 31

\* A recursive function is followed to the least number at which it goes wrong.
LEMMA Least ==
  ASSUME NEW T \in SUBSET Nat, T # {}
  PROVE  \E x \in T : \A y \in T : x <= y
<1> DEFINE R == OpToRel(<, Nat)
<1>1. PICK x \in T : \A y \in T : <<y, x>> \notin R
  <2>1. IsWellFoundedOn(R, Nat)
    BY NatLessThanWellFounded
  <2> HIDE DEF R
  <2> QED BY <2>1, WFMin
<1>2. ASSUME NEW y \in T PROVE x <= y
  <2>1. <<y, x>> \notin R
    BY <1>1
  <2>2. x \in Nat /\ y \in Nat
    OBVIOUS
  <2>3. ~(y < x)
    BY <2>1, <2>2 DEF OpToRel
  <2> QED BY <2>2, <2>3
<1> QED BY <1>2

\* The first days of the years, as Days counts them.
January(y) ==
  (y - 1970) * 365 + (y - 1969) \div 4 - (y - 1901) \div 100 + (y - 1601) \div 400

LEMMA JanuaryNext ==
  ASSUME NEW y \in 1971 .. 2100
  PROVE  January(y) = January(y - 1) + (IF LeapYear(y - 1) THEN 366 ELSE 365)
BY DEF January, LeapYear

\* What is said of a recursive function, for one year.
YearStep(f, y) == IF y = 1970 THEN 0 ELSE f[y - 1] + (IF LeapYear(y - 1) THEN 366 ELSE 365)

LEMMA YearStartIs == \A y \in Year : YearStart[y] = January(y)
<1> DEFINE Is(f) == f = [y \in Year |-> YearStep(f, y)]
           closed == [y \in Year |-> January(y)]
<1>1. Is(closed)
  <2>1. ASSUME NEW y \in Year PROVE January(y) = YearStep(closed, y)
    <3>1. CASE y = 1970
      BY <3>1 DEF January, YearStep
    <3>2. CASE y # 1970
      <4>1. y \in 1971 .. 2100 /\ y - 1 \in Year
        BY <3>2 DEF Year
      <4>2. closed[y - 1] = January(y - 1)
        BY <4>1
      <4> QED BY <3>2, <4>1, <4>2, JanuaryNext DEF YearStep
    <3> QED BY <3>1, <3>2
  <2> QED BY <2>1
<1>2. YearStart = CHOOSE f : Is(f)
  BY DEF YearStart, YearStep, Year
<1>3. Is(YearStart)
  BY <1>1, <1>2
<1>4. YearStart = [y \in Year |-> YearStep(YearStart, y)]
  BY <1>3
<1> DEFINE wrong == {y \in Year : YearStart[y] # January(y)}
<1>5. ASSUME wrong # {} PROVE FALSE
  <2>1. PICK y \in wrong : \A z \in wrong : y <= z
    <3>1. wrong \in SUBSET Nat
      BY DEF Year
    <3> HIDE DEF wrong
    <3> QED BY <1>5, <3>1, Least
  <2>2. y \in Year /\ YearStart[y] # January(y) /\ YearStart[y] = YearStep(YearStart, y)
    BY <1>4
  <2>3. y # 1970
    BY <2>2 DEF YearStep, January
  <2>4. y - 1 \in Year /\ ~(y <= y - 1) /\ y \in 1971 .. 2100
    BY <2>2, <2>3 DEF Year
  <2>5. YearStart[y - 1] = January(y - 1)
    BY <2>1, <2>4
  <2> QED BY <2>2, <2>3, <2>4, <2>5, JanuaryNext DEF YearStep
<1> QED BY <1>5

\* The same for the months of a year.
MonthStep(y, f, m) == IF m = 1 THEN 0 ELSE f[m - 1] + DaysIn(y, m - 1)

\* The days before a month, as Days counts them.
First(y, m) == MonthDays[m] + (IF LeapYear(y) /\ m > 2 THEN 1 ELSE 0)

LEMMA FirstOne == \A y \in Year : First(y, 1) = 0
BY DEF Year, First, MonthDays

LEMMA FirstNext ==
  \A y \in Year, m \in Month \ {1} : First(y, m) = First(y, m - 1) + DaysIn(y, m - 1)
BY DEF Year, Month, First, DaysIn, MonthDays

LEMMA CalendarType ==
  \A y \in Year, m \in Month :
    January(y) \in Int /\ First(y, m) \in Nat /\ DaysIn(y, m) \in 28 .. 31
<1> SUFFICES ASSUME NEW y \in Year, NEW m \in Month
             PROVE  January(y) \in Int /\ First(y, m) \in Nat /\ DaysIn(y, m) \in 28 .. 31
  BY Zenon
<1>1. January(y) \in Int
  BY DEF January, Year
<1>2. First(y, m) \in Nat
  BY DEF First, MonthDays, Year, Month
<1>3. DaysIn(y, m) \in 28 .. 31
  BY DEF DaysIn, Year, Month
<1> QED BY <1>1, <1>2, <1>3

LEMMA MonthStartIs ==
  ASSUME NEW y \in Year, NEW f, f = [m \in Month |-> MonthStep(y, f, m)]
  PROVE  \A m \in Month : f[m] = First(y, m)
<1> DEFINE wrong == {m \in Month : f[m] # First(y, m)}
<1>1. ASSUME NEW m \in Month PROVE f[m] = MonthStep(y, f, m)
  OBVIOUS
<1>2. ASSUME wrong # {} PROVE FALSE
  <2>1. PICK m \in wrong : \A z \in wrong : m <= z
    <3>1. wrong \in SUBSET Nat
      BY DEF Month
    <3> HIDE DEF wrong
    <3> QED BY <1>2, <3>1, Least
  <2>2. m \in Month /\ f[m] # First(y, m) /\ f[m] = MonthStep(y, f, m)
    BY <1>1
  <2>3. m # 1
    BY <2>2, FirstOne DEF MonthStep
  <2>4. m - 1 \in Month /\ ~(m <= m - 1)
    BY <2>2, <2>3 DEF Month
  <2>5. f[m - 1] = First(y, m - 1)
    BY <2>1, <2>4
  <2>6. m \in Month \ {1}
    BY <2>2, <2>3
  <2>7. First(y, m) = First(y, m - 1) + DaysIn(y, m - 1)
    BY <2>6, FirstNext, Zenon
  <2> QED BY <2>2, <2>3, <2>5, <2>7 DEF MonthStep
<1> QED BY <1>2

LEMMA MonthStartExists ==
  ASSUME NEW y \in Year
  PROVE  \E f : f = [m \in Month |-> MonthStep(y, f, m)]
<1> DEFINE closed == [m \in Month |-> First(y, m)]
<1>1. ASSUME NEW m \in Month PROVE First(y, m) = MonthStep(y, closed, m)
  <2>1. CASE m = 1
    BY <2>1, FirstOne DEF MonthStep
  <2>2. CASE m # 1
    <3>1. m - 1 \in Month /\ m \in Month \ {1}
      BY <2>2 DEF Month
    <3>2. closed[m - 1] = First(y, m - 1)
      BY <3>1
    <3>3. First(y, m) = First(y, m - 1) + DaysIn(y, m - 1)
      BY <3>1, FirstNext, Zenon
    <3> QED BY <2>2, <3>2, <3>3 DEF MonthStep
  <2> QED BY <2>1, <2>2
<1>2. closed = [m \in Month |-> MonthStep(y, closed, m)]
  BY <1>1
<1> QED BY <1>2

\* The sum of utc_to_epoch.
LEMMA DaysSum ==
  ASSUME NEW y \in Year, NEW m \in Month, NEW x \in Nat,
         NEW d, d.year = y, d.month = m, d.day = x
  PROVE  Days(d) = January(y) + First(y, m) + x - 1
<1>1. MonthDays[m] \in Nat
  BY DEF MonthDays, Month
<1> QED BY <1>1 DEF Days, January, First, Year, Month

(* The days of utc_to_epoch, which divides for the leap years and looks the  *)
(* months up, are those that come to be when one year and one month after    *)
(* the other is counted, for every date from 1970 to 2100.                   *)
THEOREM DaysCounted ==
  ASSUME NEW y \in Year, NEW m \in Month, NEW x \in Nat,
         NEW d, d.year = y, d.month = m, d.day = x
  PROVE  DayNumber(d) = Days(d)
<1> DEFINE Is(f) == f = [k \in Month |-> MonthStep(y, f, k)]
           months == CHOOSE f : Is(f)
<1>1. Is(months)
  BY MonthStartExists
<1>2. DayNumber(d) = YearStart[d.year] + months[d.month] + d.day - 1
  BY DEF DayNumber, MonthStep, Month
<1> HIDE DEF months
<1>3. \A k \in Month : months[k] = First(y, k)
  BY <1>1, MonthStartIs
<1>4. YearStart[y] = January(y)
  BY YearStartIs
<1>5. Days(d) = January(y) + First(y, m) + x - 1
  BY DaysSum
<1> QED BY <1>2, <1>3, <1>4, <1>5

(* The day after has the next number, over the ends of months, of February *)
(* and of years.                                                           *)
LEMMA NextDayCounted ==
  ASSUME NEW y \in Year, y + 1 \in Year, NEW m \in Month, NEW x \in MonthDay,
         x <= DaysIn(y, m),
         NEW d, d = [year |-> y, month |-> m, day |-> x]
  PROVE  \E yy \in {y, y + 1}, mm \in Month, xx \in MonthDay :
           /\ NextDay(d) = [year |-> yy, month |-> mm, day |-> xx]
           /\ Days(NextDay(d)) = Days(d) + 1
<1>0. x \in Nat /\ 1 \in Month /\ 1 \in MonthDay /\ 1 \in Nat /\ m \in Nat /\ y \in Nat
  BY DEF Month, Year, MonthDay
<1>1. ASSUME NEW yy \in Year, NEW mm \in Month, NEW xx \in Nat,
             NEW e, e = [year |-> yy, month |-> mm, day |-> xx]
      PROVE  Days(e) = January(yy) + First(yy, mm) + xx - 1
  <2>1. e.year = yy /\ e.month = mm /\ e.day = xx
    BY <1>1
  <2>2. MonthDays[mm] \in Nat
    BY DEF MonthDays, Month
  <2> QED BY <2>1, <2>2 DEF Days, January, First, Year, Month
<1>2. Days(d) = January(y) + First(y, m) + x - 1
  BY <1>0, <1>1, Zenon
<1>3. d.year = y /\ d.month = m /\ d.day = x
  OBVIOUS
<1>4. January(y) \in Int /\ First(y, m) \in Nat /\ DaysIn(y, m) \in 28 .. 31
  BY CalendarType, Zenon
<1>5. CASE x < DaysIn(y, m)
  <2>1. NextDay(d) = [year |-> y, month |-> m, day |-> x + 1]
    <3>1. NextDay(d) = [d EXCEPT !.day = @ + 1]
      BY <1>3, <1>5 DEF NextDay
    <3> QED BY <3>1
  <2>2. x + 1 \in MonthDay /\ x + 1 \in Nat
    BY <1>4, <1>5 DEF MonthDay
  <2>3. Days(NextDay(d)) = January(y) + First(y, m) + (x + 1) - 1
    BY <1>1, <2>1, <2>2, Zenon
  <2>4. Days(NextDay(d)) = Days(d) + 1
    BY <1>0, <1>2, <1>4, <2>3
  <2> QED BY <2>1, <2>2, <2>4, Zenon
<1>6. CASE x = DaysIn(y, m) /\ m < 12
  <2>1. NextDay(d) = [year |-> y, month |-> m + 1, day |-> 1]
    <3>1. NextDay(d) = [d EXCEPT !.day = 1, !.month = @ + 1]
      BY <1>0, <1>3, <1>4, <1>6 DEF NextDay
    <3>2. DOMAIN d = {"year", "month", "day"}
      OBVIOUS
    <3> QED BY <1>3, <3>1, <3>2
  <2>2. m + 1 \in Month /\ m + 1 \in Month \ {1} /\ (m + 1) - 1 = m
    BY <1>6 DEF Month
  <2>3. Days(NextDay(d)) = January(y) + First(y, m + 1) + 1 - 1
    BY <1>0, <1>1, <2>1, <2>2, Zenon
  <2>4. First(y, m + 1) = First(y, m) + DaysIn(y, m)
    BY <2>2, FirstNext, Zenon
  <2>5. Days(NextDay(d)) = Days(d) + 1
    BY <1>2, <1>4, <1>6, <2>3, <2>4
  <2> QED BY <1>0, <2>1, <2>2, <2>5, Zenon
<1>7. CASE x = DaysIn(y, m) /\ m = 12
  <2>1. NextDay(d) = [year |-> y + 1, month |-> 1, day |-> 1]
    BY <1>0, <1>3, <1>4, <1>7 DEF NextDay
  <2>2. Days(NextDay(d)) = January(y + 1) + First(y + 1, 1) + 1 - 1
    BY <1>0, <1>1, <2>1, Zenon
  <2>3. January(y + 1) = January(y) + (IF LeapYear(y) THEN 366 ELSE 365)
    BY DEF January, LeapYear, Year
  <2>4. First(y, m) = (IF LeapYear(y) THEN 335 ELSE 334) /\ x = 31
    BY <1>7 DEF First, MonthDays, DaysIn
  <2>5. First(y + 1, 1) = 0
    BY FirstOne, Zenon
  <2>6. Days(NextDay(d)) = Days(d) + 1
    BY <1>2, <1>4, <2>2, <2>3, <2>4, <2>5
  <2> QED BY <1>0, <2>1, <2>6, Zenon
<1>8. x < DaysIn(y, m) \/ (x = DaysIn(y, m) /\ m < 12) \/ (x = DaysIn(y, m) /\ m = 12)
  <2>1. m < 12 \/ m = 12
    BY DEF Month
  <2>2. x < DaysIn(y, m) \/ x = DaysIn(y, m)
    BY <1>0, <1>4
  <2> QED BY <2>1, <2>2
<1> QED BY <1>5, <1>6, <1>7, <1>8

-----------------------------------------------------------------------------
(* What the module sends and the handlers read                             *)

Century == 2000 .. 2099
DaySecond == {s \in Nat : s < DayLength}

\* HHMMSS of a second of the day is read back as that second.
LEMMA ClockRead ==
  ASSUME NEW s \in DaySecond, NEW t, t = Clock(s)
  PROVE  /\ t \in Nat
         /\ (t \div 10000) % 256 = s \div 3600
         /\ (t \div 100) % 100 = (s \div 60) % 60
         /\ t % 100 = s % 60
         /\ s \div 3600 \in 0 .. 23 /\ (s \div 60) % 60 \in 0 .. 59 /\ s % 60 \in 0 .. 59
         /\ (s \div 3600) * 3600 + ((s \div 60) % 60) * 60 + (s % 60) = s
<1>0. s \in Nat /\ s < 86400
  BY DEF DaySecond, DayLength
<1>1. s \div 3600 \in 0 .. 23
  BY <1>0, SMT
<1>2. (s \div 60) % 60 \in 0 .. 59
  BY <1>0, SMT
<1>3. s % 60 \in 0 .. 59
  BY <1>0, SMT
<1> DEFINE h == s \div 3600
           m == (s \div 60) % 60
           x == s % 60
<1>4. t = h * 10000 + m * 100 + x
  BY DEF Clock
<1>5. h * 3600 + m * 60 + x = s
  BY <1>0, SMT
<1> HIDE DEF h, m, x
<1>6. /\ (t \div 10000) % 256 = h
      /\ (t \div 100) % 100 = m
      /\ t % 100 = x
      /\ t \in Nat
  <2>1. h \in 0 .. 23 /\ m \in 0 .. 59 /\ x \in 0 .. 59
    BY <1>1, <1>2, <1>3 DEF h, m, x
  <2> QED BY <1>4, <2>1, SMT
<1> QED BY <1>1, <1>2, <1>3, <1>5, <1>6 DEF h, m, x

\* DDMMYY of a day of this century is read back as that day.
LEMMA ShortRead ==
  ASSUME NEW y \in Century, NEW m \in Month, NEW x \in MonthDay,
         NEW d, d = [year |-> y, month |-> m, day |-> x], NEW t, t = Short(d)
  PROVE  /\ t \in Nat
         /\ (t \div 10000) % 256 = x
         /\ (t \div 100) % 100 = m
         /\ 2000 + (t % 100) = y
<1>1. t = x * 10000 + m * 100 + (y % 100)
  <2>1. d.year = y /\ d.month = m /\ d.day = x
    OBVIOUS
  <2> QED BY <2>1 DEF Short
<1> DEFINE z == y % 100
<1>2. z \in 0 .. 99 /\ 2000 + z = y
  BY DEF Century
<1>3. m \in 1 .. 12 /\ x \in 1 .. 31
  BY DEF Month, MonthDay
<1> HIDE DEF z
<1>4. t = x * 10000 + m * 100 + z
  BY <1>1 DEF z
<1>5. t \in Nat /\ (t \div 10000) % 256 = x /\ (t \div 100) % 100 = m /\ t % 100 = z
  BY <1>2, <1>3, <1>4, SMT
<1> QED BY <1>2, <1>5

(* The date of each second, and its number. *)
LEMMA DayAtCounted ==
  ASSUME NEW d \in Days0, NEW j \in 0 .. MaxSeconds
  PROVE  /\ SecondAt(j) \in DaySecond
         /\ \E y \in Century, m \in Month, x \in MonthDay :
              /\ DayAt(d, j) = [year |-> y, month |-> m, day |-> x]
              /\ (January(y) + First(y, m) + x - 1) * DayLength + SecondAt(j)
                   = (DayNumber(d) + 1) * DayLength - 1 + j
<1>1. /\ d.year \in Century /\ d.year \in Year /\ d.year + 1 \in Century /\ d.year + 1 \in Year
      /\ d.month \in Month /\ d.day \in MonthDay /\ d.day <= DaysIn(d.year, d.month)
      /\ d = [year |-> d.year, month |-> d.month, day |-> d.day]
  BY DriverAssumption, CalendarAssumption DEF Century, Year, Month, MonthDay
<1>2. PICK y \in Year : y = d.year
  BY <1>1
<1>3. PICK m \in Month, x \in MonthDay : m = d.month /\ x = d.day
  BY <1>1
<1>4. /\ y \in Century /\ y + 1 \in Century /\ y + 1 \in Year /\ x \in Nat
      /\ x <= DaysIn(y, m) /\ d = [year |-> y, month |-> m, day |-> x]
  <2>1. y \in Century /\ y + 1 \in Century /\ y + 1 \in Year /\ x <= DaysIn(y, m)
    BY <1>1, <1>2, <1>3, Zenon
  <2>2. x \in Nat
    BY DEF MonthDay
  <2>3. d = [year |-> y, month |-> m, day |-> x]
    BY <1>1, <1>2, <1>3, Zenon
  <2> QED BY <2>1, <2>2, <2>3
<1>5. DayNumber(d) = Days(d)
  BY <1>2, <1>3, <1>4, DaysCounted
<1>6. Days(d) = January(y) + First(y, m) + x - 1
  BY <1>2, <1>3, <1>4, DaysSum
<1>7. January(y) \in Int /\ First(y, m) \in Nat
  BY CalendarType, Zenon
<1>8. SecondAt(j) \in DaySecond
  <2>1. j \in Nat /\ j <= 86400
    <3>1. MaxSeconds \in 0 .. DayLength
      BY DriverAssumption
    <3> QED BY <3>1, SMT DEF DayLength
  <2> DEFINE k == SecondAt(j)
  <2>2. k \in Nat /\ k <= 86399
    BY <2>1, SMT DEF SecondAt, DayLength
  <2> HIDE DEF k
  <2>3. k \in DaySecond
    BY <2>2, SMT DEF DaySecond, DayLength
  <2> QED BY <2>3 DEF k
<1>9. CASE j = 0
  <2>1. DayAt(d, j) = [year |-> y, month |-> m, day |-> x]
    BY <1>4, <1>9 DEF DayAt
  <2>2. (January(y) + First(y, m) + x - 1) * DayLength + SecondAt(j)
          = (DayNumber(d) + 1) * DayLength - 1 + j
    BY <1>4, <1>5, <1>6, <1>7, <1>9, SMT DEF SecondAt, DayLength
  <2> QED BY <1>4, <1>8, <2>1, <2>2, Zenon
<1>10. CASE j # 0
  <2> DEFINE e == NextDay(d)
  <2>1. PICK yy \in {y, y + 1}, mm \in Month, xx \in MonthDay :
          e = [year |-> yy, month |-> mm, day |-> xx] /\ Days(e) = Days(d) + 1
    <3>1. \E yy \in {y, y + 1}, mm \in Month, xx \in MonthDay :
            /\ NextDay(d) = [year |-> yy, month |-> mm, day |-> xx]
            /\ Days(NextDay(d)) = Days(d) + 1
      BY <1>4, NextDayCounted
    <3> QED BY <3>1
  <2>2. DayAt(d, j) = e
    BY <1>10 DEF DayAt
  <2> HIDE DEF e
  <2>3. e.year = yy /\ e.month = mm /\ e.day = xx
    BY <2>1
  <2>4. yy \in Year /\ xx \in Nat /\ yy \in Century
    <3>1. yy = y \/ yy = y + 1
      OBVIOUS
    <3>2. xx \in Nat
      BY DEF MonthDay
    <3> QED BY <1>4, <3>1, <3>2, Zenon
  <2>5. Days(e) = January(yy) + First(yy, mm) + xx - 1
    BY <2>3, <2>4, DaysSum
  <2>6. January(yy) \in Int /\ First(yy, mm) \in Nat
    BY <2>4, CalendarType, Zenon
  <2>7. (January(yy) + First(yy, mm) + xx - 1) * DayLength + SecondAt(j)
          = (DayNumber(d) + 1) * DayLength - 1 + j
    <3>1. Days(e) = DayNumber(d) + 1
      BY <1>5, <2>1
    <3>2. DayNumber(d) \in Int
      BY <1>4, <1>5, <1>6, <1>7
    <3>3. SecondAt(j) = j - 1
      BY <1>10 DEF SecondAt
    <3>4. January(yy) + First(yy, mm) + xx - 1 = DayNumber(d) + 1
      BY <2>5, <3>1
    <3>5. j \in Int
      BY DriverAssumption
    <3> QED BY <3>2, <3>3, <3>4, <3>5, SMT DEF DayLength
  <2> QED BY <1>8, <2>1, <2>2, <2>4, <2>7, Zenon
<1> QED BY <1>9, <1>10

\* A time or a date in a sentence is that of second j after day d, if there is one.
OfSecond(s, d, j) ==
  /\ s.type = "GGA" => s.time \in {Empty, Clock(SecondAt(j))}
  /\ s.type = "RMC" => /\ s.time \in {Empty, Clock(SecondAt(j))}
                       /\ s.date \in {Empty, Short(DayAt(d, j))}
  /\ s.type = "ZDA" => /\ s.time \in {Empty, Clock(SecondAt(j))}
                       /\ s.day = DayAt(d, j).day /\ s.month = DayAt(d, j).month
                       /\ s.year = DayAt(d, j).year

\* A Unix time is none or that of a second up to the n-th.
Passed(e, d, n) == e # 0 => \E j \in 0 .. n : e = (DayNumber(d) + 1) * DayLength - 1 + j

HasDate(u, day) == u.year = day.year /\ u.month = day.month /\ u.day = day.day
HasTime(u, sec) ==
  u.hour = sec \div 3600 /\ u.minute = (sec \div 60) % 60 /\ u.second = sec % 60

\* The date and time of second j after day d.
Right(u, d, j) == HasDate(u, DayAt(d, j)) /\ HasTime(u, SecondAt(j))

\* A date is none or that of a second up to the n-th, a time of day 0 or that of
\* such a second, perhaps another one.
OwnDay(u, d, n) == u.year = 0 \/ \E j \in 0 .. n : HasDate(u, DayAt(d, j))
OwnTime(u, n) ==
  \/ u.hour = 0 /\ u.minute = 0 /\ u.second = 0
  \/ \E j \in 0 .. n : HasTime(u, SecondAt(j))

OfPast(v, d, n) == Passed(v.epoch, d, n) /\ OwnDay(v.utc, d, n) /\ OwnTime(v.utc, n)

(* The Unix time of a right date and time is that of its second. *)
LEMMA RightEpoch ==
  ASSUME NEW d \in Days0, NEW n \in 0 .. MaxSeconds, NEW j \in 0 .. n,
         NEW u, Right(u, d, j)
  PROVE  Passed(UtcToEpoch(u), d, n)
<1>0. j \in 0 .. MaxSeconds
  BY DriverAssumption
<1>1. SecondAt(j) \in DaySecond
  BY <1>0, DayAtCounted
<1>2. PICK y \in Century, m \in Month, x \in MonthDay :
        /\ DayAt(d, j) = [year |-> y, month |-> m, day |-> x]
        /\ (January(y) + First(y, m) + x - 1) * DayLength + SecondAt(j)
             = (DayNumber(d) + 1) * DayLength - 1 + j
  BY <1>0, DayAtCounted
<1>3. u.year = y /\ u.month = m /\ u.day = x
  BY <1>2 DEF Right, HasDate
<1>4. Days(u) = January(y) + First(y, m) + x - 1
  <2>1. y \in Year /\ x \in Nat
    BY DEF Century, Year, MonthDay
  <2> QED BY <1>3, <2>1, DaysSum
<1> DEFINE sec == SecondAt(j)
           h == sec \div 3600
           mi == (sec \div 60) % 60
           se == sec % 60
<1>5. h \in 0 .. 23 /\ mi \in 0 .. 59 /\ se \in 0 .. 59 /\ h * 3600 + mi * 60 + se = sec
  BY <1>1, ClockRead
<1>6. u.hour = h /\ u.minute = mi /\ u.second = se
  BY DEF Right, HasTime
<1>7. Days(u) \in Int /\ sec \in Nat
  <2>1. y \in Year /\ x \in Nat
    BY DEF Century, Year, MonthDay
  <2>2. January(y) \in Int /\ First(y, m) \in Nat
    BY <2>1, CalendarType, Zenon
  <2>3. January(y) + First(y, m) + x - 1 \in Int
    BY <2>1, <2>2
  <2> QED BY <1>1, <1>4, <2>3 DEF DaySecond
<1> HIDE DEF sec, h, mi, se
<1>8. Days(u) * DayLength + u.hour * 3600 + u.minute * 60 + u.second
        = (DayNumber(d) + 1) * DayLength - 1 + j
  <2>1. Days(u) * DayLength + u.hour * 3600 + u.minute * 60 + u.second = Days(u) * DayLength + sec
    BY <1>5, <1>6, <1>7 DEF DayLength
  <2> QED BY <1>2, <1>4, <2>1 DEF sec
<1>9. \/ UtcToEpoch(u) = 0
      \/ UtcToEpoch(u) = Days(u) * DayLength + u.hour * 3600 + u.minute * 60 + u.second
  BY DEF UtcToEpoch, DayLength
<1> QED BY <1>8, <1>9 DEF Passed

LEMMA RightTime ==
  ASSUME NEW v \in Utcs, NEW s \in DaySecond
  PROVE  WithTime(v, Clock(s)) = AtTime(v, s \div 3600, (s \div 60) % 60, s % 60)
<1> DEFINE t == Clock(s)
<1>1. /\ t \in Nat
      /\ (t \div 10000) % 256 = s \div 3600
      /\ (t \div 100) % 100 = (s \div 60) % 60
      /\ t % 100 = s % 60
      /\ s \div 3600 \in 0 .. 23 /\ (s \div 60) % 60 \in 0 .. 59 /\ s % 60 \in 0 .. 59
  BY ClockRead
<1> HIDE DEF t
<1>2. TimeOk(t)
  BY <1>1 DEF TimeOk, Empty
<1> QED BY <1>1, <1>2 DEF WithTime, t

LEMMA RightDate ==
  ASSUME NEW v, NEW y \in Century, NEW m \in Month, NEW x \in MonthDay,
         NEW d, d = [year |-> y, month |-> m, day |-> x]
  PROVE  WithDate(v, Short(d)) = OnDate(v, x, m, y)
<1> DEFINE t == Short(d)
<1>1. /\ t \in Nat
      /\ (t \div 10000) % 256 = x
      /\ (t \div 100) % 100 = m
      /\ 2000 + (t % 100) = y
  BY ShortRead
<1> HIDE DEF t
<1>2. DateOk(t)
  BY <1>1 DEF DateOk, Empty, Month, MonthDay
<1> QED BY <1>1, <1>2 DEF WithDate, t

\* A time and a date set one after the other.
LEMMA RightUtc ==
  ASSUME NEW v \in Utcs, NEW d \in Days0, NEW j \in 0 .. MaxSeconds,
         NEW day, day = DayAt(d, j), NEW sec, sec = SecondAt(j),
         NEW t, t = AtTime(v, sec \div 3600, (sec \div 60) % 60, sec % 60),
         NEW u, u = OnDate(t, day.day, day.month, day.year)
  PROVE  Right(u, d, j)
BY DEF Right, HasDate, HasTime, OnDate, AtTime, Utcs

-----------------------------------------------------------------------------
(* The second of a copy                                                    *)

LEMMA PastLater ==
  ASSUME NEW d, NEW n \in Nat, NEW k \in {n, n + 1}, NEW v, OfPast(v, d, n)
  PROVE  OfPast(v, d, k)
<1>1. ASSUME NEW j \in 0 .. n PROVE j \in 0 .. k
  OBVIOUS
<1>2. Passed(v.epoch, d, k)
  BY <1>1, Zenon DEF OfPast, Passed
<1>3. OwnDay(v.utc, d, k)
  BY <1>1, Zenon DEF OfPast, OwnDay
<1>4. OwnTime(v.utc, k)
  BY <1>1, Zenon DEF OfPast, OwnTime
<1> QED BY <1>2, <1>3, <1>4 DEF OfPast

\* Of nothing but the Unix time, the date and the time.
LEMMA PastSame ==
  ASSUME NEW d, NEW n, NEW v, OfPast(v, d, n), NEW w, w.epoch = v.epoch, w.utc = v.utc
  PROVE  OfPast(w, d, n)
BY DEF OfPast

LEMMA NoDataPast == \A d, n : OfPast(NoData, d, n)
BY DEF OfPast, Passed, OwnDay, OwnTime, NoData

\* What a change of some fields leaves of the Unix time.
LEMMA KeepsEpoch ==
  ASSUME NEW n \in Navs
  PROVE  /\ \A v : [n EXCEPT !.valid = v].epoch = n.epoch
         /\ \A v : [n EXCEPT !.utc = v].epoch = n.epoch
         /\ \A a, b : [n EXCEPT !.lat = a, !.lon = b].epoch = n.epoch
         /\ \A v, e : [n EXCEPT !.utc = v, !.epoch = e].epoch = e
         /\ \A v, e : [NoData EXCEPT !.valid = v, !.lat = e].epoch = 0
         /\ \A a, v, e : [n EXCEPT !.lon = a, !.utc = v, !.epoch = e].epoch = e
<1>1. \A v : [n EXCEPT !.valid = v].epoch = n.epoch
  BY DEF Navs
<1>2. \A v : [n EXCEPT !.utc = v].epoch = n.epoch
  BY DEF Navs
<1>3. \A a, b : [n EXCEPT !.lat = a, !.lon = b].epoch = n.epoch
  BY DEF Navs
<1>4. \A v, e : [n EXCEPT !.utc = v, !.epoch = e].epoch = e
  BY DEF Navs
<1>5. \A v, e : [NoData EXCEPT !.valid = v, !.lat = e].epoch = 0
  BY DEF NoData
<1>6. \A a, v, e : [n EXCEPT !.lon = a, !.utc = v, !.epoch = e].epoch = e
  BY DEF Navs
<1> QED BY <1>1, <1>2, <1>3, <1>4, <1>5, <1>6

\* The same for the date and the time of day.
LEMMA KeepsUtc ==
  ASSUME NEW n \in Navs
  PROVE  /\ \A v : [n EXCEPT !.valid = v].utc = n.utc
         /\ \A v : [n EXCEPT !.utc = v].utc = v
         /\ \A a, b : [n EXCEPT !.lat = a, !.lon = b].utc = n.utc
         /\ \A v, e : [n EXCEPT !.utc = v, !.epoch = e].utc = v
         /\ \A v, e : [NoData EXCEPT !.valid = v, !.lat = e].utc = NoData.utc
         /\ \A a, v, e : [n EXCEPT !.lon = a, !.utc = v, !.epoch = e].utc = v
<1>1. \A v : [n EXCEPT !.valid = v].utc = n.utc
  BY DEF Navs
<1>2. \A v : [n EXCEPT !.utc = v].utc = v
  BY DEF Navs
<1>3. \A a, b : [n EXCEPT !.lat = a, !.lon = b].utc = n.utc
  BY DEF Navs
<1>4. \A v, e : [n EXCEPT !.utc = v, !.epoch = e].utc = v
  BY DEF Navs
<1>5. \A v, e : [NoData EXCEPT !.valid = v, !.lat = e].utc = NoData.utc
  BY DEF NoData
<1>6. \A a, v, e : [n EXCEPT !.lon = a, !.utc = v, !.epoch = e].utc = v
  BY DEF Navs
<1> QED BY <1>1, <1>2, <1>3, <1>4, <1>5, <1>6

LEMMA PositionEpoch ==
  ASSUME NEW n \in Navs, NEW s
  PROVE  WithPosition(n, s).epoch = n.epoch /\ WithPosition(n, s).utc = n.utc
BY KeepsEpoch, KeepsUtc DEF WithPosition

\* A time of second j, or none, and its date, or none.
LEMMA TimeOwn ==
  ASSUME NEW d \in Days0, NEW n \in 0 .. MaxSeconds, NEW j \in 0 .. n,
         NEW u \in Utcs, OwnDay(u, d, n), OwnTime(u, n),
         NEW t \in {Empty, Clock(SecondAt(j))}
  PROVE  OwnDay(WithTime(u, t), d, n) /\ OwnTime(WithTime(u, t), n)
<1>1. CASE t = Empty
  BY <1>1 DEF WithTime, TimeOk
<1>2. CASE t = Clock(SecondAt(j))
  <2> DEFINE sec == SecondAt(j)
             w == WithTime(u, t)
  <2>1. j \in 0 .. MaxSeconds
    BY DriverAssumption
  <2>2. sec \in DaySecond
    BY <2>1, DayAtCounted
  <2>3. w = AtTime(u, sec \div 3600, (sec \div 60) % 60, sec % 60)
    BY <1>2, <2>2, RightTime
  <2> HIDE DEF w
  <2>4. HasTime(w, sec) /\ w.year = u.year /\ w.month = u.month /\ w.day = u.day
    BY <2>3 DEF AtTime, HasTime, Utcs
  <2>5. OwnTime(w, n)
    BY <2>4 DEF OwnTime
  <2>6. OwnDay(w, d, n)
    BY <2>4 DEF OwnDay, HasDate
  <2> QED BY <2>5, <2>6 DEF w
<1> QED BY <1>1, <1>2

LEMMA OnDateOwn ==
  ASSUME NEW d, NEW n, NEW j \in 0 .. n, NEW u \in Utcs, OwnTime(u, n),
         NEW w, w = OnDate(u, DayAt(d, j).day, DayAt(d, j).month, DayAt(d, j).year)
  PROVE  OwnDay(w, d, n) /\ OwnTime(w, n)
<1>1. HasDate(w, DayAt(d, j)) /\ w.hour = u.hour /\ w.minute = u.minute /\ w.second = u.second
  BY DEF OnDate, HasDate, Utcs
<1>2. OwnDay(w, d, n)
  BY <1>1 DEF OwnDay
<1>3. OwnTime(w, n)
  BY <1>1 DEF OwnTime, HasTime
<1> QED BY <1>2, <1>3

LEMMA DateOwn ==
  ASSUME NEW d \in Days0, NEW n \in 0 .. MaxSeconds, NEW j \in 0 .. n,
         NEW u \in Utcs, OwnDay(u, d, n), OwnTime(u, n),
         NEW t \in {Empty, Short(DayAt(d, j))}
  PROVE  OwnDay(WithDate(u, t), d, n) /\ OwnTime(WithDate(u, t), n)
<1>1. CASE t = Empty
  BY <1>1 DEF WithDate, DateOk
<1>2. CASE t = Short(DayAt(d, j))
  <2>1. j \in 0 .. MaxSeconds
    BY DriverAssumption
  <2>2. PICK y \in Century, m \in Month, x \in MonthDay :
          DayAt(d, j) = [year |-> y, month |-> m, day |-> x]
    BY <2>1, DayAtCounted
  <2>3. WithDate(u, t) = OnDate(u, x, m, y)
    BY <1>2, <2>2, RightDate
  <2>4. DayAt(d, j).day = x /\ DayAt(d, j).month = m /\ DayAt(d, j).year = y
    BY <2>2
  <2> QED BY <2>3, <2>4, OnDateOwn
<1> QED BY <1>1, <1>2

LEMMA GgaPassed ==
  ASSUME NEW n \in Navs, NEW s, s.time \in Int, Located(s)
  PROVE  ParseGga(n, s).epoch = n.epoch /\ ParseGga(n, s).utc = WithTime(n.utc, s.time)
<1> DEFINE utc == WithTime(n.utc, s.time)
           timed == [n EXCEPT !.utc = utc]
<1>1. timed \in Navs /\ timed.epoch = n.epoch /\ timed.utc = utc
  <2>1. utc \in Utcs
    BY NavFields, WithTimeType
  <2> HIDE DEF utc
  <2> QED BY <2>1, ChangeUtc, KeepsEpoch, KeepsUtc
<1>2. ParseGga(n, s) = IF s.fix /\ Placed(s)
                       THEN [WithPosition(timed, s) EXCEPT !.valid = TRUE]
                       ELSE [timed EXCEPT !.valid = FALSE]
  BY DEF ParseGga
<1> HIDE DEF timed, utc
<1>3. /\ WithPosition(timed, s) \in Navs /\ WithPosition(timed, s).epoch = n.epoch
      /\ WithPosition(timed, s).utc = utc
  BY <1>1, PositionOk, PositionEpoch
<1>4. /\ [WithPosition(timed, s) EXCEPT !.valid = TRUE].epoch = n.epoch
      /\ [WithPosition(timed, s) EXCEPT !.valid = TRUE].utc = utc
  BY <1>3, KeepsEpoch, KeepsUtc
<1>5. [timed EXCEPT !.valid = FALSE].epoch = n.epoch /\ [timed EXCEPT !.valid = FALSE].utc = utc
  BY <1>1, KeepsEpoch, KeepsUtc
<1>6. ParseGga(n, s).epoch = n.epoch /\ ParseGga(n, s).utc = utc
  BY <1>2, <1>4, <1>5
<1> QED BY <1>6 DEF utc

LEMMA RmcPassed ==
  ASSUME NEW d \in Days0, NEW n \in 0 .. MaxSeconds, NEW j \in 0 .. n,
         NEW v \in Navs, Passed(v.epoch, d, n),
         NEW s, s.type = "RMC", WellFormed(s), OfSecond(s, d, j)
  PROVE  /\ Passed(ParseRmc(v, s).epoch, d, n)
         /\ ParseRmc(v, s).utc = WithDate(WithTime(v.utc, s.time), s.date)
<1> DEFINE utc == WithDate(WithTime(v.utc, s.time), s.date)
           epoch == IF TimeOk(s.time) /\ DateOk(s.date) THEN UtcToEpoch(utc) ELSE v.epoch
           dated == [v EXCEPT !.utc = utc, !.epoch = epoch]
           placed == IF s.fix THEN WithPosition(dated, s) ELSE dated
<1>0. s.time \in Int /\ s.date \in Int /\ Located(s)
  BY DEF WellFormed
<1>1. utc \in Utcs
  BY <1>0, NavFields, WithTimeType, WithDateType
<1>2. epoch \in Nat
  BY <1>1, NavFields, EpochType
<1>3. ParseRmc(v, s) = [placed EXCEPT !.valid = s.fix]
  BY DEF ParseRmc
<1>4. Passed(epoch, d, n)
  <2>1. CASE ~(TimeOk(s.time) /\ DateOk(s.date))
    BY <2>1
  <2>2. CASE TimeOk(s.time) /\ DateOk(s.date)
    <3>1. s.time = Clock(SecondAt(j)) /\ s.date = Short(DayAt(d, j))
      BY <2>2 DEF OfSecond, TimeOk, DateOk
    <3>2. j \in 0 .. MaxSeconds
      BY DriverAssumption
    <3>3. SecondAt(j) \in DaySecond
      BY <3>2, DayAtCounted
    <3>4. PICK y \in Century, m \in Month, x \in MonthDay :
            DayAt(d, j) = [year |-> y, month |-> m, day |-> x]
      BY <3>2, DayAtCounted
    <3> DEFINE day == DayAt(d, j)
               sec == SecondAt(j)
               t == AtTime(v.utc, sec \div 3600, (sec \div 60) % 60, sec % 60)
    <3>5. WithTime(v.utc, s.time) = t
      BY <3>1, <3>3, NavFields, RightTime
    <3>6. WithDate(t, s.date) = OnDate(t, x, m, y)
      BY <3>1, <3>4, RightDate
    <3>7. day.year = y /\ day.month = m /\ day.day = x
      BY <3>4
    <3>8. utc = OnDate(t, day.day, day.month, day.year)
      BY <3>5, <3>6, <3>7
    <3> HIDE DEF utc
    <3>9. Right(utc, d, j)
      BY <3>2, <3>8, NavFields, RightUtc
    <3> QED BY <2>2, <3>9, RightEpoch
  <2> QED BY <2>1, <2>2
<1> HIDE DEF utc, epoch
<1>5. dated \in Navs /\ dated.epoch = epoch /\ dated.utc = utc
  <2>1. dated \in Navs
    BY <1>1, <1>2 DEF Navs
  <2> QED BY <2>1, KeepsEpoch, KeepsUtc
<1> HIDE DEF dated
<1>6. placed \in Navs /\ placed.epoch = epoch /\ placed.utc = utc
  BY <1>0, <1>5, PositionOk, PositionEpoch
<1> HIDE DEF placed
<1>7. Passed(ParseRmc(v, s).epoch, d, n) /\ ParseRmc(v, s).utc = utc
  BY <1>3, <1>4, <1>6, KeepsEpoch, KeepsUtc
<1> QED BY <1>7 DEF utc

LEMMA ZdaPassed ==
  ASSUME NEW d \in Days0, NEW n \in 0 .. MaxSeconds, NEW j \in 0 .. n,
         NEW v \in Navs, Passed(v.epoch, d, n),
         NEW s, s.type = "ZDA", OfSecond(s, d, j)
  PROVE  Passed(ParseZda(v, s).epoch, d, n)
<1> DEFINE utc == WithTime(v.utc, s.time)
           whole == OnDate(utc, s.day, s.month, s.year)
           dated == /\ TimeOk(s.time) /\ s.day \in 1 .. 31 /\ s.month \in 1 .. 12
                    /\ s.year >= 2020
<1>1. ParseZda(v, s) = IF dated THEN [v EXCEPT !.utc = whole, !.epoch = UtcToEpoch(whole)]
                       ELSE [v EXCEPT !.utc = utc]
  BY DEF ParseZda
<1>2. CASE dated
  <2>1. s.time = Clock(SecondAt(j))
    BY <1>2 DEF OfSecond, TimeOk
  <2>2. j \in 0 .. MaxSeconds
    BY DriverAssumption
  <2>3. SecondAt(j) \in DaySecond
    BY <2>2, DayAtCounted
  <2> DEFINE day == DayAt(d, j)
             sec == SecondAt(j)
             t == AtTime(v.utc, sec \div 3600, (sec \div 60) % 60, sec % 60)
  <2>4. utc = t
    BY <2>1, <2>3, NavFields, RightTime
  <2>5. whole = OnDate(t, day.day, day.month, day.year)
    BY <2>4 DEF OfSecond
  <2> HIDE DEF whole
  <2>6. Right(whole, d, j)
    BY <2>2, <2>5, NavFields, RightUtc
  <2>7. Passed(UtcToEpoch(whole), d, n)
    BY <2>6, RightEpoch
  <2>8. ParseZda(v, s).epoch = UtcToEpoch(whole)
    BY <1>1, <1>2, KeepsEpoch
  <2> QED BY <2>7, <2>8
<1>3. CASE ~dated
  <2> HIDE DEF utc, whole, dated
  <2>1. ParseZda(v, s).epoch = v.epoch
    BY <1>1, <1>3, KeepsEpoch
  <2> QED BY <2>1
<1> QED BY <1>2, <1>3

LEMMA ZdaOwn ==
  ASSUME NEW d \in Days0, NEW n \in 0 .. MaxSeconds, NEW j \in 0 .. n,
         NEW v \in Navs, OwnDay(v.utc, d, n), OwnTime(v.utc, n),
         NEW s, s.type = "ZDA", WellFormed(s), OfSecond(s, d, j)
  PROVE  OwnDay(ParseZda(v, s).utc, d, n) /\ OwnTime(ParseZda(v, s).utc, n)
<1> DEFINE utc == WithTime(v.utc, s.time)
           whole == OnDate(utc, s.day, s.month, s.year)
           dated == /\ TimeOk(s.time) /\ s.day \in 1 .. 31 /\ s.month \in 1 .. 12
                    /\ s.year >= 2020
<1>1. ParseZda(v, s) = IF dated THEN [v EXCEPT !.utc = whole, !.epoch = UtcToEpoch(whole)]
                       ELSE [v EXCEPT !.utc = utc]
  BY DEF ParseZda
<1>2. OwnDay(utc, d, n) /\ OwnTime(utc, n)
  BY NavFields, TimeOwn DEF OfSecond
<1>3. utc \in Utcs
  BY NavFields, WithTimeType DEF WellFormed
<1>4. whole = OnDate(utc, DayAt(d, j).day, DayAt(d, j).month, DayAt(d, j).year)
  BY DEF OfSecond
<1> HIDE DEF utc, whole, dated
<1>5. OwnDay(whole, d, n) /\ OwnTime(whole, n)
  BY <1>2, <1>3, <1>4, OnDateOwn
<1>6. ParseZda(v, s).utc = whole \/ ParseZda(v, s).utc = utc
  BY <1>1, KeepsUtc
<1> QED BY <1>2, <1>5, <1>6

(* A sentence of a second leaves in __nav_data the Unix time of that second  *)
(* or the one that was there, and so the date and the time of day, each by   *)
(* itself.                                                                   *)
LEMMA ParsePast ==
  ASSUME NEW d \in Days0, NEW n \in 0 .. MaxSeconds, NEW j \in 0 .. n,
         NEW v \in Navs, OfPast(v, d, n),
         NEW s, WellFormed(s), OfSecond(s, d, j)
  PROVE  OfPast(Parse(v, s), d, n)
<1>0. /\ Passed(v.epoch, d, n) /\ OwnDay(v.utc, d, n) /\ OwnTime(v.utc, n)
      /\ v.utc \in Utcs
  BY NavFields DEF OfPast
<1>1. CASE s.type = "GGA"
  <2>1. s.time \in Int /\ Located(s) /\ s.time \in {Empty, Clock(SecondAt(j))}
    BY <1>1 DEF WellFormed, OfSecond
  <2>2. OwnDay(WithTime(v.utc, s.time), d, n) /\ OwnTime(WithTime(v.utc, s.time), n)
    BY <1>0, <2>1, TimeOwn
  <2>3. Parse(v, s) = ParseGga(v, s)
    BY <1>1 DEF Parse
  <2>4. /\ ParseGga(v, s).epoch = v.epoch
        /\ ParseGga(v, s).utc = WithTime(v.utc, s.time)
    BY <2>1, GgaPassed
  <2> QED BY <1>0, <2>2, <2>3, <2>4 DEF OfPast
<1>2. CASE s.type = "RMC"
  <2> DEFINE timed == WithTime(v.utc, s.time)
  <2>1. /\ s.time \in Int /\ s.time \in {Empty, Clock(SecondAt(j))}
        /\ s.date \in {Empty, Short(DayAt(d, j))}
    BY <1>2 DEF WellFormed, OfSecond
  <2>2. OwnDay(timed, d, n) /\ OwnTime(timed, n) /\ timed \in Utcs
    BY <1>0, <2>1, TimeOwn, WithTimeType
  <2> HIDE DEF timed
  <2>3. OwnDay(WithDate(timed, s.date), d, n) /\ OwnTime(WithDate(timed, s.date), n)
    BY <2>1, <2>2, DateOwn
  <2>4. Parse(v, s) = ParseRmc(v, s)
    BY <1>2 DEF Parse
  <2>5. /\ Passed(ParseRmc(v, s).epoch, d, n)
        /\ ParseRmc(v, s).utc = WithDate(timed, s.date)
    BY <1>0, <1>2, RmcPassed DEF timed
  <2> QED BY <2>3, <2>4, <2>5 DEF OfPast
<1>3. CASE s.type = "ZDA"
  <2>1. Parse(v, s) = ParseZda(v, s)
    BY <1>3 DEF Parse
  <2>2. Passed(ParseZda(v, s).epoch, d, n)
    BY <1>0, <1>3, ZdaPassed
  <2>3. OwnDay(ParseZda(v, s).utc, d, n) /\ OwnTime(ParseZda(v, s).utc, n)
    BY <1>0, <1>3, ZdaOwn
  <2> QED BY <2>1, <2>2, <2>3 DEF OfPast
<1>4. CASE s.type \notin {"GGA", "RMC", "ZDA"}
  BY <1>4 DEF Parse
<1> QED BY <1>1, <1>2, <1>3, <1>4

\* The data and what is copied of them are of seconds that have come.
SecondInv == OfPast(nav, day0, now) /\ OfPast(copy, day0, now)

LEMMA SentencesOfSecond ==
  ASSUME NEW j, NEW s \in Sentences(j)
  PROVE  OfSecond(s, day0, j)
<1> DEFINE date == Date(j)
           times == {Empty, Time(j)}
           dates == {Empty, Short(date)}
           places == {Empty, j + 1}
<1>1. date = DayAt(day0, j) /\ Time(j) = Clock(SecondAt(j))
  BY DEF Date, Time, DayAt, SecondAt
<1> HIDE DEF date
<1>2. times = {Empty, Clock(SecondAt(j))} /\ dates = {Empty, Short(DayAt(day0, j))}
  BY <1>1
<1> HIDE DEF times, dates, places
<1>3. ASSUME NEW t \in times, NEW f \in BOOLEAN, NEW p \in places,
             s = [type |-> "GGA", time |-> t, fix |-> f, lat |-> p, lon |-> p]
      PROVE  OfSecond(s, day0, j)
  <2>1. s.type = "GGA" /\ s.time = t
    BY <1>3
  <2> QED BY <1>2, <2>1 DEF OfSecond
<1>4. ASSUME NEW t \in times, NEW d \in dates, NEW f \in BOOLEAN, NEW p \in places,
             s = [type |-> "RMC", time |-> t, date |-> d, fix |-> f, lat |-> p, lon |-> p]
      PROVE  OfSecond(s, day0, j)
  <2>1. s.type = "RMC" /\ s.time = t /\ s.date = d
    BY <1>4
  <2> QED BY <1>2, <2>1 DEF OfSecond
<1>5. ASSUME NEW t \in times,
             s = [type |-> "ZDA", time |-> t, day |-> date.day, month |-> date.month,
                  year |-> date.year]
      PROVE  OfSecond(s, day0, j)
  <2>1. /\ s.type = "ZDA" /\ s.time = t
        /\ s.day = date.day /\ s.month = date.month /\ s.year = date.year
    BY <1>5
  <2> QED BY <1>1, <1>2, <2>1 DEF OfSecond
<1>6. CASE s = [type |-> "other"]
  BY <1>6 DEF OfSecond
<1> QED BY <1>3, <1>4, <1>5, <1>6 DEF Sentences, date, times, dates, places

LEMMA SecondInit == Init => SecondInv
<1> SUFFICES ASSUME Init PROVE SecondInv
  OBVIOUS
<1>1. nav = NoData /\ copy = NoData
  BY Zenon DEF Init
<1> QED BY <1>1, NoDataPast DEF SecondInv

LEMMA SecondStep == DataInv /\ SecondInv /\ [Next]_vars => SecondInv'
<1> SUFFICES ASSUME DataInv, SecondInv, [Next]_vars PROVE SecondInv'
  OBVIOUS
<1>a. /\ day0 \in Days0 /\ now \in 0 .. MaxSeconds /\ now \in Nat
      /\ nav \in Navs /\ copy \in Navs
      /\ line = NoLine \/ line \in 0 .. now
      /\ OfPast(nav, day0, now) /\ OfPast(copy, day0, now)
  BY DriverAssumption DEF DataInv, SecondInv
\* What a step may do to the invariant.
<1>0. ASSUME day0' = day0, now' = now \/ now' = now + 1,
             nav' = nav \/ OfPast(nav', day0, now),
             copy' = copy \/ OfPast(copy', day0, now)
      PROVE  SecondInv'
  <2>1. now' \in {now, now + 1}
    BY <1>0
  <2>2. OfPast(nav', day0, now) /\ OfPast(copy', day0, now)
    BY <1>a, <1>0
  <2>3. OfPast(nav', day0, now') /\ OfPast(copy', day0, now')
    BY <1>a, <2>1, <2>2, PastLater, Zenon
  <2>4. OfPast(nav', day0', now') /\ OfPast(copy', day0', now')
    BY <1>0, <2>3
  <2>5. OfPast(nav, day0, now)' /\ OfPast(copy, day0, now)'
    BY <2>4 DEF OfPast, Passed, OwnDay, OwnTime
  <2> QED BY <2>5 DEF SecondInv
<1>1. CASE UNCHANGED vars
  BY <1>0, <1>1 DEF vars, world, reading
<1>2. CASE Manager
  <2>1. UNCHANGED <<day0, now, nav, copy>>
    BY <1>2, Zenon
       DEF Manager, InitBegins, InitPps, InitSlows, InitTunes, InitStarts, SetBaudrate, SpeedSent,
           SpeedSwitched, SaveConfig, CloseBegins, CloseIsr, CloseTimer, CloseUart, world, reading
  <2> QED BY <1>0, <2>1
<1>3. CASE Line \/ RxTakes \/ Wants \/ ModulePowerCycle
  <2>1. UNCHANGED <<day0, now, nav, copy>>
    BY <1>3, Zenon DEF Line, RxTakes, Wants, ModulePowerCycle, world, reading
  <2> QED BY <1>0, <2>1
<1>4. CASE RxParses
  <2>1. /\ UNCHANGED <<day0, now, copy>>
        /\ \/ nav' = nav
           \/ line # NoLine /\ \E s \in Sentences(line) : nav' = Parse(nav, s)
    BY <1>4 DEF RxParses, world, reading
  <2>2. CASE nav' = nav
    BY <1>0, <2>1, <2>2
  <2>3. CASE line # NoLine /\ \E s \in Sentences(line) : nav' = Parse(nav, s)
    <3>1. PICK s \in Sentences(line) : nav' = Parse(nav, s)
      BY <2>3
    <3>2. line \in 0 .. now /\ line \in Nat
      BY <1>a, <2>3
    <3>3. WellFormed(s) /\ OfSecond(s, day0, line)
      BY <1>a, <3>2, SentencesWellFormed, SentencesOfSecond
    <3>4. OfPast(Parse(nav, s), day0, now)
      BY <1>a, <3>2, <3>3, ParsePast
    <3> QED BY <1>0, <2>1, <3>1, <3>4
  <2> QED BY <2>1, <2>2, <2>3
<1>5. CASE Takes
  <2>1. /\ copy' = [NoData EXCEPT !.valid = nav.valid, !.lat = nav.lat]
        /\ UNCHANGED <<day0, now, nav>>
    BY <1>5, Zenon DEF Takes, world
  <2>2. copy'.epoch = NoData.epoch /\ copy'.utc = NoData.utc
    BY <2>1 DEF NoData
  <2>3. OfPast(copy', day0, now)
    BY <2>2, NoDataPast, PastSame
  <2> QED BY <1>0, <2>1, <2>3
<1>6. CASE Gives
  <2>1. /\ copy' = [copy EXCEPT !.lon = nav.lon, !.utc = nav.utc, !.epoch = nav.epoch]
        /\ UNCHANGED <<day0, now, nav>>
    BY <1>6, Zenon DEF Gives, world
  <2>2. copy'.epoch = nav.epoch /\ copy'.utc = nav.utc
    BY <1>a, <2>1, KeepsEpoch, KeepsUtc
  <2>3. OfPast(copy', day0, now)
    BY <1>a, <2>2, PastSame
  <2> QED BY <1>0, <2>1, <2>3
<1>7. CASE Returns \/ Killed
  <2>1. copy' = NoData /\ UNCHANGED <<day0, now, nav>>
    BY <1>7, Zenon DEF Returns, Killed, world
  <2> QED BY <1>0, <2>1, NoDataPast
<1>8. CASE SecondPasses
  <2>1. now' = now + 1 /\ UNCHANGED <<day0, nav, copy>>
    BY <1>8 DEF SecondPasses, reading
  <2> QED BY <1>0, <2>1
<1>9. CASE Restart
  <2>1. nav' = NoData /\ copy' = NoData /\ UNCHANGED <<day0, now>>
    BY <1>9, Zenon DEF Restart, world
  <2> QED BY <1>0, <2>1, NoDataPast
<1> QED BY <1>1, <1>2, <1>3, <1>4, <1>5, <1>6, <1>7, <1>8, <1>9 DEF Next, Reader

\* The numbers in which Snapshot says it.
LEMMA OwnRead ==
  ASSUME NEW u
  PROVE  /\ OwnDay(u, day0, now) =>
               \/ u.year = 0
               \/ \E j \in 0 .. now :
                    <<u.year, u.month, u.day>> = <<Date(j).year, Date(j).month, Date(j).day>>
         /\ OwnTime(u, now) =>
               u.hour * 10000 + u.minute * 100 + u.second
                 \in {0} \cup {Time(j) : j \in 0 .. now}
<1>1. ASSUME NEW j PROVE Date(j) = DayAt(day0, j) /\ Time(j) = Clock(SecondAt(j))
  BY DEF Date, Time, DayAt, SecondAt
<1>2. OwnDay(u, day0, now) =>
        \/ u.year = 0
        \/ \E j \in 0 .. now :
             <<u.year, u.month, u.day>> = <<Date(j).year, Date(j).month, Date(j).day>>
  BY <1>1 DEF OwnDay, HasDate
<1>3. ASSUME NEW j \in 0 .. now, HasTime(u, SecondAt(j))
      PROVE  u.hour * 10000 + u.minute * 100 + u.second = Time(j)
  <2> DEFINE sec == SecondAt(j)
  <2>1. u.hour = sec \div 3600 /\ u.minute = (sec \div 60) % 60 /\ u.second = sec % 60
    BY <1>3 DEF HasTime
  <2>2. Time(j) = (sec \div 3600) * 10000 + ((sec \div 60) % 60) * 100 + (sec % 60)
    BY <1>1 DEF Clock
  <2> HIDE DEF sec
  <2> QED BY <2>1, <2>2
<1>4. u.hour = 0 /\ u.minute = 0 /\ u.second = 0
        => u.hour * 10000 + u.minute * 100 + u.second = 0
  OBVIOUS
<1>5. OwnTime(u, now) =>
        u.hour * 10000 + u.minute * 100 + u.second \in {0} \cup {Time(j) : j \in 0 .. now}
  BY <1>3, <1>4 DEF OwnTime
<1> QED BY <1>2, <1>5

(* For every day of the years 2000 to 2037 and every second of the day after *)
(* it, whatever fields the module leaves out of its sentences: what          *)
(* atgm_get_data returns is not torn.  Latitude and longitude are of one     *)
(* fix, the Unix time is that of a second the module has been through, the   *)
(* date is that of such a second and so is the time of day.  That the date   *)
(* and the time are of the same second it does not say, a GGA or an RMC over *)
(* midnight joins them.                                                      *)
THEOREM SnapshotKept == Spec => []Snapshot
<1>1. DataInv /\ SecondInv => Snapshot
  <2> SUFFICES ASSUME DataInv, SecondInv PROVE Snapshot
    OBVIOUS
  <2>1. OneFix
    BY DEF DataInv
  <2>2. OneSecond
    BY DEF SecondInv, OfPast, Passed, OneSecond
  <2>3. OwnCalendar
    BY OwnRead DEF SecondInv, OfPast, OwnCalendar
  <2> QED BY <2>1, <2>2, <2>3 DEF Snapshot
<1> QED BY <1>1, DataInit, DataStep, SecondInit, SecondStep, PTL DEF Spec

-----------------------------------------------------------------------------
(* Types                                                                   *)

Places == {"idle", "pps", "slow", "speed", "switch", "speed only", "switch only", "tune", "start",
           "close isr", "close timer", "close uart"}

\* What is left of TypeOK.
RestInv ==
  /\ host \in Nat
  /\ hasMutex \in BOOLEAN /\ uart \in BOOLEAN /\ good \in BOOLEAN
  /\ mutex \in {"nobody", "rx", "reader"} /\ timer \in {"null", "live", "dangling"}
  /\ rx \in {"none", "waits", "parses", "holds"}
  /\ rpc \in {"idle", "wants", "copies", "copied"}
  /\ pc \in Places

LEMMA RestStep == RestInv /\ LinkInv /\ [Next]_vars => RestInv'
<1> SUFFICES ASSUME RestInv, LinkInv, [Next]_vars PROVE RestInv'
  OBVIOUS
<1> USE DEF RestInv
<1>1. CASE UNCHANGED vars
  <2>1. UNCHANGED <<host, hasMutex, uart, good, mutex, timer, rx, rpc, pc>>
    BY <1>1 DEF vars, ports, reading
  <2> QED BY <2>1
<1>2. ASSUME NEW cfg \in Configs, InitBegins(cfg)
      PROVE  RestInv'
  <2>1. host' \in Nat
    BY <1>2, DriverAssumption DEF InitBegins, DefaultSpeed
  <2>2. good' \in BOOLEAN
    <3>1. (chip \in Within(cfg)) \in BOOLEAN
      OBVIOUS
    <3>2. good' = (chip \in Within(cfg))
      BY <1>2 DEF InitBegins
    <3> HIDE DEF RestInv
    <3> QED BY <3>1, <3>2
  <2>3. /\ hasMutex' = TRUE /\ uart' = TRUE /\ pc' = "pps"
        /\ UNCHANGED <<mutex, timer, rx, rpc>>
    BY <1>2, Zenon DEF InitBegins, reading
  <2> QED BY <2>1, <2>2, <2>3 DEF Places
<1>3. CASE InitPps \/ InitSlows \/ InitTunes
  <2>1. UNCHANGED <<hasMutex, uart, good, mutex, rx, rpc>>
    BY <1>3, Zenon DEF InitPps, InitSlows, InitTunes, ports, reading
  <2>2. host' = host \/ host' = FactorySpeed
    BY <1>3, Zenon DEF InitPps, InitSlows, InitTunes, ports
  <2>3. timer' = timer \/ timer' = "live"
    BY <1>3, Zenon DEF InitPps, InitSlows, InitTunes, ports
  <2>4. pc' = "slow" \/ pc' = "tune" \/ pc' = "speed" \/ pc' = "start"
    BY <1>3, Zenon DEF InitPps, InitSlows, InitTunes
  <2>5. host' \in Nat /\ pc' \in Places
    <3> HIDE DEF RestInv
    <3>1. host \in Nat
      BY DEF RestInv
    <3>2. host' \in Nat
      BY <2>2, <3>1 DEF FactorySpeed
    <3>3. pc' \in Places
      BY <2>4 DEF Places
    <3> QED BY <3>2, <3>3
  <2>6. timer' \in {"null", "live", "dangling"}
    BY <2>3
  <2> QED BY <2>1, <2>5, <2>6
<1>4. CASE InitStarts
  <2>1. rx' \in {rx, "waits"} /\ pc' = "idle" /\ UNCHANGED <<host, hasMutex, uart, good, mutex, timer, rpc>>
    BY <1>4 DEF InitStarts, ports, reading
  <2> QED BY <2>1 DEF Places
<1>5. ASSUME NEW b \in Speeds, SetBaudrate(b)
      PROVE  RestInv'
  <2>1. pc' = "speed only" /\ UNCHANGED <<host, hasMutex, uart, good, mutex, timer, rx, rpc>>
    BY <1>5, Zenon DEF SetBaudrate, ports, reading
  <2> QED BY <2>1 DEF Places
<1>6. CASE SpeedSent \/ SaveConfig
  BY <1>6 DEF SpeedSent, SaveConfig, ports, reading, Places
<1>7. CASE SpeedSwitched
  <2>1. /\ host' = Supported(job.baud) /\ pc' = IF pc = "switch" THEN "tune" ELSE "idle"
        /\ UNCHANGED <<hasMutex, uart, good, mutex, timer, rx, rpc>>
    BY <1>7, Zenon DEF SpeedSwitched, reading
  <2>2. Supported(job.baud) \in Nat
    BY JobsAre, SupportedServed DEF LinkInv
  <2> QED BY <2>1, <2>2 DEF Places
<1>8. CASE CloseBegins \/ CloseIsr \/ CloseTimer \/ CloseUart
  BY <1>8 DEF CloseBegins, CloseIsr, CloseTimer, CloseUart, ports, reading, Places
<1>9. CASE Reader
  <2>1. UNCHANGED <<host, hasMutex, uart, good, timer, rx, pc>>
    BY <1>9, Zenon DEF Reader, Wants, Takes, Gives, Returns, Killed, ports
  <2>2. mutex' = mutex \/ mutex' = "nobody" \/ mutex' = "reader"
    BY <1>9, Zenon DEF Reader, Wants, Takes, Gives, Returns, Killed
  <2>3. rpc' = "idle" \/ rpc' = "wants" \/ rpc' = "copies" \/ rpc' = "copied"
    BY <1>9, Zenon DEF Reader, Wants, Takes, Gives, Returns, Killed
  <2> QED BY <2>1, <2>2, <2>3
<1>10. CASE Line
  BY <1>10 DEF Line, ports, reading
<1>11. CASE RxTakes \/ RxParses \/ SecondPasses
  BY <1>11 DEF RxTakes, RxParses, SecondPasses, ports, reading
<1>12. CASE ModulePowerCycle
  <2>1. good' = FALSE /\ UNCHANGED <<host, hasMutex, uart, mutex, timer, rx, rpc, pc>>
    BY <1>12, Zenon DEF ModulePowerCycle, ports, reading
  <2> QED BY <2>1
<1>13. CASE Restart
  <2>1. /\ host' = DefaultSpeed /\ hasMutex' = FALSE /\ uart' = FALSE /\ good' = FALSE
        /\ mutex' = "nobody" /\ timer' = "null" /\ rx' = "none" /\ rpc' = "idle" /\ pc' = "idle"
    BY <1>13, Zenon DEF Restart
  <2>2. host' \in Nat /\ pc' \in Places
    <3> HIDE DEF RestInv
    <3>1. host' \in Nat
      BY <2>1 DEF DefaultSpeed
    <3>2. pc' \in Places
      BY <2>1 DEF Places
    <3> QED BY <3>1, <3>2
  <2>3. hasMutex' \in BOOLEAN /\ uart' \in BOOLEAN /\ good' \in BOOLEAN
    BY <2>1
  <2>4. mutex' = "nobody" /\ timer' = "null" /\ rx' = "none" /\ rpc' = "idle"
    BY <2>1
  <2> QED BY <2>2, <2>3, <2>4
<1> QED BY <1>1, <1>2, <1>3, <1>4, <1>5, <1>6, <1>7, <1>8, <1>9, <1>10, <1>11, <1>12, <1>13
        DEF Next, Manager

(* Whatever numbers come in the sentences and however the driver is started, *)
(* set, closed and restarted, __nav_data has a time of day and a date in     *)
(* their ranges and every part of the driver is in one of its states.        *)
THEOREM TypeCorrect == Spec => []TypeOK
<1>1. Init => RestInv
  <2>1. Init => /\ host = DefaultSpeed /\ hasMutex = FALSE /\ uart = FALSE /\ good = FALSE
                /\ mutex = "nobody" /\ timer = "null" /\ rx = "none" /\ rpc = "idle" /\ pc = "idle"
    BY Zenon DEF Init
  <2>2. Init => host \in Nat /\ pc \in Places
    <3>1. Init => host \in Nat
      BY <2>1 DEF DefaultSpeed
    <3>2. Init => pc \in Places
      BY <2>1 DEF Places
    <3> QED BY <3>1, <3>2
  <2>3. Init => hasMutex \in BOOLEAN /\ uart \in BOOLEAN /\ good \in BOOLEAN
    BY <2>1
  <2>4. Init => mutex = "nobody" /\ timer = "null" /\ rx = "none" /\ rpc = "idle"
    BY <2>1
  <2> QED BY <2>2, <2>3, <2>4 DEF RestInv
<1>2. DataInv /\ LinkInv /\ RestInv => TypeOK
  <2> SUFFICES ASSUME DataInv, LinkInv, RestInv PROVE TypeOK
    OBVIOUS
  <2>1. nav.utc \in Utcs /\ nav.epoch \in Nat /\ nav.lat \in Nat /\ nav.lon \in Nat
    BY DEF DataInv, Navs
  <2>2. /\ nav.utc.day \in 0 .. 31 /\ nav.utc.month \in 0 .. 12
        /\ nav.utc.hour \in 0 .. 23 /\ nav.utc.minute \in 0 .. 59 /\ nav.utc.second \in 0 .. 60
    BY <2>1 DEF Utcs
  <2>3. chip \in Nat /\ saved \in Nat /\ isr \in BOOLEAN /\ tuned \in BOOLEAN /\ initialized \in BOOLEAN
    BY SupportedServed DEF LinkInv
  <2>4. day0 \in Days0 /\ now \in 0 .. MaxSeconds
    BY DEF DataInv
  <2> QED BY <2>1, <2>2, <2>3, <2>4 DEF TypeOK, RestInv, Places
<1> QED BY <1>1, <1>2, DataInit, DataStep, LinkInit, LinkStep, RestStep, PTL DEF Spec
===============================================================================
