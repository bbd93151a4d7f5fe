------------------------------ MODULE GnssDriver ------------------------------
(***************************************************************************)
(* The life of the driver src/src/drivers/atgm336h.c: what atgm_init sets  *)
(* up and atgm_close takes down, the task atgm_rx_task between the two,    *)
(* the speed that the two ends of the line have agreed on, and the copies  *)
(* that atgm_get_data makes under the mutex while sentences are parsed     *)
(* (NmeaData).                                                             *)
(*                                                                         *)
(* "manager" is a task like gps_manager_task that starts, sets and closes  *)
(* the driver, "reader" one that reads the data.  atgm_rx_task has         *)
(* priority 6; when RxAbove, the callers' is lower.  Reception is          *)
(* GnssReceiver, here a line is complete at once.                          *)
(*                                                                         *)
(* The GNSS module is external: it sends sentences about the current       *)
(* second with or without a time, a date and a position, it keeps its      *)
(* speed over a restart of the microcontroller and takes up the saved one  *)
(* when it loses power itself.                                             *)
(***************************************************************************)
EXTENDS NmeaData

CONSTANTS
  Days0,       \* days on whose last second the module may be switched on
  MaxSeconds,  \* bound: seconds that pass, of the next day
  Configs,     \* arguments of atgm_init
  Speeds,      \* arguments of atgm_set_baudrate
  KillPoints,  \* where the reader may be when it is killed
  RxAbove      \* atgm_rx_task has a higher priority than the callers

DayLength == 86400

\* baud 0, no led, no tuning and the PPS pin of config.h stand for a NULL
\* configuration too.  pps is FALSE when the pin is -1.
ASSUME DriverAssumption ==
  /\ MaxSeconds \in 0 .. DayLength /\ RxAbove \in BOOLEAN
  /\ Configs \subseteq [baud : Nat, led : BOOLEAN, tune : BOOLEAN, pps : BOOLEAN]
  /\ Speeds \subseteq Nat \ {0}
  /\ KillPoints \subseteq {"idle", "wants", "copies", "copied"}
  /\ Days0 \subseteq [year : 1970 .. 2037, month : 1 .. 12, day : 1 .. 31]

VARIABLES
  day0, now,     \* the day the module was switched on, seconds since its end
  chip, saved,   \* the module's speed, the one in its memory
  tuned,         \* the module has received mode and rate of the last atgm_init
  initialized,   \* __initialized
  hasMutex,      \* __data_mutex is not NULL
  mutex,         \* its holder: "nobody", "rx" or "reader"
  uart,          \* the UART driver and its queue exist
  host,          \* the speed of the UART
  timer,         \* __led_timer: "null", "live" or "dangling"
  isr,           \* atgm_pps_isr is installed
  nav,           \* __nav_data
  rx,            \* atgm_rx_task: "none", "waits", "parses", "holds"
  line,          \* the second of which its line tells, if any
  pc, job,       \* the manager, and the configuration it is working on
  rpc, copy,     \* the reader, and its atgm_data_t
  good           \* history: the last atgm_init could reach the module

world == <<day0, now, chip, saved>>
ports == <<uart, host, timer, isr>>
reading == <<rpc, copy>>
vars == <<world, tuned, initialized, hasMutex, mutex, ports, nav, rx, line, pc, job, reading, good>>

FactorySpeed == 9600
DefaultSpeed == 115200
NoLine == -1     \* none, or one that does not pass the checksum
NoJob == [baud |-> 0, led |-> FALSE, tune |-> FALSE, pps |-> FALSE]

-----------------------------------------------------------------------------
(* The calendar, for what the module sends                                 *)

DaysIn(y, m) == IF m = 2 THEN (IF LeapYear(y) THEN 29 ELSE 28)
                ELSE IF m \in {4, 6, 9, 11} THEN 30 ELSE 31

\* The day after.
NextDay(d) ==
  IF d.day < DaysIn(d.year, d.month) THEN [d EXCEPT !.day = @ + 1]
  ELSE IF d.month < 12 THEN [d EXCEPT !.day = 1, !.month = @ + 1]
  ELSE [year |-> d.year + 1, month |-> 1, day |-> 1]

\* The module sends two digits of the year, of this century.
ASSUME CalendarAssumption ==
  \A d \in Days0 : d.year >= 2000 /\ d.day <= DaysIn(d.year, d.month)

\* HHMMSS of a second of the day.
Clock(s) == (s \div 3600) * 10000 + ((s \div 60) % 60) * 100 + (s % 60)

\* The j-th second after that at which the module was switched on, 23:59:59.
Date(j) == IF j = 0 THEN day0 ELSE NextDay(day0)
Time(j) == Clock(IF j = 0 THEN DayLength - 1 ELSE j - 1)

\* DDMMYY
Short(d) == d.day * 10000 + d.month * 100 + (d.year % 100)

\* What the module may say of the j-th second.
Sentences(j) ==
  LET date == Date(j)
      times == {Empty, Time(j)}
      dates == {Empty, Short(date)}
      places == {Empty, j + 1}
  IN      {[type |-> "GGA", time |-> t, fix |-> f, lat |-> p, lon |-> p] :
             t \in times, f \in BOOLEAN, p \in places}
     \cup {[type |-> "RMC", time |-> t, date |-> d, fix |-> f, lat |-> p, lon |-> p] :
             t \in times, d \in dates, f \in BOOLEAN, p \in places}
     \cup {[type |-> "ZDA", time |-> t, day |-> date.day, month |-> date.month,
            year |-> date.year] : t \in times}
     \cup {[type |-> "other"]}

-----------------------------------------------------------------------------

Init ==
  /\ day0 \in Days0 /\ now = 0
  /\ chip = FactorySpeed /\ saved = FactorySpeed /\ tuned = FALSE
  /\ initialized = FALSE /\ hasMutex = FALSE /\ mutex = "nobody"
  /\ uart = FALSE /\ host = DefaultSpeed /\ timer = "null" /\ isr = FALSE
  /\ nav = NoData /\ rx = "none" /\ line = NoLine
  /\ pc = "idle" /\ job = NoJob /\ rpc = "idle" /\ copy = NoData
  /\ good = FALSE

\* Callers of lower priority run when atgm_rx_task cannot.
RxReady == rx = "holds" \/ (rx = "parses" /\ mutex = "nobody")
Runs == RxAbove => ~RxReady

-----------------------------------------------------------------------------
(* atgm_init                                                               *)

\* Speeds at which a module may be found for the configuration to reach it.
Within(cfg) == IF cfg.baud = 0 THEN {DefaultSpeed} ELSE {FactorySpeed, cfg.baud}

\* The mutex and the UART.  A driver already initialized is left as it is.
InitBegins(cfg) ==
  /\ pc = "idle" /\ Runs
  /\ ~initialized
  /\ hasMutex' = TRUE
  /\ host' = IF cfg.baud > 0 THEN cfg.baud ELSE DefaultSpeed
  /\ uart' = TRUE
  /\ initialized' = TRUE
  /\ tuned' = FALSE
  /\ good' = (chip \in Within(cfg))
  /\ job' = cfg
  /\ pc' = "pps"
  /\ UNCHANGED <<world, mutex, timer, isr, nav, rx, line, reading>>

\* The LED's timer, then the interrupt that uses it if there is a PPS pin.
InitPps ==
  /\ pc = "pps" /\ Runs
  /\ timer' = IF job.led /\ timer = "null" THEN "live" ELSE timer
  /\ isr' = (isr \/ job.pps)
  /\ pc' = IF job.baud > 0 /\ job.baud # FactorySpeed THEN "slow" ELSE "tune"
  /\ UNCHANGED <<world, tuned, initialized, hasMutex, mutex, uart, host, nav, rx, line, job, reading, good>>

\* The module is addressed at the speed it has after power-on.
InitSlows ==
  /\ pc = "slow" /\ Runs
  /\ host' = FactorySpeed
  /\ pc' = "speed"
  /\ UNCHANGED <<world, tuned, initialized, hasMutex, mutex, uart, timer, isr, nav, rx, line, job, reading, good>>

\* atgm_send_cmd: a command that the module can read.
Heard == initialized /\ host = chip

\* atgm_set_mode and atgm_set_update_rate, of which each has one command for
\* every argument.
SetsModeAndRate == tuned' = (tuned \/ Heard)

InitTunes ==
  /\ pc = "tune" /\ Runs
  /\ IF job.tune THEN SetsModeAndRate ELSE UNCHANGED tuned
  /\ pc' = "start"
  /\ UNCHANGED <<world, initialized, hasMutex, mutex, ports, nav, rx, line, job, reading, good>>

\* What has come so far is flushed and the task created.
InitStarts ==
  /\ pc = "start" /\ Runs
  /\ rx' = IF rx = "none" THEN "waits" ELSE rx
  /\ job' = [job EXCEPT !.baud = 0, !.led = FALSE]
  /\ pc' = "idle"
  /\ UNCHANGED <<world, tuned, initialized, hasMutex, mutex, ports, nav, line, reading, good>>

-----------------------------------------------------------------------------
(* Commands                                                                *)

\* The speed atgm_set_baudrate makes of its argument.
Supported(b) == IF b \in {4800, 9600, 19200, 38400, 57600, 115200} THEN b ELSE 115200

\* atgm_set_baudrate called by itself, in a job without the rest of the set-up.
SetBaudrate(b) ==
  /\ pc = "idle" /\ Runs
  /\ initialized
  /\ job' = [job EXCEPT !.baud = b]
  /\ pc' = "speed only"
  /\ UNCHANGED <<world, tuned, initialized, hasMutex, mutex, ports, nav, rx, line, reading, good>>

\* Its command, which the module obeys if it can read it.
SpeedSent ==
  /\ pc \in {"speed", "speed only"} /\ Runs
  /\ chip' = IF Heard THEN Supported(job.baud) ELSE chip
  /\ pc' = IF pc = "speed" THEN "switch" ELSE "switch only"
  /\ UNCHANGED <<day0, now, saved, tuned, initialized, hasMutex, mutex, ports, nav, rx, line, job, reading, good>>

\* Mutant: the UART is given the speed asked for, which the module may not have.
SpeedSwitchedAsked ==
  /\ pc \in {"switch", "switch only"} /\ Runs
  /\ host' = job.baud
  /\ job' = [job EXCEPT !.baud = 0]
  /\ pc' = IF pc = "switch" THEN "tune" ELSE "idle"
  /\ UNCHANGED <<world, tuned, initialized, hasMutex, mutex, uart, timer, isr, nav, rx, line, reading, good>>

\* The command is out; the UART follows.
SpeedSwitched ==
  /\ pc \in {"switch", "switch only"} /\ Runs
  /\ host' = Supported(job.baud)
  /\ job' = [job EXCEPT !.baud = 0]
  /\ pc' = IF pc = "switch" THEN "tune" ELSE "idle"
  /\ UNCHANGED <<world, tuned, initialized, hasMutex, mutex, uart, timer, isr, nav, rx, line, reading, good>>

\* atgm_save_config
SaveConfig ==
  /\ pc = "idle" /\ Runs
  /\ Heard
  /\ saved' = chip
  /\ UNCHANGED <<day0, now, chip, tuned, initialized, hasMutex, mutex, ports, nav, rx, line, pc, job, reading, good>>

-----------------------------------------------------------------------------
(* atgm_close                                                              *)

CloseBegins ==
  /\ pc = "idle" /\ Runs
  /\ initialized
  /\ rx' = "none"
  /\ line' = NoLine
  /\ job' = NoJob
  /\ good' = FALSE
  /\ pc' = "close isr"
  /\ UNCHANGED <<world, tuned, initialized, hasMutex, mutex, ports, nav, reading>>

\* Mutant: the interrupt that uses the timer is removed after it.
CloseIsrLater ==
  /\ pc = "close isr" /\ Runs
  /\ timer' = IF timer = "live" THEN "dangling" ELSE timer
  /\ pc' = "close timer"
  /\ UNCHANGED <<world, tuned, initialized, hasMutex, mutex, uart, host, isr, nav, rx, line, job, reading, good>>

CloseIsr ==
  /\ pc = "close isr" /\ Runs
  /\ isr' = FALSE
  /\ pc' = "close timer"
  /\ UNCHANGED <<world, tuned, initialized, hasMutex, mutex, uart, host, timer, nav, rx, line, job, reading, good>>

\* esp_timer_delete; the pointer is cleared with the next step.
CloseTimer ==
  /\ pc = "close timer" /\ Runs
  /\ timer' = IF timer = "live" THEN "dangling" ELSE timer
  /\ pc' = "close uart"
  /\ UNCHANGED <<world, tuned, initialized, hasMutex, mutex, uart, host, isr, nav, rx, line, job, reading, good>>

CloseUart ==
  /\ pc = "close uart" /\ Runs
  /\ timer' = "null"
  /\ uart' = FALSE
  /\ initialized' = FALSE
  /\ pc' = "idle"
  /\ UNCHANGED <<world, tuned, hasMutex, mutex, host, isr, nav, rx, line, job, reading, good>>

-----------------------------------------------------------------------------
(* atgm_rx_task and atgm_parse_line                                        *)

\* A line is complete.  What it says is chosen when it is parsed, nothing looks
\* at it before.  At different speeds it does not pass the checksum.
Line ==
  /\ rx = "waits"
  /\ line' = IF host = chip THEN now ELSE NoLine
  /\ rx' = "parses"
  /\ UNCHANGED <<world, tuned, initialized, hasMutex, mutex, ports, nav, pc, job, reading, good>>

RxTakes ==
  /\ rx = "parses" /\ mutex = "nobody"
  /\ mutex' = "rx"
  /\ rx' = "holds"
  /\ UNCHANGED <<world, tuned, initialized, hasMutex, ports, nav, line, pc, job, reading, good>>

RxParses ==
  /\ rx = "holds"
  /\ IF line = NoLine THEN UNCHANGED nav ELSE \E s \in Sentences(line) : nav' = Parse(nav, s)
  /\ line' = NoLine
  /\ mutex' = "nobody"
  /\ rx' = "waits"
  /\ UNCHANGED <<world, tuned, initialized, hasMutex, ports, pc, job, reading, good>>

-----------------------------------------------------------------------------
(* atgm_get_data                                                           *)

Wants ==
  /\ rpc = "idle" /\ Runs
  /\ hasMutex
  /\ rpc' = "wants"
  /\ UNCHANGED <<world, tuned, initialized, hasMutex, mutex, ports, nav, rx, line, pc, job, copy, good>>

\* memcpy copies the structure in two parts here: up to the latitude, and from
\* the longitude on.
Takes ==
  /\ rpc = "wants" /\ Runs
  /\ mutex = "nobody"
  /\ mutex' = "reader"
  /\ rpc' = "copies"
  /\ copy' = [NoData EXCEPT !.valid = nav.valid, !.lat = nav.lat]
  /\ UNCHANGED <<world, tuned, initialized, hasMutex, ports, nav, rx, line, pc, job, good>>

Gives ==
  /\ rpc = "copies" /\ Runs
  /\ copy' = [copy EXCEPT !.lon = nav.lon, !.utc = nav.utc, !.epoch = nav.epoch]
  /\ mutex' = IF mutex = "reader" THEN "nobody" ELSE mutex
  /\ rpc' = "copied"
  /\ UNCHANGED <<world, tuned, initialized, hasMutex, ports, nav, rx, line, pc, job, good>>

Returns ==
  /\ rpc = "copied" /\ Runs
  /\ copy' = NoData
  /\ rpc' = "idle"
  /\ UNCHANGED <<world, tuned, initialized, hasMutex, mutex, ports, nav, rx, line, pc, job, good>>

\* vTaskDelete of the reader, which is then created again.
Killed ==
  /\ rpc \in KillPoints
  /\ copy' = NoData
  /\ rpc' = "idle"
  /\ UNCHANGED <<world, tuned, initialized, hasMutex, mutex, ports, nav, rx, line, pc, job, good>>

-----------------------------------------------------------------------------
(* Environment                                                             *)

SecondPasses ==
  /\ now < MaxSeconds
  /\ now' = now + 1
  /\ UNCHANGED <<day0, chip, saved, tuned, initialized, hasMutex, mutex, ports, nav, rx, line, pc, job, reading, good>>

ModulePowerCycle ==
  /\ chip' = saved /\ tuned' = FALSE
  /\ good' = FALSE
  /\ UNCHANGED <<day0, now, saved, initialized, hasMutex, mutex, ports, nav, rx, line, pc, job, reading>>

Restart ==
  /\ initialized' = FALSE /\ hasMutex' = FALSE /\ mutex' = "nobody"
  /\ uart' = FALSE /\ host' = DefaultSpeed /\ timer' = "null" /\ isr' = FALSE
  /\ nav' = NoData /\ rx' = "none" /\ line' = NoLine
  /\ pc' = "idle" /\ job' = NoJob /\ rpc' = "idle" /\ copy' = NoData
  /\ good' = FALSE
  /\ UNCHANGED <<world, tuned>>

-----------------------------------------------------------------------------

Manager ==
  \/ \E cfg \in Configs : InitBegins(cfg)
  \/ InitPps \/ InitSlows \/ InitTunes \/ InitStarts
  \/ \E b \in Speeds : SetBaudrate(b)
  \/ SpeedSent \/ SpeedSwitched \/ SaveConfig
  \/ CloseBegins \/ CloseIsr \/ CloseTimer \/ CloseUart

Reader == Wants \/ Takes \/ Gives \/ Returns \/ Killed

Next ==
  \/ Manager \/ Reader
  \/ Line \/ RxTakes \/ RxParses
  \/ SecondPasses \/ ModulePowerCycle \/ Restart

Spec == Init /\ [][Next]_vars

-----------------------------------------------------------------------------
(* Properties                                                              *)

TypeOK ==
  /\ day0 \in Days0 /\ now \in 0 .. MaxSeconds
  /\ {chip, saved, host} \subseteq Nat
  /\ {tuned, initialized, hasMutex, uart, isr, good} \subseteq BOOLEAN
  /\ mutex \in {"nobody", "rx", "reader"} /\ timer \in {"null", "live", "dangling"}
  /\ rx \in {"none", "waits", "parses", "holds"}
  /\ rpc \in {"idle", "wants", "copies", "copied"}
  /\ nav.utc.day \in 0 .. 31 /\ nav.utc.month \in 0 .. 12
  /\ nav.utc.hour \in 0 .. 23 /\ nav.utc.minute \in 0 .. 59 /\ nav.utc.second \in 0 .. 60
  /\ {nav.epoch, nav.lat, nav.lon} \subseteq Nat
  /\ pc \in {"idle", "pps", "slow", "speed", "switch", "speed only", "switch only", "tune", "start",
             "close isr", "close timer", "close uart"}

(* Nothing is used that is not there, at whatever step of atgm_init or       *)
(* atgm_close an interrupt, a sentence or a reader comes: the mutex is held  *)
(* by a task that is going to give it back, the interrupt never finds the    *)
(* timer deleted, and the receiving task has its port and its mutex.         *)
UsesLive ==
  /\ mutex = "rx" <=> rx = "holds"
  /\ mutex = "reader" <=> rpc = "copies"
  /\ isr => timer # "dangling"
  /\ rx # "none" => uart /\ hasMutex

\* Days since 1970, counted one year and one month after the other.
YearStart[y \in 1970 .. 2100] ==
  IF y = 1970 THEN 0 ELSE YearStart[y - 1] + (IF LeapYear(y - 1) THEN 366 ELSE 365)

DayNumber(d) ==
  LET months[m \in 1 .. 12] == IF m = 1 THEN 0 ELSE months[m - 1] + DaysIn(d.year, m - 1)
  IN YearStart[d.year] + months[d.month] + d.day - 1

\* Latitude and longitude of a copy are of one fix, or both of none.
OneFix == rpc = "copied" => copy.lat = copy.lon

\* Its Unix time is that of a second the module has been through, not of one
\* day's date with another day's time.
OneSecond ==
  rpc = "copied" /\ copy.epoch # 0 =>
    \E j \in 0 .. now : copy.epoch = (DayNumber(day0) + 1) * DayLength - 1 + j

\* Its date is that of such a second, and so is its time of day, but perhaps of
\* another one: a sentence may have a time and no date, as GGA has, or the
\* opposite, and over midnight utc then joins them to what it had.
OwnCalendar ==
  rpc = "copied" =>
    /\ \/ copy.utc.year = 0
       \/ \E j \in 0 .. now :
            <<copy.utc.year, copy.utc.month, copy.utc.day>> = <<Date(j).year, Date(j).month, Date(j).day>>
    /\ copy.utc.hour * 10000 + copy.utc.minute * 100 + copy.utc.second
         \in {0} \cup {Time(j) : j \in 0 .. now}

(* What atgm_get_data returns is not torn, whatever the module leaves out of *)
(* its sentences and wherever the parser was meanwhile: position and Unix    *)
(* time are of one fix and one second each, the date and the time of day of  *)
(* utc only of one day and one second each.                                  *)
Snapshot == OneFix /\ OneSecond /\ OwnCalendar

(* Whatever speed the module kept from before, a driver whose atgm_init      *)
(* could reach it has the same speed as it, has set its mode and rate and is *)
(* receiving, pulses too if it was given a pin; changing the speed later     *)
(* does not break the line.                                                  *)
Linked ==
  good /\ initialized /\ pc = "idle" => host = chip /\ rx # "none" /\ (job.pps => isr) /\ (job.tune => tuned)
=============================================================================
