--------------------------------- MODULE Rtc ---------------------------------
(***************************************************************************)
(* The driver of the real-time clock, src/src/drivers/ds3231.c, called by  *)
(* several tasks, on an I2C port that it shares with the fuel gauge.       *)
(*                                                                         *)
(* The calls are sequences of register accesses (Script), one I2C transfer *)
(* each, between which other calls, alarms and restarts come.  A transfer  *)
(* may fail, and does without the port's driver: ds3231_init and bq_init   *)
(* install it, ds3231_close and bq_close delete it.                        *)
(*                                                                         *)
(* The DS3231 is external.  Its time does not advance here.  In its status *)
(* register OSF and A1F (which stands for A2F too) can only be cleared: a  *)
(* write of 1 leaves them as they are.                                     *)
(***************************************************************************)
EXTENDS Integers, Sequences

CONSTANTS
  Tasks,     \* callers
  Times,     \* arguments of ds3231_set_time
  Found      \* what the registers may hold at first, and the time that is

TimeRecords ==
  [seconds : Nat, minutes : Nat, hours : Nat, day : Nat, date : Nat, month : Nat, year : Nat]

ASSUME RtcAssumption ==
  /\ Times \subseteq TimeRecords
  /\ Found \subseteq [raw : [1 .. 7 -> 0 .. 255], is : TimeRecords]
  /\ \A f \in Found, r \in 1 .. 7 : f.raw[r] % 16 <= 9

VARIABLES
  time,          \* registers 0 to 6
  status, ctrl,  \* bits set in the registers 0x0F and 0x0E
  port,          \* the I2C driver is installed
  ready,         \* ds3231_init has returned 1
  op, at,        \* each task's call and its place in the script
  arg,           \* its argument: a time, or the configuration
  seen,          \* the register it read last
  meant,         \* history: the time last written
  kept,          \* history: the registers hold it and have counted since
  torn           \* history: a write of the time was cut short after the last whole one

chip == <<time, status, ctrl>>
calls == <<op, at, arg, seen>>
history == <<meant, kept, torn>>
vars == <<chip, port, ready, calls, history>>

StatusBits == {"OSF", "EN32KHZ", "A1F"}
CtrlBits == {"EOSC", "BBSQW", "INTCN"}
NoArg == [khz |-> FALSE, sqw |-> FALSE]

-----------------------------------------------------------------------------
(* Conversion                                                              *)

\* Mutant: the number is written as it is.
BcdNot(v) == v % 256

\* dec_to_bcd and bcd_to_dec, in eight bits.
Bcd(v) == ((v \div 10) * 16 + (v % 10)) % 256
Dec(b) == (b \div 16) * 10 + (b % 16)

\* The century bit is the highest of the month.
Encode(t) ==
  << Bcd(t.seconds % 60), Bcd(t.minutes % 60), Bcd(t.hours % 24),
     Bcd(IF t.day \in 1 .. 7 THEN t.day ELSE 1),
     Bcd(IF t.date \in 1 .. 31 THEN t.date ELSE 1),
     Bcd(IF t.month \in 1 .. 12 THEN t.month ELSE 1) + (IF t.year >= 2000 THEN 128 ELSE 0),
     Bcd(IF t.year >= 2000 THEN (t.year - 2000) % 256 ELSE t.year % 100) >>

\* Bit 6 of the hours is the 12-hour mode, bit 5 then PM.
Hours(b) ==
  IF (b \div 64) % 2 = 1
  THEN (IF Dec(b % 32) = 12 THEN 0 ELSE Dec(b % 32)) + (IF (b \div 32) % 2 = 1 THEN 12 ELSE 0)
  ELSE Dec(b % 64)

\* Mutant: the century bit is read with the month.
DecodeCentury(raw) ==
  [seconds |-> Dec(raw[1] % 128), minutes |-> Dec(raw[2] % 128), hours |-> Hours(raw[3]),
   day |-> Dec(raw[4] % 8), date |-> Dec(raw[5] % 64), month |-> Dec(raw[6]),
   year |-> 2000 + Dec(raw[7])]

\* ds3231_get_time
Decode(raw) ==
  [seconds |-> Dec(raw[1] % 128), minutes |-> Dec(raw[2] % 128), hours |-> Hours(raw[3]),
   day |-> Dec(raw[4] % 8), date |-> Dec(raw[5] % 64), month |-> Dec(raw[6] % 32),
   year |-> 2000 + Dec(raw[7])]

-----------------------------------------------------------------------------

Init ==
  /\ \E f \in Found : time = f.raw /\ meant = f.is
  /\ status \in SUBSET StatusBits /\ ctrl \in SUBSET {"EOSC", "INTCN"}
  /\ port = FALSE /\ ready = FALSE
  /\ op = [t \in Tasks |-> "none"] /\ at = [t \in Tasks |-> 1]
  /\ arg = [t \in Tasks |-> NoArg] /\ seen = [t \in Tasks |-> {}]
  /\ kept = ("OSF" \notin status) /\ torn = FALSE

Ops == {"init", "set", "clear", "sleep", "wakeup", "close"}

\* Mutant: the oscillator flag is cleared before the time is written.
ScriptFlagFirst ==
  [init   |-> <<"read status", "read ctrl", "write ctrl", "write status">>,
   set    |-> <<"read status", "write status", "write time">>,
   clear  |-> <<"read status", "write status">>,
   sleep  |-> <<"read status", "write status", "read ctrl", "write ctrl">>,
   wakeup |-> <<"read ctrl", "write ctrl">>,
   close  |-> <<"read status", "write status", "read ctrl", "write ctrl", "delete">>]

\* The transfers of each call.
Script ==
  [init   |-> <<"read status", "read ctrl", "write ctrl", "write status">>,
   set    |-> <<"write time", "read status", "write status">>,
   clear  |-> <<"read status", "write status">>,
   sleep  |-> <<"read status", "write status", "read ctrl", "write ctrl">>,
   wakeup |-> <<"read ctrl", "write ctrl">>,
   close  |-> <<"read status", "write status", "read ctrl", "write ctrl", "delete">>]

Does(t, step) == op[t] # "none" /\ Script[op[t]][at[t]] = step

\* The call goes on after n transfers, or returns.
GoesOn(t, n) ==
  IF at[t] + n <= Len(Script[op[t]])
  THEN at' = [at EXCEPT ![t] = @ + n] /\ UNCHANGED <<op, arg>>
  ELSE /\ at' = [at EXCEPT ![t] = 1] /\ op' = [op EXCEPT ![t] = "none"]
       /\ arg' = [arg EXCEPT ![t] = NoArg]

Returns(t) == GoesOn(t, Len(Script[op[t]]))

\* ds3231_write_bytes, ds3231_reg_write and ds3231_reg_read succeed or return
\* -1, which they always do without the port's driver.
Transfers(ok) == ok => port

-----------------------------------------------------------------------------
(* Calls                                                                   *)

Begins(t, o, a) ==
  /\ op[t] = "none"
  /\ op' = [op EXCEPT ![t] = o]
  /\ arg' = [arg EXCEPT ![t] = a]
  /\ UNCHANGED <<at, seen>>

\* ds3231_init installs the port's driver; the others come after it.
InitCall(t, cfg) ==
  /\ \A u \in Tasks : op[u] = "none"
  /\ Begins(t, "init", cfg)
  /\ port' = TRUE
  /\ ready' = FALSE
  /\ UNCHANGED <<chip, history>>

Call(t, o, a) ==
  /\ ready
  /\ Begins(t, o, a)
  /\ UNCHANGED <<chip, port, ready, history>>

\* ds3231_set_time's burst.  One that fails may have written some registers.
WriteTime(t, ok) ==
  /\ Does(t, "write time")
  /\ Transfers(ok)
  /\ IF ok
     THEN /\ time' = Encode(arg[t])
          /\ meant' = arg[t] /\ kept' = TRUE /\ torn' = FALSE
          /\ GoesOn(t, 1)
     ELSE /\ \/ UNCHANGED history
             \/ port /\ kept' = FALSE /\ torn' = TRUE /\ UNCHANGED meant
          /\ Returns(t)
          /\ UNCHANGED time
  /\ UNCHANGED <<status, ctrl, port, ready, seen>>

\* ds3231_reg_read.  When it fails, ds3231_init returns, the others leave out
\* the write that would follow.
Read(t, step, value, ok) ==
  /\ Does(t, step)
  /\ Transfers(ok)
  /\ seen' = [seen EXCEPT ![t] = IF ok THEN @ \cup value ELSE {}]
  /\ IF ok THEN GoesOn(t, 1) ELSE IF op[t] = "init" THEN Returns(t) ELSE GoesOn(t, 2)
  /\ UNCHANGED <<chip, port, ready, history>>

ReadStatus(t, ok) == Read(t, "read status", status, ok)
ReadCtrl(t, ok) == Read(t, "read ctrl", ctrl, ok)

\* Mutant: ds3231_init writes a status of its own.
NewStatusFresh(t) ==
  CASE op[t] = "init" -> (IF arg[t].khz THEN {"EN32KHZ"} ELSE {})
    [] op[t] = "set" -> seen[t] \ {"OSF"}
    [] op[t] = "clear" -> seen[t] \ {"A1F"}
    [] OTHER -> seen[t] \ {"EN32KHZ"}

\* What a call makes of the status, and of the control register, it has read.
NewStatus(t) ==
  CASE op[t] = "init" -> (seen[t] \ {"EN32KHZ"}) \cup (IF arg[t].khz THEN {"EN32KHZ"} ELSE {})
    [] op[t] = "set" -> seen[t] \ {"OSF"}
    [] op[t] = "clear" -> seen[t] \ {"A1F"}
    [] OTHER -> seen[t] \ {"EN32KHZ"}

NewCtrl(t) ==
  CASE op[t] = "init" -> (seen[t] \ {"EOSC", "INTCN"}) \cup (IF arg[t].sqw THEN {} ELSE {"INTCN"})
    [] op[t] = "wakeup" -> seen[t] \ {"EOSC"}
    [] OTHER -> (seen[t] \cup {"INTCN"}) \ {"BBSQW"}

\* ds3231_reg_write, whose result nobody looks at.
WriteStatus(t, ok) ==
  /\ Does(t, "write status")
  /\ Transfers(ok)
  /\ status' = IF ok THEN (status \cap NewStatus(t)) \cup (NewStatus(t) \cap {"EN32KHZ"})
               ELSE status
  /\ ready' = (ready \/ op[t] = "init")
  /\ seen' = [seen EXCEPT ![t] = {}]
  /\ GoesOn(t, 1)
  /\ UNCHANGED <<time, ctrl, port, history>>

WriteCtrl(t, ok) ==
  /\ Does(t, "write ctrl")
  /\ Transfers(ok)
  /\ ctrl' = IF ok THEN NewCtrl(t) \cap CtrlBits ELSE ctrl
  /\ seen' = [seen EXCEPT ![t] = IF op[t] = "init" THEN @ ELSE {}]
  /\ GoesOn(t, 1)
  /\ UNCHANGED <<time, status, port, ready, history>>

\* ds3231_close deletes the driver, also under calls that go on.
Delete(t) ==
  /\ Does(t, "delete")
  /\ port' = FALSE
  /\ ready' = FALSE
  /\ GoesOn(t, 1)
  /\ UNCHANGED <<chip, seen, history>>

-----------------------------------------------------------------------------
(* Environment                                                             *)

\* bq_init and bq_close
GaugeInit == port' = TRUE /\ UNCHANGED <<chip, ready, calls, history>>
GaugeClose == port' = FALSE /\ UNCHANGED <<chip, ready, calls, history>>

Alarm ==
  /\ status' = status \cup {"A1F"}
  /\ UNCHANGED <<time, ctrl, port, ready, calls, history>>

\* The microcontroller restarts, perhaps in the middle of a burst.
Restart ==
  /\ port' = FALSE /\ ready' = FALSE
  /\ op' = [t \in Tasks |-> "none"] /\ at' = [t \in Tasks |-> 1]
  /\ arg' = [t \in Tasks |-> NoArg] /\ seen' = [t \in Tasks |-> {}]
  /\ UNCHANGED <<time, ctrl, meant>>

RestartAlone ==
  /\ Restart
  /\ \/ UNCHANGED <<kept, torn>>
     \/ (\E t \in Tasks : Does(t, "write time")) /\ port /\ kept' = FALSE /\ torn' = TRUE
  /\ UNCHANGED status

\* Both lose power.  On its battery the clock goes on, unless EOSC is set or
\* the battery is empty.
Blackout(stops) ==
  /\ Restart
  /\ "EOSC" \in ctrl => stops
  /\ status' = IF stops THEN status \cup {"OSF", "EN32KHZ"} ELSE status
  /\ kept' = (kept /\ ~stops)
  /\ UNCHANGED torn

-----------------------------------------------------------------------------

Next ==
  \/ \E t \in Tasks :
       \/ \E khz, sqw \in BOOLEAN : InitCall(t, [khz |-> khz, sqw |-> sqw])
       \/ \E a \in Times : Call(t, "set", a)
       \/ \E o \in Ops \ {"init", "set"} : Call(t, o, NoArg)
       \/ \E ok \in BOOLEAN :
            \/ WriteTime(t, ok) \/ ReadStatus(t, ok) \/ ReadCtrl(t, ok)
            \/ WriteStatus(t, ok) \/ WriteCtrl(t, ok)
       \/ Delete(t)
  \/ GaugeInit \/ GaugeClose \/ Alarm
  \/ RestartAlone \/ \E stops \in BOOLEAN : Blackout(stops)

Spec == Init /\ [][Next]_vars

-----------------------------------------------------------------------------
(* Properties                                                              *)

\* Registers hold two decimal digits each, under the bits that go with them.
TypeOK ==
  /\ time \in [1 .. 7 -> 0 .. 255] /\ \A r \in 1 .. 7 : time[r] % 16 <= 9
  /\ status \subseteq StatusBits /\ ctrl \subseteq CtrlBits
  /\ {port, ready, kept, torn} \subseteq BOOLEAN
  /\ op \in [Tasks -> Ops \cup {"none"}]
  /\ at \in [Tasks -> Nat]
  /\ \A t \in Tasks : at[t] \in 1 .. (IF op[t] = "none" THEN 1 ELSE Len(Script[op[t]]))
  /\ seen \in [Tasks -> SUBSET (StatusBits \cup CtrlBits)]

\* What ds3231_time_t may say.
OnClock(t) ==
  /\ t.seconds \in 0 .. 59 /\ t.minutes \in 0 .. 59 /\ t.hours \in 0 .. 23
  /\ t.day \in 1 .. 7 /\ t.date \in 1 .. 31 /\ t.month \in 1 .. 12
InRange(t) == OnClock(t) /\ t.year \in 2000 .. 2099

\* Registers with the digits r say what they were meant to say.
Says(r, t) == OnClock(Decode(r)) /\ (InRange(t) => Decode(r) = t)

(* ds3231_get_time returns the time that was set, also in registers that     *)
(* another program left in 12-hour mode, and whatever ds3231_set_time was    *)
(* given, a time of day and a date in their ranges.                          *)
RoundTrip == kept => Says(time, meant)

\* ds3231_lost_power, when it can read the status; else it returns true.
LostPower == "OSF" \in status

(* When ds3231_lost_power says no, the registers hold the time last set and  *)
(* have counted since, at whatever step of ds3231_set_time the power went, a *)
(* transfer failed or another task came in, unless it was the burst that was *)
(* cut short.                                                                *)
OsfHonest == ~LostPower /\ ~torn => kept

(* An alarm is lost only to ds3231_clear_alarm_flags, or to a call that had  *)
(* read the status before the alarm came: no other call writes it away.      *)
AlarmSurvives ==
  [][ "A1F" \in status /\ "A1F" \notin status' =>
        \E t \in Tasks : Does(t, "write status") /\ (op[t] = "clear" \/ "A1F" \notin seen[t]) ]_vars
=============================================================================
