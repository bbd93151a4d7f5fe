------------------------------ MODULE RtcProofs ------------------------------
(***************************************************************************)
(* For any number of tasks, any times and any order of calls, failures,    *)
(* restarts and blackouts:                                                 *)
(*   - the conversions lose nothing;                                       *)
(*   - a time that ds3231_lost_power does not report lost is the one set;  *)
(*   - no call but ds3231_clear_alarm_flags writes away an alarm it read.  *)
(***************************************************************************)
EXTENDS Rtc, TLAPS

Digit == 0 .. 9

-----------------------------------------------------------------------------
(* Conversions                                                             *)

LEMMA BcdDigits ==
  ASSUME NEW v \in Nat
  PROVE  Bcd(v) \in 0 .. 255 /\ Bcd(v) % 16 <= 9
<1> DEFINE q == v \div 10
           d == v % 10
<1>1. q \in Nat /\ d \in Digit
  BY DEF Digit
<1>2. Bcd(v) = (q * 16 + d) % 256
  BY DEF Bcd
<1> HIDE DEF q, d
<1>3. (q * 16 + d) % 256 \in 0 .. 255 /\ ((q * 16 + d) % 256) % 16 = d
  BY <1>1 DEF Digit
<1> QED BY <1>1, <1>2, <1>3 DEF Digit

\* Two digits come back, under whatever bits are above them.
LEMMA BcdBack ==
  ASSUME NEW v \in 0 .. 99
  PROVE  /\ Dec(Bcd(v)) = v
         /\ v < 80 => Dec(Bcd(v) % 128) = v
         /\ v < 40 => Dec(Bcd(v) % 64) = v
         /\ v < 20 => Dec(Bcd(v) % 32) = v /\ Dec((Bcd(v) + 128) % 32) = v
         /\ v < 8 => Dec(Bcd(v) % 8) = v
         /\ v < 24 => (Bcd(v) \div 64) % 2 = 0
<1> DEFINE q == v \div 10
           d == v % 10
<1>1. q \in Digit /\ d \in Digit /\ v = q * 10 + d
  BY DEF Digit
<1>2. Bcd(v) = (q * 16 + d) % 256
  BY DEF Bcd
<1> HIDE DEF q, d
<1>3. Bcd(v) = q * 16 + d
  BY <1>1, <1>2 DEF Digit
<1>4. Dec(Bcd(v)) = v
  BY <1>1, <1>3 DEF Digit, Dec
<1>5. v < 80 => Bcd(v) % 128 = Bcd(v)
  BY <1>1, <1>3 DEF Digit
<1>6. v < 40 => Bcd(v) % 64 = Bcd(v)
  BY <1>1, <1>3 DEF Digit
<1>7. v < 20 => Bcd(v) % 32 = Bcd(v) /\ (Bcd(v) + 128) % 32 = Bcd(v)
  BY <1>1, <1>3 DEF Digit
<1>8. v < 8 => Bcd(v) % 8 = Bcd(v)
  BY <1>1, <1>3 DEF Digit
<1>9. v < 24 => (Bcd(v) \div 64) % 2 = 0
  BY <1>1, <1>3 DEF Digit
<1> QED BY <1>4, <1>5, <1>6, <1>7, <1>8, <1>9

\* The arguments of dec_to_bcd in ds3231_set_time.
SetDay(t) == IF t.day \in 1 .. 7 THEN t.day ELSE 1
SetDate(t) == IF t.date \in 1 .. 31 THEN t.date ELSE 1
SetMonth(t) == IF t.month \in 1 .. 12 THEN t.month ELSE 1
SetCentury(t) == IF t.year >= 2000 THEN 128 ELSE 0
SetYear(t) == IF t.year >= 2000 THEN (t.year - 2000) % 256 ELSE t.year % 100

LEMMA SetRanges ==
  ASSUME NEW t \in TimeRecords
  PROVE  /\ t.seconds % 60 \in 0 .. 59 /\ t.minutes % 60 \in 0 .. 59 /\ t.hours % 24 \in 0 .. 23
         /\ SetDay(t) \in 1 .. 7 /\ SetDate(t) \in 1 .. 31 /\ SetMonth(t) \in 1 .. 12
         /\ SetCentury(t) \in {0, 128} /\ SetYear(t) \in Nat
         /\ InRange(t) => /\ t.seconds % 60 = t.seconds /\ t.minutes % 60 = t.minutes
                          /\ t.hours % 24 = t.hours /\ SetDay(t) = t.day /\ SetDate(t) = t.date
                          /\ SetMonth(t) = t.month
                          /\ SetYear(t) = t.year - 2000 /\ SetYear(t) \in 0 .. 99
<1>1. /\ t.seconds \in Nat /\ t.minutes \in Nat /\ t.hours \in Nat /\ t.day \in Nat
      /\ t.date \in Nat /\ t.month \in Nat /\ t.year \in Nat
  BY DEF TimeRecords
<1>2. t.seconds % 60 \in 0 .. 59 /\ t.minutes % 60 \in 0 .. 59 /\ t.hours % 24 \in 0 .. 23
  BY <1>1
<1>3. /\ SetDay(t) \in 1 .. 7 /\ SetDate(t) \in 1 .. 31 /\ SetMonth(t) \in 1 .. 12
      /\ SetCentury(t) \in {0, 128} /\ SetYear(t) \in Nat
  BY <1>1 DEF SetDay, SetDate, SetMonth, SetCentury, SetYear
<1>4. InRange(t) => /\ t.seconds % 60 = t.seconds /\ t.minutes % 60 = t.minutes
                    /\ t.hours % 24 = t.hours
  BY <1>1 DEF InRange, OnClock
<1>5. InRange(t) => SetDay(t) = t.day /\ SetDate(t) = t.date /\ SetMonth(t) = t.month
  BY DEF InRange, OnClock, SetDay, SetDate, SetMonth
<1>6. InRange(t) => SetYear(t) = t.year - 2000 /\ SetYear(t) \in 0 .. 99
  BY <1>1 DEF InRange, SetYear
<1> QED BY <1>2, <1>3, <1>4, <1>5, <1>6

LEMMA EncodeIs ==
  ASSUME NEW t
  PROVE  Encode(t) = << Bcd(t.seconds % 60), Bcd(t.minutes % 60), Bcd(t.hours % 24), Bcd(SetDay(t)),
                        Bcd(SetDate(t)), Bcd(SetMonth(t)) + SetCentury(t), Bcd(SetYear(t)) >>
BY DEF Encode, SetDay, SetDate, SetMonth, SetCentury, SetYear

LEMMA EncodeType ==
  ASSUME NEW t \in TimeRecords
  PROVE  Encode(t) \in [1 .. 7 -> 0 .. 255] /\ \A r \in 1 .. 7 : Encode(t)[r] % 16 <= 9
<1> DEFINE a == Bcd(t.seconds % 60)
           b == Bcd(t.minutes % 60)
           c == Bcd(t.hours % 24)
           d == Bcd(SetDay(t))
           e == Bcd(SetDate(t))
           f == Bcd(SetMonth(t)) + SetCentury(t)
           g == Bcd(SetYear(t))
<1>1. Encode(t) = <<a, b, c, d, e, f, g>>
  BY EncodeIs
<1>2. /\ a \in 0 .. 255 /\ b \in 0 .. 255 /\ c \in 0 .. 255 /\ d \in 0 .. 255 /\ e \in 0 .. 255
      /\ g \in 0 .. 255
      /\ a % 16 <= 9 /\ b % 16 <= 9 /\ c % 16 <= 9 /\ d % 16 <= 9 /\ e % 16 <= 9 /\ g % 16 <= 9
  <2>1. /\ t.seconds % 60 \in Nat /\ t.minutes % 60 \in Nat /\ t.hours % 24 \in Nat
        /\ SetDay(t) \in Nat /\ SetDate(t) \in Nat /\ SetYear(t) \in Nat
    BY SetRanges
  <2>2. a \in 0 .. 255 /\ a % 16 <= 9
    BY <2>1, BcdDigits
  <2>3. b \in 0 .. 255 /\ b % 16 <= 9
    BY <2>1, BcdDigits
  <2>4. c \in 0 .. 255 /\ c % 16 <= 9
    BY <2>1, BcdDigits
  <2>5. d \in 0 .. 255 /\ d % 16 <= 9
    BY <2>1, BcdDigits
  <2>6. e \in 0 .. 255 /\ e % 16 <= 9
    BY <2>1, BcdDigits
  <2>7. g \in 0 .. 255 /\ g % 16 <= 9
    BY <2>1, BcdDigits
  <2> HIDE DEF a, b, c, d, e, g
  <2> QED BY <2>2, <2>3, <2>4, <2>5, <2>6, <2>7
<1>3. f \in 0 .. 255 /\ f % 16 <= 9
  <2>1. ASSUME NEW m \in 1 .. 12 PROVE Bcd(m) \in 0 .. 18 /\ Bcd(m) % 16 <= 9
    BY DEF Bcd
  <2>2. ASSUME NEW x \in 0 .. 18, x % 16 <= 9, NEW y \in {0, 128}
        PROVE  x + y \in 0 .. 255 /\ (x + y) % 16 <= 9
    BY <2>2
  <2> QED BY <2>1, <2>2, SetRanges
<1> HIDE DEF a, b, c, d, e, f, g
<1> QED BY <1>1, <1>2, <1>3

\* What ds3231_get_time makes of the registers that ds3231_set_time wrote.
LEMMA EncodeSays ==
  ASSUME NEW t \in TimeRecords
  PROVE  Says(Encode(t), t)
<1> DEFINE e == Encode(t)
           n == Dec(e[7])
<1>1. /\ e[1] = Bcd(t.seconds % 60) /\ e[2] = Bcd(t.minutes % 60) /\ e[3] = Bcd(t.hours % 24)
      /\ e[4] = Bcd(SetDay(t)) /\ e[5] = Bcd(SetDate(t))
      /\ e[6] = Bcd(SetMonth(t)) + SetCentury(t) /\ e[7] = Bcd(SetYear(t))
  BY EncodeIs
<1> HIDE DEF e
<1>2. Dec(e[1] % 128) = t.seconds % 60 /\ t.seconds % 60 \in 0 .. 59
  BY <1>1, SetRanges, BcdBack
<1>3. Dec(e[2] % 128) = t.minutes % 60 /\ t.minutes % 60 \in 0 .. 59
  BY <1>1, SetRanges, BcdBack
<1>4. Hours(e[3]) = t.hours % 24 /\ t.hours % 24 \in 0 .. 23
  <2>1. t.hours % 24 \in 0 .. 99 /\ t.hours % 24 < 24 /\ t.hours % 24 < 40
    BY SetRanges
  <2>2. (e[3] \div 64) % 2 = 0 /\ Dec(e[3] % 64) = t.hours % 24
    BY <1>1, <2>1, BcdBack
  <2> QED BY <2>2, SetRanges DEF Hours
<1>5. Dec(e[4] % 8) = SetDay(t) /\ SetDay(t) \in 1 .. 7
  BY <1>1, SetRanges, BcdBack
<1>6. Dec(e[5] % 64) = SetDate(t) /\ SetDate(t) \in 1 .. 31
  BY <1>1, SetRanges, BcdBack
<1>7. Dec(e[6] % 32) = SetMonth(t) /\ SetMonth(t) \in 1 .. 12
  <2>1. SetMonth(t) \in 0 .. 99 /\ SetMonth(t) < 20 /\ SetCentury(t) \in {0, 128}
    BY SetRanges
  <2>2. Bcd(SetMonth(t)) \in 0 .. 255
    BY <2>1, BcdDigits
  <2>3. CASE SetCentury(t) = 0
    BY <1>1, <2>1, <2>2, <2>3, BcdBack, SetRanges
  <2>4. CASE SetCentury(t) = 128
    BY <1>1, <2>1, <2>4, BcdBack, SetRanges
  <2> QED BY <2>1, <2>3, <2>4
<1>8. SetYear(t) \in 0 .. 99 => n = SetYear(t)
  BY <1>1, BcdBack
<1> DEFINE r == [seconds |-> t.seconds % 60, minutes |-> t.minutes % 60, hours |-> t.hours % 24,
                 day |-> SetDay(t), date |-> SetDate(t), month |-> SetMonth(t), year |-> 2000 + n]
<1>9. Decode(e) = r
  BY <1>2, <1>3, <1>4, <1>5, <1>6, <1>7 DEF Decode
<1>10. OnClock(r)
  BY <1>2, <1>3, <1>4, <1>5, <1>6, <1>7 DEF OnClock
<1>11. ASSUME InRange(t) PROVE r = t
  <2> HIDE DEF n
  <2>1. /\ t.seconds % 60 = t.seconds /\ t.minutes % 60 = t.minutes /\ t.hours % 24 = t.hours
        /\ SetDay(t) = t.day /\ SetDate(t) = t.date /\ SetMonth(t) = t.month
        /\ SetYear(t) = t.year - 2000 /\ SetYear(t) \in 0 .. 99
    BY <1>11, SetRanges
  <2>2. t.year \in Nat
    BY DEF TimeRecords
  <2>3. 2000 + n = t.year
    BY <1>8, <2>1, <2>2
  <2>4. t = [seconds |-> t.seconds, minutes |-> t.minutes, hours |-> t.hours, day |-> t.day,
             date |-> t.date, month |-> t.month, year |-> t.year]
    BY DEF TimeRecords
  <2> QED BY <2>1, <2>3, <2>4
<1> QED BY <1>9, <1>10, <1>11 DEF Says, e

-----------------------------------------------------------------------------
(* Calls                                                                   *)

LEMMA Upto ==
  ASSUME NEW x
  PROVE  /\ x \in 1 .. 2 => x = 1 \/ x = 2
         /\ x \in 1 .. 3 => x = 1 \/ x = 2 \/ x = 3
         /\ x \in 1 .. 4 => x = 1 \/ x = 2 \/ x = 3 \/ x = 4
         /\ x \in 1 .. 5 => x = 1 \/ x = 2 \/ x = 3 \/ x = 4 \/ x = 5
OBVIOUS

LEMMA ScriptInit ==
  /\ Len(Script["init"]) = 4
  /\ Script["init"][1] = "read status"
  /\ Script["init"][2] = "read ctrl"
  /\ Script["init"][3] = "write ctrl"
  /\ Script["init"][4] = "write status"
<1> DEFINE s == <<"read status", "read ctrl", "write ctrl", "write status">>
<1>1. Script["init"] = s
  BY DEF Script
<1>2. Len(s) = 4 /\ s[1] = "read status" /\ s[2] = "read ctrl" /\ s[3] = "write ctrl" /\ s[4] = "write status"
  OBVIOUS
<1> HIDE DEF s
<1> QED BY <1>1, <1>2, Zenon

LEMMA ScriptSet ==
  /\ Len(Script["set"]) = 3
  /\ Script["set"][1] = "write time"
  /\ Script["set"][2] = "read status"
  /\ Script["set"][3] = "write status"
<1> DEFINE s == <<"write time", "read status", "write status">>
<1>1. Script["set"] = s
  BY DEF Script
<1>2. Len(s) = 3 /\ s[1] = "write time" /\ s[2] = "read status" /\ s[3] = "write status"
  OBVIOUS
<1> HIDE DEF s
<1> QED BY <1>1, <1>2, Zenon

LEMMA ScriptClear ==
  /\ Len(Script["clear"]) = 2
  /\ Script["clear"][1] = "read status"
  /\ Script["clear"][2] = "write status"
<1> DEFINE s == <<"read status", "write status">>
<1>1. Script["clear"] = s
  BY DEF Script
<1>2. Len(s) = 2 /\ s[1] = "read status" /\ s[2] = "write status"
  OBVIOUS
<1> HIDE DEF s
<1> QED BY <1>1, <1>2, Zenon

LEMMA ScriptSleep ==
  /\ Len(Script["sleep"]) = 4
  /\ Script["sleep"][1] = "read status"
  /\ Script["sleep"][2] = "write status"
  /\ Script["sleep"][3] = "read ctrl"
  /\ Script["sleep"][4] = "write ctrl"
<1> DEFINE s == <<"read status", "write status", "read ctrl", "write ctrl">>
<1>1. Script["sleep"] = s
  BY DEF Script
<1>2. Len(s) = 4 /\ s[1] = "read status" /\ s[2] = "write status" /\ s[3] = "read ctrl" /\ s[4] = "write ctrl"
  OBVIOUS
<1> HIDE DEF s
<1> QED BY <1>1, <1>2, Zenon

LEMMA ScriptWakeup ==
  /\ Len(Script["wakeup"]) = 2
  /\ Script["wakeup"][1] = "read ctrl"
  /\ Script["wakeup"][2] = "write ctrl"
<1> DEFINE s == <<"read ctrl", "write ctrl">>
<1>1. Script["wakeup"] = s
  BY DEF Script
<1>2. Len(s) = 2 /\ s[1] = "read ctrl" /\ s[2] = "write ctrl"
  OBVIOUS
<1> HIDE DEF s
<1> QED BY <1>1, <1>2, Zenon

LEMMA ScriptClose ==
  /\ Len(Script["close"]) = 5
  /\ Script["close"][1] = "read status"
  /\ Script["close"][2] = "write status"
  /\ Script["close"][3] = "read ctrl"
  /\ Script["close"][4] = "write ctrl"
  /\ Script["close"][5] = "delete"
<1> DEFINE s == <<"read status", "write status", "read ctrl", "write ctrl", "delete">>
<1>1. Script["close"] = s
  BY DEF Script
<1>2. Len(s) = 5 /\ s[1] = "read status" /\ s[2] = "write status" /\ s[3] = "read ctrl" /\ s[4] = "write ctrl" /\ s[5] = "delete"
  OBVIOUS
<1> HIDE DEF s
<1> QED BY <1>1, <1>2, Zenon

LEMMA Lengths == \A o \in Ops : Len(Script[o]) \in 2 .. 5
<1>1. ASSUME NEW o \in Ops
      PROVE  \E n \in {2, 3, 4, 5} : Len(Script[o]) = n
  BY ScriptInit, ScriptSet, ScriptClear, ScriptSleep, ScriptWakeup, ScriptClose, Zenon DEF Ops
<1> QED BY <1>1

\* Where a call is when it makes each transfer.
LEMMA Places ==
  ASSUME NEW t \in Tasks, op[t] \in Ops, at[t] \in 1 .. Len(Script[op[t]]),
         NEW step, Does(t, step)
  PROVE  \/ op[t] = "set" /\ at[t] = 1 /\ step = "write time"
         \/ op[t] = "init" /\ at[t] = 1 /\ step = "read status"
         \/ op[t] = "set" /\ at[t] = 2 /\ step = "read status"
         \/ op[t] = "clear" /\ at[t] = 1 /\ step = "read status"
         \/ op[t] = "sleep" /\ at[t] = 1 /\ step = "read status"
         \/ op[t] = "close" /\ at[t] = 1 /\ step = "read status"
         \/ op[t] = "init" /\ at[t] = 2 /\ step = "read ctrl"
         \/ op[t] = "sleep" /\ at[t] = 3 /\ step = "read ctrl"
         \/ op[t] = "wakeup" /\ at[t] = 1 /\ step = "read ctrl"
         \/ op[t] = "close" /\ at[t] = 3 /\ step = "read ctrl"
         \/ op[t] = "init" /\ at[t] = 3 /\ step = "write ctrl"
         \/ op[t] = "sleep" /\ at[t] = 4 /\ step = "write ctrl"
         \/ op[t] = "wakeup" /\ at[t] = 2 /\ step = "write ctrl"
         \/ op[t] = "close" /\ at[t] = 4 /\ step = "write ctrl"
         \/ op[t] = "init" /\ at[t] = 4 /\ step = "write status"
         \/ op[t] = "set" /\ at[t] = 3 /\ step = "write status"
         \/ op[t] = "clear" /\ at[t] = 2 /\ step = "write status"
         \/ op[t] = "sleep" /\ at[t] = 2 /\ step = "write status"
         \/ op[t] = "close" /\ at[t] = 2 /\ step = "write status"
         \/ op[t] = "close" /\ at[t] = 5 /\ step = "delete"
<1>0. step = Script[op[t]][at[t]]
  BY DEF Does
<1>1. CASE op[t] = "init"
  <2>1. at[t] = 1 \/ at[t] = 2 \/ at[t] = 3 \/ at[t] = 4
    BY <1>1, ScriptInit, Upto, Zenon
  <2>2. step = Script["init"][at[t]]
    BY <1>0, <1>1, Zenon
  <2> QED BY <1>1, <2>1, <2>2, ScriptInit, Zenon
<1>2. CASE op[t] = "set"
  <2>1. at[t] = 1 \/ at[t] = 2 \/ at[t] = 3
    BY <1>2, ScriptSet, Upto, Zenon
  <2>2. step = Script["set"][at[t]]
    BY <1>0, <1>2, Zenon
  <2> QED BY <1>2, <2>1, <2>2, ScriptSet, Zenon
<1>3. CASE op[t] = "clear"
  <2>1. at[t] = 1 \/ at[t] = 2
    BY <1>3, ScriptClear, Upto, Zenon
  <2>2. step = Script["clear"][at[t]]
    BY <1>0, <1>3, Zenon
  <2> QED BY <1>3, <2>1, <2>2, ScriptClear, Zenon
<1>4. CASE op[t] = "sleep"
  <2>1. at[t] = 1 \/ at[t] = 2 \/ at[t] = 3 \/ at[t] = 4
    BY <1>4, ScriptSleep, Upto, Zenon
  <2>2. step = Script["sleep"][at[t]]
    BY <1>0, <1>4, Zenon
  <2> QED BY <1>4, <2>1, <2>2, ScriptSleep, Zenon
<1>5. CASE op[t] = "wakeup"
  <2>1. at[t] = 1 \/ at[t] = 2
    BY <1>5, ScriptWakeup, Upto, Zenon
  <2>2. step = Script["wakeup"][at[t]]
    BY <1>0, <1>5, Zenon
  <2> QED BY <1>5, <2>1, <2>2, ScriptWakeup, Zenon
<1>6. CASE op[t] = "close"
  <2>1. at[t] = 1 \/ at[t] = 2 \/ at[t] = 3 \/ at[t] = 4 \/ at[t] = 5
    BY <1>6, ScriptClose, Upto, Zenon
  <2>2. step = Script["close"][at[t]]
    BY <1>0, <1>6, Zenon
  <2> QED BY <1>6, <2>1, <2>2, ScriptClose, Zenon
<1> QED BY <1>1, <1>2, <1>3, <1>4, <1>5, <1>6, Zenon DEF Ops

\* The same, transfer by transfer.
LEMMA Where ==
  ASSUME NEW t \in Tasks, op[t] \in Ops, at[t] \in 1 .. Len(Script[op[t]])
  PROVE  /\ Does(t, "write time") =>
             op[t] = "set" /\ at[t] = 1
         /\ Does(t, "read status") =>
             \/ op[t] = "set" /\ at[t] = 2
             \/ op[t] \in {"init", "clear", "sleep", "close"} /\ at[t] = 1
         /\ Does(t, "read ctrl") =>
             \/ op[t] = "init" /\ at[t] = 2
             \/ op[t] = "wakeup" /\ at[t] = 1
             \/ op[t] \in {"sleep", "close"} /\ at[t] = 3
         /\ Does(t, "write ctrl") =>
             \/ op[t] = "init" /\ at[t] = 3
             \/ op[t] = "wakeup" /\ at[t] = 2
             \/ op[t] \in {"sleep", "close"} /\ at[t] = 4
         /\ Does(t, "write status") =>
             \/ op[t] = "set" /\ at[t] = 3
             \/ op[t] = "init" /\ at[t] = 4
             \/ op[t] \in {"clear", "sleep", "close"} /\ at[t] = 2
         /\ Does(t, "delete") =>
             op[t] = "close" /\ at[t] = 5
<1>1. ASSUME Does(t, "write time")
      PROVE  op[t] = "set" /\ at[t] = 1
  <2> DEFINE s == "write time"
  <2>1. Does(t, s)
    BY <1>1
  <2>2. s = "write time"
    OBVIOUS
  <2> HIDE DEF s
  <2>3. \/ op[t] = "set" /\ at[t] = 1 /\ s = "write time"
        \/ s \in {"read status", "read ctrl", "write ctrl", "write status", "delete"}
    BY <2>1, Places, Zenon
  <2> QED BY <2>2, <2>3
<1>2. ASSUME Does(t, "read status")
      PROVE  \/ op[t] = "set" /\ at[t] = 2
             \/ op[t] \in {"init", "clear", "sleep", "close"} /\ at[t] = 1
  <2> DEFINE s == "read status"
  <2>1. Does(t, s)
    BY <1>2
  <2>2. s = "read status"
    OBVIOUS
  <2> HIDE DEF s
  <2>3. \/ op[t] = "init" /\ at[t] = 1 /\ s = "read status"
        \/ op[t] = "set" /\ at[t] = 2 /\ s = "read status"
        \/ op[t] = "clear" /\ at[t] = 1 /\ s = "read status"
        \/ op[t] = "sleep" /\ at[t] = 1 /\ s = "read status"
        \/ op[t] = "close" /\ at[t] = 1 /\ s = "read status"
        \/ s \in {"write time", "read ctrl", "write ctrl", "write status", "delete"}
    BY <2>1, Places, Zenon
  <2> QED BY <2>2, <2>3
<1>3. ASSUME Does(t, "read ctrl")
      PROVE  \/ op[t] = "init" /\ at[t] = 2
             \/ op[t] = "wakeup" /\ at[t] = 1
             \/ op[t] \in {"sleep", "close"} /\ at[t] = 3
  <2> DEFINE s == "read ctrl"
  <2>1. Does(t, s)
    BY <1>3
  <2>2. s = "read ctrl"
    OBVIOUS
  <2> HIDE DEF s
  <2>3. \/ op[t] = "init" /\ at[t] = 2 /\ s = "read ctrl"
        \/ op[t] = "sleep" /\ at[t] = 3 /\ s = "read ctrl"
        \/ op[t] = "wakeup" /\ at[t] = 1 /\ s = "read ctrl"
        \/ op[t] = "close" /\ at[t] = 3 /\ s = "read ctrl"
        \/ s \in {"write time", "read status", "write ctrl", "write status", "delete"}
    BY <2>1, Places, Zenon
  <2> QED BY <2>2, <2>3
<1>4. ASSUME Does(t, "write ctrl")
      PROVE  \/ op[t] = "init" /\ at[t] = 3
             \/ op[t] = "wakeup" /\ at[t] = 2
             \/ op[t] \in {"sleep", "close"} /\ at[t] = 4
  <2> DEFINE s == "write ctrl"
  <2>1. Does(t, s)
    BY <1>4
  <2>2. s = "write ctrl"
    OBVIOUS
  <2> HIDE DEF s
  <2>3. \/ op[t] = "init" /\ at[t] = 3 /\ s = "write ctrl"
        \/ op[t] = "sleep" /\ at[t] = 4 /\ s = "write ctrl"
        \/ op[t] = "wakeup" /\ at[t] = 2 /\ s = "write ctrl"
        \/ op[t] = "close" /\ at[t] = 4 /\ s = "write ctrl"
        \/ s \in {"write time", "read status", "read ctrl", "write status", "delete"}
    BY <2>1, Places, Zenon
  <2> QED BY <2>2, <2>3
<1>5. ASSUME Does(t, "write status")
      PROVE  \/ op[t] = "set" /\ at[t] = 3
             \/ op[t] = "init" /\ at[t] = 4
             \/ op[t] \in {"clear", "sleep", "close"} /\ at[t] = 2
  <2> DEFINE s == "write status"
  <2>1. Does(t, s)
    BY <1>5
  <2>2. s = "write status"
    OBVIOUS
  <2> HIDE DEF s
  <2>3. \/ op[t] = "init" /\ at[t] = 4 /\ s = "write status"
        \/ op[t] = "set" /\ at[t] = 3 /\ s = "write status"
        \/ op[t] = "clear" /\ at[t] = 2 /\ s = "write status"
        \/ op[t] = "sleep" /\ at[t] = 2 /\ s = "write status"
        \/ op[t] = "close" /\ at[t] = 2 /\ s = "write status"
        \/ s \in {"write time", "read status", "read ctrl", "write ctrl", "delete"}
    BY <2>1, Places, Zenon
  <2> QED BY <2>2, <2>3
<1>6. ASSUME Does(t, "delete")
      PROVE  op[t] = "close" /\ at[t] = 5
  <2> DEFINE s == "delete"
  <2>1. Does(t, s)
    BY <1>6
  <2>2. s = "delete"
    OBVIOUS
  <2> HIDE DEF s
  <2>3. \/ op[t] = "close" /\ at[t] = 5 /\ s = "delete"
        \/ s \in {"write time", "read status", "read ctrl", "write ctrl", "write status"}
    BY <2>1, Places, Zenon
  <2> QED BY <2>2, <2>3
<1> QED BY <1>1, <1>2, <1>3, <1>4, <1>5, <1>6

Arg(t) == op[t] = "set" => arg[t] \in Times
TypeInv == TypeOK /\ DOMAIN arg = Tasks /\ \A t \in Tasks : Arg(t)

\* A call that goes on is n transfers further or has returned, and the others
\* are where they were.
LEMMA GoingOn ==
  ASSUME TypeInv, NEW t \in Tasks, op[t] # "none", NEW n \in 1 .. 5, GoesOn(t, n)
  PROVE  /\ op' \in [Tasks -> Ops \cup {"none"}] /\ at' \in [Tasks -> Nat]
         /\ \A u \in Tasks : at'[u] \in 1 .. (IF op'[u] = "none" THEN 1 ELSE Len(Script[op'[u]]))
         /\ DOMAIN arg' = Tasks /\ \A u \in Tasks : Arg(u)'
         /\ \A u \in Tasks \ {t} : op'[u] = op[u] /\ at'[u] = at[u]
         /\ \/ op'[t] = op[t] /\ at'[t] = at[t] + n /\ at[t] + n <= Len(Script[op[t]])
            \/ op'[t] = "none" /\ at'[t] = 1 /\ at[t] + n > Len(Script[op[t]])
<1>1. /\ op \in [Tasks -> Ops \cup {"none"}] /\ at \in [Tasks -> Nat] /\ op[t] \in Ops
      /\ \A u \in Tasks : at[u] \in 1 .. (IF op[u] = "none" THEN 1 ELSE Len(Script[op[u]]))
      /\ DOMAIN arg = Tasks /\ \A u \in Tasks : Arg(u)
  BY DEF TypeInv, TypeOK
<1>2. Len(Script[op[t]]) \in 2 .. 5
  BY <1>1, Lengths
<1>3. CASE at[t] + n <= Len(Script[op[t]])
  <2>1. at' = [at EXCEPT ![t] = @ + n] /\ op' = op /\ arg' = arg
    BY <1>3 DEF GoesOn
  <2>2. at'[t] = at[t] + n /\ at' \in [Tasks -> Nat] /\ \A u \in Tasks \ {t} : at'[u] = at[u]
    BY <1>1, <2>1
  <2>3. at'[t] \in 1 .. Len(Script[op[t]])
    BY <1>1, <1>2, <1>3, <2>2
  <2> QED BY <1>1, <1>3, <2>1, <2>2, <2>3 DEF Arg
<1>4. CASE ~(at[t] + n <= Len(Script[op[t]]))
  <2>1. /\ at' = [at EXCEPT ![t] = 1] /\ op' = [op EXCEPT ![t] = "none"]
        /\ arg' = [arg EXCEPT ![t] = NoArg]
    BY <1>4 DEF GoesOn
  <2>2. at'[t] = 1 /\ at' \in [Tasks -> Nat] /\ \A u \in Tasks \ {t} : at'[u] = at[u]
    BY <1>1, <2>1
  <2>3. /\ op'[t] = "none" /\ op' \in [Tasks -> Ops \cup {"none"}]
        /\ \A u \in Tasks \ {t} : op'[u] = op[u]
    BY <1>1, <2>1
  <2>4. DOMAIN arg' = Tasks /\ \A u \in Tasks \ {t} : arg'[u] = arg[u]
    BY <1>1, <2>1
  <2>5. at[t] + n > Len(Script[op[t]])
    BY <1>1, <1>2, <1>4
  <2> QED BY <1>1, <2>2, <2>3, <2>4, <2>5 DEF Arg
<1> QED BY <1>3, <1>4

LEMMA TypeInit == Init => TypeInv
<1> SUFFICES ASSUME Init PROVE TypeInv
  OBVIOUS
<1>1. time \in [1 .. 7 -> 0 .. 255] /\ \A r \in 1 .. 7 : time[r] % 16 <= 9
  <2>1. PICK f \in Found : time = f.raw
    BY DEF Init
  <2> QED BY <2>1, RtcAssumption
<1>2. /\ status \subseteq StatusBits /\ ctrl \subseteq CtrlBits
      /\ {port, ready, kept, torn} \subseteq BOOLEAN
  BY DEF Init, StatusBits, CtrlBits
<1>3. /\ op \in [Tasks -> Ops \cup {"none"}] /\ at \in [Tasks -> Nat]
      /\ \A t \in Tasks : op[t] = "none" /\ at[t] = 1 /\ seen[t] = {}
      /\ seen \in [Tasks -> SUBSET (StatusBits \cup CtrlBits)]
      /\ DOMAIN arg = Tasks
  BY DEF Init
<1> QED BY <1>1, <1>2, <1>3 DEF TypeInv, TypeOK, Arg

\* The types of the calls, and those of the rest.
CallsOK ==
  /\ op \in [Tasks -> Ops \cup {"none"}] /\ at \in [Tasks -> Nat]
  /\ \A t \in Tasks : at[t] \in 1 .. (IF op[t] = "none" THEN 1 ELSE Len(Script[op[t]]))
  /\ DOMAIN arg = Tasks /\ \A t \in Tasks : Arg(t)
SeenOK == seen \in [Tasks -> SUBSET (StatusBits \cup CtrlBits)]
ChipOK ==
  /\ time \in [1 .. 7 -> 0 .. 255] /\ \A r \in 1 .. 7 : time[r] % 16 <= 9
  /\ status \subseteq StatusBits /\ ctrl \subseteq CtrlBits
  /\ {port, ready, kept, torn} \subseteq BOOLEAN

LEMMA TypeParts == TypeInv <=> CallsOK /\ SeenOK /\ ChipOK
BY DEF TypeInv, TypeOK, CallsOK, SeenOK, ChipOK

LEMMA BeginsType ==
  ASSUME TypeInv, NEW t \in Tasks, NEW o \in Ops, NEW a, Begins(t, o, a), o = "set" => a \in Times
  PROVE  /\ CallsOK' /\ SeenOK' /\ at'[t] = 1 /\ at' = at /\ seen' = seen
         /\ \A u \in Tasks \ {t} : op'[u] = op[u]
<1>1. /\ op \in [Tasks -> Ops \cup {"none"}] /\ at \in [Tasks -> Nat] /\ DOMAIN arg = Tasks
      /\ \A u \in Tasks : at[u] \in 1 .. (IF op[u] = "none" THEN 1 ELSE Len(Script[op[u]]))
      /\ \A u \in Tasks : Arg(u)
      /\ SeenOK
  BY DEF TypeInv, TypeOK, SeenOK
<1>2. op[t] = "none" /\ op' = [op EXCEPT ![t] = o] /\ arg' = [arg EXCEPT ![t] = a] /\ at' = at
      /\ seen' = seen
  BY DEF Begins
<1>3. at[t] = 1
  BY <1>1, <1>2
<1>4. /\ op' \in [Tasks -> Ops \cup {"none"}] /\ op'[t] = o
      /\ \A u \in Tasks \ {t} : op'[u] = op[u]
  BY <1>1, <1>2
<1>5. DOMAIN arg' = Tasks /\ arg'[t] = a /\ \A u \in Tasks \ {t} : arg'[u] = arg[u]
  BY <1>1, <1>2
<1>6. 1 \in 1 .. Len(Script[o]) /\ o # "none"
  <2> DEFINE n == Len(Script[o])
  <2>1. n \in 2 .. 5
    BY Lengths
  <2>2. o # "none"
    BY DEF Ops
  <2> HIDE DEF n
  <2>3. 1 \in 1 .. n
    BY <2>1
  <2> QED BY <2>2, <2>3, Zenon DEF n
<1>7. \A u \in Tasks : at'[u] \in 1 .. (IF op'[u] = "none" THEN 1 ELSE Len(Script[op'[u]]))
  <2> SUFFICES ASSUME NEW u \in Tasks
               PROVE  at'[u] \in 1 .. (IF op'[u] = "none" THEN 1 ELSE Len(Script[op'[u]]))
    OBVIOUS
  <2>1. CASE u = t
    BY <1>2, <1>3, <1>4, <1>6, <2>1
  <2>2. CASE u # t
    <3>1. at'[u] = at[u] /\ op'[u] = op[u]
      BY <1>2, <1>4, <2>2
    <3> QED BY <1>1, <3>1
  <2> QED BY <2>1, <2>2
<1>8. \A u \in Tasks : Arg(u)'
  BY <1>1, <1>4, <1>5 DEF Arg
<1> QED BY <1>1, <1>2, <1>3, <1>4, <1>5, <1>7, <1>8 DEF CallsOK, SeenOK

LEMMA GoingOnType ==
  ASSUME TypeInv, NEW t \in Tasks, op[t] # "none", NEW n \in 1 .. 5, GoesOn(t, n)
  PROVE  CallsOK'
BY GoingOn DEF CallsOK

LEMMA InCall ==
  ASSUME TypeInv, NEW t \in Tasks, op[t] # "none"
  PROVE  op[t] \in Ops /\ at[t] \in 1 .. Len(Script[op[t]]) /\ Len(Script[op[t]]) \in 1 .. 5
<1>1. op[t] \in Ops /\ at[t] \in 1 .. Len(Script[op[t]])
  BY DEF TypeInv, TypeOK
<1> QED BY <1>1, Lengths

\* Where the transfer's call goes on.
LEMMA ReadGoes ==
  ASSUME TypeInv, NEW t \in Tasks, NEW step, NEW value, NEW ok \in BOOLEAN,
         Read(t, step, value, ok)
  PROVE  \E n \in 1 .. 5 : GoesOn(t, n) /\ (~ok => n = (IF op[t] = "init" THEN Len(Script[op[t]]) ELSE 2))
                           /\ (ok => n = 1)
<1>1. op[t] # "none"
  BY DEF Read, Does
<1>2. Len(Script[op[t]]) \in 1 .. 5
  BY <1>1, InCall
<1>3. CASE ok
  BY <1>3 DEF Read
<1>4. CASE ~ok /\ op[t] = "init"
  <2>1. GoesOn(t, Len(Script[op[t]]))
    BY <1>4 DEF Read, Returns
  <2> QED BY <1>2, <1>4, <2>1
<1>5. CASE ~ok /\ op[t] # "init"
  <2>1. GoesOn(t, 2)
    BY <1>5 DEF Read
  <2> QED BY <1>5, <2>1
<1> QED BY <1>3, <1>4, <1>5

LEMMA TypeStep == TypeInv /\ [Next]_vars => TypeInv'
<1> SUFFICES ASSUME TypeInv, [Next]_vars PROVE TypeInv'
  OBVIOUS
<1>1. CallsOK /\ SeenOK /\ ChipOK
  BY TypeParts
<1>2. SUFFICES CallsOK' /\ SeenOK' /\ ChipOK'
  BY DEF TypeInv, TypeOK, CallsOK, SeenOK, ChipOK
<1>3. /\ UNCHANGED calls => CallsOK' /\ SeenOK'
      /\ UNCHANGED seen => SeenOK'
      /\ UNCHANGED <<chip, port, ready, history>> => ChipOK'
  BY <1>1 DEF calls, chip, history, CallsOK, SeenOK, ChipOK, Arg
<1>4. CASE UNCHANGED vars
  BY <1>3, <1>4 DEF vars
<1>5. ASSUME NEW t \in Tasks, NEW o \in Ops, NEW a, o = "set" => a \in Times,
             Begins(t, o, a), UNCHANGED <<chip, history>>, {port', ready'} \subseteq BOOLEAN
      PROVE  CallsOK' /\ SeenOK' /\ ChipOK'
  <2>1. CallsOK' /\ SeenOK'
    BY <1>5, BeginsType
  <2> QED BY <1>1, <1>5, <2>1 DEF ChipOK, chip, history
<1>6. ASSUME NEW t \in Tasks, NEW khz \in BOOLEAN, NEW sqw \in BOOLEAN,
             InitCall(t, [khz |-> khz, sqw |-> sqw])
      PROVE  CallsOK' /\ SeenOK' /\ ChipOK'
  BY <1>5, <1>6 DEF InitCall, Ops
<1>7. ASSUME NEW t \in Tasks, NEW o \in Ops, NEW a, o = "set" => a \in Times, Call(t, o, a)
      PROVE  CallsOK' /\ SeenOK' /\ ChipOK'
  BY <1>1, <1>5, <1>7 DEF Call, ChipOK
<1>8. ASSUME NEW t \in Tasks, NEW ok \in BOOLEAN, WriteTime(t, ok)
      PROVE  CallsOK' /\ SeenOK' /\ ChipOK'
  <2>1. op[t] # "none" /\ Does(t, "write time")
    BY <1>8 DEF WriteTime, Does
  <2>2. op[t] \in Ops /\ at[t] \in 1 .. Len(Script[op[t]]) /\ Len(Script[op[t]]) \in 1 .. 5
    BY <2>1, InCall
  <2>3. op[t] = "set"
    BY <2>1, <2>2, Where
  <2>4. arg[t] \in TimeRecords
    BY <1>1, <2>3, RtcAssumption DEF CallsOK, Arg
  <2>5. CallsOK'
    <3>1. GoesOn(t, 1) \/ GoesOn(t, Len(Script[op[t]]))
      BY <1>8 DEF WriteTime, Returns
    <3>2. \A n \in 1 .. 5 : GoesOn(t, n) => CallsOK'
      BY <2>1, GoingOnType
    <3>3. 1 \in 1 .. 5
      OBVIOUS
    <3> QED BY <2>2, <3>1, <3>2, <3>3, Zenon
  <2>6. time' \in [1 .. 7 -> 0 .. 255] /\ \A r \in 1 .. 7 : time'[r] % 16 <= 9
    <3>1. CASE ok
      BY <1>8, <2>4, <3>1, EncodeType DEF WriteTime
    <3>2. CASE ~ok
      BY <1>1, <1>8, <3>2 DEF WriteTime, ChipOK
    <3> QED BY <3>1, <3>2
  <2>7. {kept', torn'} \subseteq BOOLEAN /\ UNCHANGED <<status, ctrl, port, ready, seen>>
    BY <1>1, <1>8 DEF WriteTime, ChipOK, history
  <2> QED BY <1>1, <1>3, <2>5, <2>6, <2>7 DEF ChipOK
<1>9. ASSUME NEW t \in Tasks, NEW step, NEW value \in SUBSET (StatusBits \cup CtrlBits),
             NEW ok \in BOOLEAN, Read(t, step, value, ok)
      PROVE  CallsOK' /\ SeenOK' /\ ChipOK'
  <2>1. op[t] # "none"
    BY <1>9 DEF Read, Does
  <2>2. CallsOK'
    BY <1>9, <2>1, ReadGoes, GoingOnType
  <2>3. SeenOK'
    BY <1>1, <1>9 DEF Read, SeenOK
  <2>4. ChipOK'
    BY <1>3, <1>9 DEF Read
  <2> QED BY <2>2, <2>3, <2>4
<1>10. ASSUME NEW t \in Tasks, NEW ok \in BOOLEAN, ReadStatus(t, ok) \/ ReadCtrl(t, ok)
       PROVE  CallsOK' /\ SeenOK' /\ ChipOK'
  <2>1. status \in SUBSET (StatusBits \cup CtrlBits) /\ ctrl \in SUBSET (StatusBits \cup CtrlBits)
    BY <1>1 DEF ChipOK
  <2> QED BY <1>9, <1>10, <2>1 DEF ReadStatus, ReadCtrl
<1>11. ASSUME NEW t \in Tasks, NEW ok \in BOOLEAN, WriteStatus(t, ok)
       PROVE  CallsOK' /\ SeenOK' /\ ChipOK'
  <2>1. op[t] # "none" /\ GoesOn(t, 1)
    BY <1>11 DEF WriteStatus, Does
  <2>2. CallsOK'
    BY <2>1, GoingOnType
  <2>3. SeenOK'
    BY <1>1, <1>11 DEF WriteStatus, SeenOK
  <2>4. status' \subseteq StatusBits
    <3>1. "EN32KHZ" \in StatusBits
      BY DEF StatusBits
    <3> QED BY <1>1, <1>11, <3>1 DEF WriteStatus, ChipOK
  <2>5. ready' \in BOOLEAN /\ UNCHANGED <<time, ctrl, port, history>>
    BY <1>1, <1>11 DEF WriteStatus, ChipOK
  <2> QED BY <1>1, <2>2, <2>3, <2>4, <2>5 DEF ChipOK, history
<1>12. ASSUME NEW t \in Tasks, NEW ok \in BOOLEAN, WriteCtrl(t, ok)
       PROVE  CallsOK' /\ SeenOK' /\ ChipOK'
  <2>1. op[t] # "none" /\ GoesOn(t, 1)
    BY <1>12 DEF WriteCtrl, Does
  <2>2. CallsOK'
    BY <2>1, GoingOnType
  <2>3. SeenOK'
    BY <1>1, <1>12 DEF WriteCtrl, SeenOK
  <2>4. ctrl' \subseteq CtrlBits /\ UNCHANGED <<time, status, port, ready, history>>
    BY <1>1, <1>12 DEF WriteCtrl, ChipOK
  <2> QED BY <1>1, <2>2, <2>3, <2>4 DEF ChipOK, history
<1>13. ASSUME NEW t \in Tasks, Delete(t)
       PROVE  CallsOK' /\ SeenOK' /\ ChipOK'
  <2>1. op[t] # "none" /\ GoesOn(t, 1)
    BY <1>13 DEF Delete, Does
  <2>2. CallsOK'
    BY <2>1, GoingOnType
  <2> QED BY <1>1, <1>3, <1>13, <2>2 DEF Delete, ChipOK, chip, history
<1>14. CASE GaugeInit \/ GaugeClose \/ Alarm
  <2>1. "A1F" \in StatusBits
    BY DEF StatusBits
  <2> QED BY <1>1, <1>3, <1>14, <2>1 DEF GaugeInit, GaugeClose, Alarm, ChipOK, chip, history
<1>15. CASE Restart /\ {kept', torn'} \subseteq BOOLEAN /\ status' \subseteq StatusBits
  <2>1. CallsOK' /\ SeenOK'
    BY <1>15 DEF Restart, CallsOK, SeenOK, Arg
  <2> QED BY <1>1, <1>15, <2>1 DEF Restart, ChipOK
<1>16. CASE RestartAlone
  BY <1>1, <1>15, <1>16 DEF RestartAlone, ChipOK
<1>17. ASSUME NEW stops \in BOOLEAN, Blackout(stops)
       PROVE  CallsOK' /\ SeenOK' /\ ChipOK'
  <2>1. {"OSF", "EN32KHZ"} \subseteq StatusBits
    BY DEF StatusBits
  <2> QED BY <1>1, <1>15, <1>17, <2>1 DEF Blackout, ChipOK
<1> QED
  BY <1>4, <1>6, <1>7, <1>8, <1>10, <1>11, <1>12, <1>13, <1>14, <1>16, <1>17 DEF Next, Ops

(* The registers keep two decimal digits each and every call its place in    *)
(* its script, for any tasks and any times.                                  *)
THEOREM TypeCorrect == Spec => []TypeOK
<1>1. TypeInv => TypeOK
  BY DEF TypeInv
<1> QED BY TypeInit, TypeStep, <1>1, PTL DEF Spec

-----------------------------------------------------------------------------
(* The time                                                                *)

LEMMA RoundTripStep == TypeInv /\ RoundTrip /\ [Next]_vars => RoundTrip'
<1> SUFFICES ASSUME TypeInv, RoundTrip, [Next]_vars PROVE RoundTrip'
  OBVIOUS
<1>1. CASE UNCHANGED <<time, meant>> /\ (kept' => kept)
  BY <1>1 DEF RoundTrip
<1>2. ASSUME NEW t \in Tasks, NEW ok \in BOOLEAN, WriteTime(t, ok)
      PROVE  RoundTrip'
  <2>1. op[t] # "none" /\ Does(t, "write time")
    BY <1>2 DEF WriteTime, Does
  <2>2. op[t] \in Ops /\ at[t] \in 1 .. Len(Script[op[t]])
    BY <2>1, InCall
  <2>3. op[t] = "set"
    BY <2>1, <2>2, Where
  <2>4. arg[t] \in TimeRecords
    BY <2>3, RtcAssumption DEF TypeInv, Arg
  <2>5. CASE ok
    <3>1. time' = Encode(arg[t]) /\ meant' = arg[t]
      BY <1>2, <2>5 DEF WriteTime
    <3>2. Says(Encode(arg[t]), arg[t])
      BY <2>4, EncodeSays
    <3> QED BY <3>1, <3>2 DEF RoundTrip
  <2>6. CASE ~ok
    BY <1>1, <1>2, <2>6 DEF WriteTime, history
  <2> QED BY <2>5, <2>6
<1>3. ASSUME NEW t \in Tasks, NEW step, NEW value, NEW ok \in BOOLEAN, Read(t, step, value, ok)
      PROVE  RoundTrip'
  BY <1>1, <1>3 DEF Read, chip, history
<1>4. ASSUME NEW t \in Tasks, NEW ok \in BOOLEAN,
             ReadStatus(t, ok) \/ ReadCtrl(t, ok) \/ WriteStatus(t, ok) \/ WriteCtrl(t, ok)
      PROVE  RoundTrip'
  BY <1>1, <1>3, <1>4 DEF ReadStatus, ReadCtrl, WriteStatus, WriteCtrl, history
<1>5. ASSUME NEW t \in Tasks, NEW o, NEW a, InitCall(t, a) \/ Call(t, o, a) \/ Delete(t)
      PROVE  RoundTrip'
  BY <1>1, <1>5 DEF InitCall, Call, Delete, chip, history
<1>6. CASE GaugeInit \/ GaugeClose \/ Alarm
  BY <1>1, <1>6 DEF GaugeInit, GaugeClose, Alarm, chip, history
<1>7. ASSUME NEW stops, RestartAlone \/ Blackout(stops)
      PROVE  RoundTrip'
  BY <1>1, <1>7 DEF RestartAlone, Blackout, Restart
<1>8. CASE UNCHANGED vars
  BY <1>1, <1>8 DEF vars, chip, history
<1> QED BY <1>2, <1>4, <1>5, <1>6, <1>7, <1>8 DEF Next

(* Whatever ds3231_set_time was given, ds3231_get_time returns a time of day *)
(* and a date in their ranges, and what was set if that was in range and in  *)
(* the years 2000 to 2099: if it reads the registers it finds at first as    *)
(* they were meant.                                                          *)
THEOREM ReadsBack ==
  (\A f \in Found : Says(f.raw, f.is)) => (Spec => []RoundTrip)
<1>1. ASSUME \A f \in Found : Says(f.raw, f.is), Init
      PROVE  RoundTrip
  BY <1>1 DEF Init, RoundTrip
<1>2. Spec => []TypeInv
  BY TypeInit, TypeStep, PTL DEF Spec
<1>3. CASE \A f \in Found : Says(f.raw, f.is)
  <2>1. Init => RoundTrip
    BY <1>1, <1>3
  <2> QED BY <1>2, <2>1, RoundTripStep, PTL DEF Spec
<1> QED BY <1>3

-----------------------------------------------------------------------------
(* The oscillator flag                                                     *)

\* A call that will clear the flag: it has written the time, or it has read
\* the status when the flag was clear.
Pending(t) ==
  \/ op[t] = "set" /\ at[t] \in {2, 3}
  \/ op[t] = "init" /\ at[t] \in {2, 3, 4} /\ "OSF" \notin seen[t]
  \/ op[t] \in {"clear", "sleep", "close"} /\ at[t] = 2 /\ "OSF" \notin seen[t]

Sound == kept \/ torn
OsfInv == OsfHonest /\ \A t \in Tasks : Pending(t) => Sound

\* A step of t's that leaves the time alone.
LEMMA OsfOthers ==
  ASSUME OsfInv, NEW t \in Tasks, UNCHANGED history,
         \A u \in Tasks \ {t} : op'[u] = op[u] /\ at'[u] = at[u] /\ seen'[u] = seen[u],
         "OSF" \notin status' => "OSF" \notin status \/ Sound,
         Pending(t)' => Sound
  PROVE  OsfInv'
<1>1. Sound' <=> Sound
  BY DEF Sound, history
<1>2. \A u \in Tasks \ {t} : Pending(u)' => Pending(u)
  BY DEF Pending
<1>3. OsfHonest'
  BY <1>1 DEF OsfInv, OsfHonest, LostPower, Sound
<1> QED BY <1>1, <1>2, <1>3 DEF OsfInv

LEMMA OsfReadStatus ==
  ASSUME TypeInv, OsfInv, NEW t \in Tasks, NEW ok \in BOOLEAN, ReadStatus(t, ok)
  PROVE  OsfInv'
<1>1. Read(t, "read status", status, ok) /\ Does(t, "read status") /\ op[t] # "none"
  BY DEF ReadStatus, Read, Does
<1>2. op[t] \in Ops /\ at[t] \in 1 .. Len(Script[op[t]])
  BY <1>1, InCall
<1>3. \/ op[t] = "set" /\ at[t] = 2
      \/ op[t] \in {"init", "clear", "sleep", "close"} /\ at[t] = 1
  BY <1>1, <1>2, Where
<1>4. /\ UNCHANGED <<status, history>>
      /\ seen' = [seen EXCEPT ![t] = IF ok THEN @ \cup status ELSE {}]
  BY <1>1 DEF Read, chip
<1>5. seen'[t] = (IF ok THEN seen[t] \cup status ELSE {}) /\ \A u \in Tasks \ {t} : seen'[u] = seen[u]
  BY <1>4 DEF TypeInv, TypeOK
<1>6. PICK n \in 1 .. 5 : /\ GoesOn(t, n)
                          /\ ~ok => n = (IF op[t] = "init" THEN Len(Script[op[t]]) ELSE 2)
                          /\ ok => n = 1
  BY <1>1, ReadGoes
<1>7. /\ \A u \in Tasks \ {t} : op'[u] = op[u] /\ at'[u] = at[u]
      /\ \/ op'[t] = op[t] /\ at'[t] = at[t] + n /\ at[t] + n <= Len(Script[op[t]])
         \/ op'[t] = "none"
  BY <1>1, <1>6, GoingOn
<1>8. Pending(t)' => Sound
  <2>1. CASE op'[t] = "none"
    BY <2>1 DEF Pending
  <2>2. CASE ok /\ op'[t] = op[t] /\ at'[t] = at[t] + 1
    <3>1. CASE op[t] = "set" /\ at[t] = 2
      BY <3>1 DEF OsfInv, Pending
    <3>2. CASE op[t] \in {"init", "clear", "sleep", "close"} /\ at[t] = 1
      BY <1>5, <2>2, <3>2 DEF OsfInv, OsfHonest, LostPower, Pending, Sound
    <3> QED BY <1>3, <3>1, <3>2
  <2>3. CASE ~ok /\ op[t] # "init" /\ op'[t] = op[t] /\ at'[t] = at[t] + 2
    BY <1>3, <2>3 DEF Pending
  <2>4. CASE ~ok /\ op[t] = "init" /\ op'[t] = op[t] /\ at[t] + n <= Len(Script[op[t]])
    <3>1. n = Len(Script[op[t]])
      BY <1>6, <2>4
    <3> QED BY <1>2, <2>4, <3>1
  <2> QED BY <1>6, <1>7, <2>1, <2>2, <2>3, <2>4
<1> QED BY <1>4, <1>5, <1>7, <1>8, OsfOthers

LEMMA OsfReadCtrl ==
  ASSUME TypeInv, OsfInv, NEW t \in Tasks, NEW ok \in BOOLEAN, ReadCtrl(t, ok)
  PROVE  OsfInv'
<1>1. Read(t, "read ctrl", ctrl, ok) /\ Does(t, "read ctrl") /\ op[t] # "none"
  BY DEF ReadCtrl, Read, Does
<1>2. op[t] \in Ops /\ at[t] \in 1 .. Len(Script[op[t]])
  BY <1>1, InCall
<1>3. \/ op[t] = "init" /\ at[t] = 2
      \/ op[t] = "wakeup"
      \/ op[t] \in {"sleep", "close"} /\ at[t] = 3
  BY <1>1, <1>2, Where
<1>4. /\ UNCHANGED <<status, history>>
      /\ seen' = [seen EXCEPT ![t] = IF ok THEN @ \cup ctrl ELSE {}]
  BY <1>1 DEF Read, chip
<1>5. seen'[t] = (IF ok THEN seen[t] \cup ctrl ELSE {}) /\ \A u \in Tasks \ {t} : seen'[u] = seen[u]
  BY <1>4 DEF TypeInv, TypeOK
<1>6. PICK n \in 1 .. 5 : /\ GoesOn(t, n)
                          /\ ~ok => n = (IF op[t] = "init" THEN Len(Script[op[t]]) ELSE 2)
                          /\ ok => n = 1
  BY <1>1, ReadGoes
<1>7. /\ \A u \in Tasks \ {t} : op'[u] = op[u] /\ at'[u] = at[u]
      /\ \/ op'[t] = op[t] /\ at'[t] = at[t] + n /\ at[t] + n <= Len(Script[op[t]])
         \/ op'[t] = "none"
  BY <1>1, <1>6, GoingOn
<1>8. Pending(t)' => Sound
  <2>1. CASE op'[t] = "none"
    BY <2>1 DEF Pending
  <2>2. CASE ok /\ op'[t] = op[t] /\ at'[t] = at[t] + 1
    BY <1>3, <1>5, <2>2 DEF OsfInv, Pending
  <2>3. CASE ~ok /\ op[t] # "init" /\ op'[t] = op[t] /\ at'[t] = at[t] + 2
    BY <1>3, <2>3 DEF Pending
  <2>4. CASE ~ok /\ op[t] = "init" /\ op'[t] = op[t] /\ at[t] + n <= Len(Script[op[t]])
    <3>1. n = Len(Script[op[t]])
      BY <1>6, <2>4
    <3> QED BY <1>2, <2>4, <3>1
  <2> QED BY <1>6, <1>7, <2>1, <2>2, <2>3, <2>4
<1> QED BY <1>4, <1>5, <1>7, <1>8, OsfOthers

LEMMA NextTransfer ==
  ASSUME TypeInv, NEW t \in Tasks, op[t] # "none", GoesOn(t, 1)
  PROVE  /\ \A u \in Tasks \ {t} : op'[u] = op[u] /\ at'[u] = at[u]
         /\ (op'[t] = op[t] /\ at'[t] = at[t] + 1) \/ op'[t] = "none"
<1>1. 1 \in 1 .. 5
  OBVIOUS
<1> QED BY <1>1, GoingOn, Zenon

LEMMA OsfWriteStatus ==
  ASSUME TypeInv, OsfInv, NEW t \in Tasks, NEW ok \in BOOLEAN, WriteStatus(t, ok)
  PROVE  OsfInv'
<1>1. Does(t, "write status") /\ op[t] # "none" /\ GoesOn(t, 1)
  BY DEF WriteStatus, Does
<1>2. op[t] \in Ops /\ at[t] \in 1 .. Len(Script[op[t]])
  BY <1>1, InCall
<1>3. \/ op[t] = "set" /\ at[t] = 3
      \/ op[t] = "init" /\ at[t] = 4
      \/ op[t] \in {"clear", "sleep", "close"} /\ at[t] = 2
  BY <1>1, <1>2, Where
<1>4. /\ \A u \in Tasks \ {t} : op'[u] = op[u] /\ at'[u] = at[u]
      /\ (op'[t] = op[t] /\ at'[t] = at[t] + 1) \/ op'[t] = "none"
  BY <1>1, NextTransfer
<1>5. UNCHANGED history /\ \A u \in Tasks \ {t} : seen'[u] = seen[u]
  <2>1. seen' = [seen EXCEPT ![t] = {}] /\ UNCHANGED history
    BY DEF WriteStatus
  <2> QED BY <2>1 DEF TypeInv, TypeOK
<1>6. ~Pending(t)'
  BY <1>3, <1>4 DEF Pending
<1>7. ASSUME "OSF" \notin status', "OSF" \in status
      PROVE  Sound
  <2>1. "OSF" \notin NewStatus(t)
    BY <1>7 DEF WriteStatus
  <2>2. CASE op[t] = "set"
    BY <1>3, <2>2 DEF OsfInv, Pending
  <2>3. CASE op[t] # "set"
    <3>1. "OSF" \notin seen[t]
      BY <2>1, <2>3 DEF NewStatus
    <3> QED BY <1>3, <2>3, <3>1 DEF OsfInv, Pending
  <2> QED BY <2>2, <2>3
<1> QED BY <1>4, <1>5, <1>6, <1>7, OsfOthers

LEMMA OsfWriteCtrl ==
  ASSUME TypeInv, OsfInv, NEW t \in Tasks, NEW ok \in BOOLEAN, WriteCtrl(t, ok)
  PROVE  OsfInv'
<1>1. Does(t, "write ctrl") /\ op[t] # "none" /\ GoesOn(t, 1)
  BY DEF WriteCtrl, Does
<1>2. op[t] \in Ops /\ at[t] \in 1 .. Len(Script[op[t]])
  BY <1>1, InCall
<1>3. \/ op[t] = "init" /\ at[t] = 3
      \/ op[t] = "wakeup"
      \/ op[t] \in {"sleep", "close"} /\ at[t] = 4
  BY <1>1, <1>2, Where
<1>4. /\ \A u \in Tasks \ {t} : op'[u] = op[u] /\ at'[u] = at[u]
      /\ (op'[t] = op[t] /\ at'[t] = at[t] + 1) \/ op'[t] = "none"
  BY <1>1, NextTransfer
<1>5. /\ UNCHANGED <<status, history>>
      /\ seen' = [seen EXCEPT ![t] = IF op[t] = "init" THEN @ ELSE {}]
  BY DEF WriteCtrl
<1>6. /\ seen'[t] = (IF op[t] = "init" THEN seen[t] ELSE {})
      /\ \A u \in Tasks \ {t} : seen'[u] = seen[u]
  BY <1>5 DEF TypeInv, TypeOK
<1>7. Pending(t)' => Sound
  BY <1>3, <1>4, <1>6 DEF OsfInv, Pending
<1> QED BY <1>4, <1>5, <1>6, <1>7, OsfOthers

LEMMA OsfDelete ==
  ASSUME TypeInv, OsfInv, NEW t \in Tasks, Delete(t)
  PROVE  OsfInv'
<1>1. Does(t, "delete") /\ op[t] # "none" /\ GoesOn(t, 1) /\ UNCHANGED <<status, seen, history>>
  BY DEF Delete, Does, chip
<1>2. op[t] \in Ops /\ at[t] \in 1 .. Len(Script[op[t]])
  BY <1>1, InCall
<1>3. op[t] = "close" /\ at[t] = 5
  BY <1>1, <1>2, Where
<1>4. /\ \A u \in Tasks \ {t} : op'[u] = op[u] /\ at'[u] = at[u]
      /\ (op'[t] = op[t] /\ at'[t] = at[t] + 1) \/ op'[t] = "none"
  BY <1>1, NextTransfer
<1>5. ~Pending(t)'
  BY <1>3, <1>4 DEF Pending
<1> QED BY <1>1, <1>4, <1>5, OsfOthers

LEMMA OsfBegins ==
  ASSUME TypeInv, OsfInv, NEW t \in Tasks, NEW o \in Ops, NEW a, o = "set" => a \in Times,
         Begins(t, o, a), UNCHANGED <<chip, history>>
  PROVE  OsfInv'
<1>1. at'[t] = 1 /\ at' = at /\ seen' = seen /\ \A u \in Tasks \ {t} : op'[u] = op[u]
  BY BeginsType
<1>2. op'[t] = o
  BY DEF Begins, TypeInv, TypeOK
<1>3. Pending(t)' => FALSE
  BY <1>1, <1>2 DEF Pending
<1> QED BY <1>1, <1>3, OsfOthers DEF chip

LEMMA OsfWriteTime ==
  ASSUME TypeInv, OsfInv, NEW t \in Tasks, NEW ok \in BOOLEAN, WriteTime(t, ok)
  PROVE  OsfInv'
<1>1. op[t] # "none" /\ Does(t, "write time") /\ UNCHANGED <<status, seen>>
  BY DEF WriteTime, Does
<1>2. Len(Script[op[t]]) \in 1 .. 5 /\ at[t] \in 1 .. Len(Script[op[t]])
  BY <1>1, InCall
<1>3. CASE Sound'
  BY <1>3 DEF OsfInv, OsfHonest, Sound
<1>4. CASE ok
  BY <1>3, <1>4 DEF WriteTime, Sound
<1>5. CASE ~ok /\ ~UNCHANGED history
  BY <1>3, <1>5 DEF WriteTime, Sound
<1>6. CASE ~ok /\ UNCHANGED history
  <2>1. GoesOn(t, Len(Script[op[t]]))
    BY <1>6 DEF WriteTime, Returns
  <2> DEFINE n == Len(Script[op[t]])
  <2>2. /\ \A u \in Tasks \ {t} : op'[u] = op[u] /\ at'[u] = at[u]
        /\ \/ at[t] + n <= n
           \/ op'[t] = "none"
    BY <1>1, <1>2, <2>1, GoingOn
  <2>3. op'[t] = "none"
    <3>1. n \in 1 .. 5 /\ at[t] \in 1 .. n
      BY <1>2
    <3> HIDE DEF n
    <3> QED BY <2>2, <3>1
  <2>4. ~Pending(t)'
    BY <2>3 DEF Pending
  <2> QED BY <1>1, <1>6, <2>2, <2>4, OsfOthers
<1> QED BY <1>4, <1>5, <1>6

LEMMA OsfRestart ==
  ASSUME TypeInv, OsfInv, Restart, OsfHonest'
  PROVE  OsfInv'
<1>1. \A u \in Tasks : op'[u] = "none"
  BY DEF Restart
<1>2. \A u \in Tasks : ~Pending(u)'
  BY <1>1 DEF Pending
<1> QED BY <1>2 DEF OsfInv

LEMMA OsfStep == TypeInv /\ OsfInv /\ [Next]_vars => OsfInv'
<1> SUFFICES ASSUME TypeInv, OsfInv, [Next]_vars PROVE OsfInv'
  OBVIOUS
<1>1. CASE UNCHANGED <<calls, history>> /\ ("OSF" \notin status' => "OSF" \notin status)
  BY <1>1 DEF calls, history, OsfInv, OsfHonest, LostPower, Pending, Sound
<1>2. CASE UNCHANGED vars
  BY <1>1, <1>2 DEF vars, chip
<1>3. ASSUME NEW t \in Tasks, NEW khz \in BOOLEAN, NEW sqw \in BOOLEAN,
             InitCall(t, [khz |-> khz, sqw |-> sqw])
      PROVE  OsfInv'
  BY <1>3, OsfBegins DEF InitCall, Ops
<1>4. ASSUME NEW t \in Tasks, NEW o \in Ops, NEW a, o = "set" => a \in Times, Call(t, o, a)
      PROVE  OsfInv'
  BY <1>4, OsfBegins DEF Call
<1>5. ASSUME NEW t \in Tasks, NEW ok \in BOOLEAN,
             \/ WriteTime(t, ok) \/ ReadStatus(t, ok) \/ ReadCtrl(t, ok)
             \/ WriteStatus(t, ok) \/ WriteCtrl(t, ok)
      PROVE  OsfInv'
  BY <1>5, OsfWriteTime, OsfReadStatus, OsfReadCtrl, OsfWriteStatus, OsfWriteCtrl
<1>6. ASSUME NEW t \in Tasks, Delete(t)
      PROVE  OsfInv'
  BY <1>6, OsfDelete
<1>7. CASE GaugeInit \/ GaugeClose
  BY <1>1, <1>7 DEF GaugeInit, GaugeClose, chip
<1>8. CASE Alarm
  BY <1>1, <1>8 DEF Alarm
<1>9. CASE RestartAlone
  <2>1. OsfHonest'
    <3>1. status' = status /\ ((kept' = kept /\ torn' = torn) \/ torn' = TRUE)
      BY <1>9 DEF RestartAlone
    <3> QED BY <3>1 DEF OsfInv, OsfHonest, LostPower
  <2> QED BY <1>9, <2>1, OsfRestart DEF RestartAlone
<1>10. ASSUME NEW stops \in BOOLEAN, Blackout(stops)
       PROVE  OsfInv'
  <2>1. OsfHonest'
    BY <1>10 DEF Blackout, OsfInv, OsfHonest, LostPower
  <2> QED BY <1>10, <2>1, OsfRestart DEF Blackout
<1> QED
  BY <1>2, <1>3, <1>4, <1>5, <1>6, <1>7, <1>8, <1>9, <1>10 DEF Next, Ops

(* A status register that does not say OSF vouches for the time: it is the   *)
(* one last set, and the clock has counted since, or its last burst was cut  *)
(* short.  Whatever tasks call the driver, in any order, with any failures,  *)
(* restarts and blackouts between the transfers.                             *)
THEOREM PowerLossShows == Spec => []OsfHonest
<1>1. Init => OsfInv
  BY DEF Init, OsfInv, OsfHonest, LostPower, Pending, Sound
<1>2. OsfInv => OsfHonest
  BY DEF OsfInv
<1>3. Spec => []TypeInv
  BY TypeInit, TypeStep, PTL DEF Spec
<1> QED BY <1>1, <1>2, <1>3, OsfStep, PTL DEF Spec

-----------------------------------------------------------------------------
(* Alarms                                                                  *)

(* No call but ds3231_clear_alarm_flags writes away an alarm that it has     *)
(* read, whatever it does to the other bits of the register.                 *)
THEOREM AlarmKept == Spec => AlarmSurvives
<1> DEFINE Lost == "A1F" \in status /\ "A1F" \notin status'
           ByCall == \E t \in Tasks : Does(t, "write status") /\ (op[t] = "clear" \/ "A1F" \notin seen[t])
<1>1. ASSUME [Next]_vars, Lost
      PROVE  ByCall
  <2>1. CASE UNCHANGED status
    BY <1>1, <2>1
  <2>2. ASSUME NEW t \in Tasks, NEW ok \in BOOLEAN, WriteStatus(t, ok)
        PROVE  ByCall
    <3>1. Does(t, "write status") /\ "A1F" \notin NewStatus(t)
      BY <1>1, <2>2 DEF WriteStatus
    <3>2. CASE op[t] # "clear"
      BY <3>1, <3>2 DEF NewStatus
    <3> QED BY <3>1, <3>2
  <2>3. ASSUME NEW t \in Tasks, NEW ok \in BOOLEAN,
               \/ WriteTime(t, ok) \/ ReadStatus(t, ok) \/ ReadCtrl(t, ok)
               \/ WriteCtrl(t, ok) \/ Delete(t)
        PROVE  ByCall
    BY <2>1, <2>3 DEF WriteTime, ReadStatus, ReadCtrl, Read, WriteCtrl, Delete, chip
  <2>4. ASSUME NEW t \in Tasks, NEW o, NEW a, InitCall(t, a) \/ Call(t, o, a)
        PROVE  ByCall
    BY <2>1, <2>4 DEF InitCall, Call, chip
  <2>5. CASE GaugeInit \/ GaugeClose \/ Alarm \/ UNCHANGED vars
    BY <1>1, <2>1, <2>5 DEF GaugeInit, GaugeClose, Alarm, vars, chip
  <2>6. ASSUME NEW stops, RestartAlone \/ Blackout(stops)
        PROVE  ByCall
    BY <1>1, <2>1, <2>6 DEF RestartAlone, Blackout
  <2>7. ASSUME NEW t \in Tasks, Delete(t)
        PROVE  ByCall
    BY <2>1, <2>7 DEF Delete, chip
  <2> QED BY <1>1, <2>2, <2>3, <2>4, <2>5, <2>6, <2>7 DEF Next
<1>2. [Next]_vars => [Lost => ByCall]_vars
  BY <1>1
<1> QED BY <1>2, PTL DEF Spec, AlarmSurvives
=============================================================================
