------------------------------- MODULE NmeaData -------------------------------
(***************************************************************************)
(* What src/src/drivers/atgm336h.c makes of a sentence: the handlers that  *)
(* atgm_parse_line calls, as functions of __nav_data and the sentence, and *)
(* the conversion of a date to a Unix time.                                *)
(*                                                                         *)
(* A sentence is a record of the fields the model tells apart.  A time is  *)
(* the number HHMMSS, a date DDMMYY, as the tokens are read; a position is *)
(* a number that names the fix, for latitude and longitude each.  Speed,   *)
(* course, precision, satellites and antenna are left out.                 *)
(***************************************************************************)
EXTENDS Integers, Sequences

Empty == -1    \* an empty field
Nowhere == 0   \* latitude and longitude before the first fix

\* __nav_data as a reset leaves it.
NoData ==
  [utc |-> [year |-> 0, month |-> 0, day |-> 0, hour |-> 0, minute |-> 0, second |-> 0],
   epoch |-> 0, valid |-> FALSE, lat |-> Nowhere, lon |-> Nowhere]

-----------------------------------------------------------------------------
(* Time                                                                    *)

\* parse_time_token.  uint8_t keeps the hour; second 60 is a leap second.
TimeOk(t) ==
  /\ t # Empty
  /\ (t \div 10000) % 256 <= 23 /\ (t \div 100) % 100 <= 59 /\ t % 100 <= 60

AtTime(utc, h, m, s) == [utc EXCEPT !.hour = h, !.minute = m, !.second = s]

WithTime(utc, t) ==
  IF TimeOk(t)
  THEN AtTime(utc, (t \div 10000) % 256, (t \div 100) % 100, t % 100)
  ELSE utc

\* Mutant: an empty or impossible date is taken.
DateOkAny(d) == TRUE

\* parse_date_token
DateOk(d) ==
  /\ d # Empty
  /\ (d \div 10000) % 256 \in 1 .. 31 /\ (d \div 100) % 100 \in 1 .. 12

OnDate(utc, d, m, y) == [utc EXCEPT !.day = d, !.month = m, !.year = y]

WithDate(utc, d) ==
  IF DateOk(d)
  THEN OnDate(utc, (d \div 10000) % 256, (d \div 100) % 100, 2000 + (d % 100))
  ELSE utc

\* Days of the year before each month; mdays[]
MonthDays == <<0, 31, 59, 90, 120, 151, 181, 212, 243, 273, 304, 334>>

LeapYear(y) == (y % 4 = 0 /\ y % 100 # 0) \/ y % 400 = 0

\* Since 1970.
Days(u) ==
  (u.year - 1970) * 365 + (u.year - 1969) \div 4 - (u.year - 1901) \div 100
    + (u.year - 1601) \div 400
    + MonthDays[u.month] + (IF LeapYear(u.year) /\ u.month > 2 THEN 1 ELSE 0) + u.day - 1

\* utc_to_epoch; 0 when there is no date, or one before 2020.
UtcToEpoch(u) ==
  IF u.year < 2020 \/ u.month \notin 1 .. 12 \/ u.day \notin 1 .. 31 THEN 0
  ELSE Days(u) * 86400 + u.hour * 3600 + u.minute * 60 + u.second

-----------------------------------------------------------------------------
(* Sentences                                                               *)

Placed(s) == s.lat # Empty /\ s.lon # Empty

\* parse_coordinate, twice.  It leaves the position as it is for an empty field.
WithPosition(nav, s) == IF Placed(s) THEN [nav EXCEPT !.lat = s.lat, !.lon = s.lon] ELSE nav

\* GGA has a time and no date.
ParseGga(nav, s) ==
  LET timed == [nav EXCEPT !.utc = WithTime(@, s.time)] IN
  IF s.fix /\ Placed(s)
  THEN [WithPosition(timed, s) EXCEPT !.valid = TRUE]
  ELSE [timed EXCEPT !.valid = FALSE]

\* Mutant: the Unix time is computed from a time without its date.
ParseRmcAnyDate(nav, s) ==
  LET utc == WithDate(WithTime(nav.utc, s.time), s.date)
      dated == [nav EXCEPT !.utc = utc,
                           !.epoch = IF TimeOk(s.time) THEN UtcToEpoch(utc) ELSE @]
  IN [(IF s.fix THEN WithPosition(dated, s) ELSE dated) EXCEPT !.valid = s.fix]

ParseRmc(nav, s) ==
  LET utc == WithDate(WithTime(nav.utc, s.time), s.date)
      dated == [nav EXCEPT !.utc = utc,
                           !.epoch = IF TimeOk(s.time) /\ DateOk(s.date)
                                     THEN UtcToEpoch(utc) ELSE @]
  IN [(IF s.fix THEN WithPosition(dated, s) ELSE dated) EXCEPT !.valid = s.fix]

\* ZDA has the four digits of the year.  The date is kept only with a time.
ParseZda(nav, s) ==
  LET utc == WithTime(nav.utc, s.time)
      whole == OnDate(utc, s.day, s.month, s.year)
  IN IF TimeOk(s.time) /\ s.day \in 1 .. 31 /\ s.month \in 1 .. 12 /\ s.year >= 2020
     THEN [nav EXCEPT !.utc = whole, !.epoch = UtcToEpoch(whole)]
     ELSE [nav EXCEPT !.utc = utc]

\* atgm_parse_line: a damaged line only counts as an error.
Parse(nav, s) ==
  CASE s.type = "GGA" -> ParseGga(nav, s)
    [] s.type = "RMC" -> ParseRmc(nav, s)
    [] s.type = "ZDA" -> ParseZda(nav, s)
    [] OTHER -> nav
=============================================================================
