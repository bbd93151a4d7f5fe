-------------------------------- MODULE MCRtc --------------------------------
(***************************************************************************)
(* Values for the configuration of Rtc.                                    *)
(***************************************************************************)
EXTENDS Rtc

At(h, d, mo, y) ==
  [seconds |-> 59, minutes |-> 8, hours |-> h, day |-> 7, date |-> d, month |-> mo, year |-> y]

\* The first and the last year of the calendar, and a time out of all ranges.
MCTimes ==
  {At(0, 1, 1, 2000), At(23, 31, 12, 2099),
   [seconds |-> 60, minutes |-> 255, hours |-> 24, day |-> 0, date |-> 32, month |-> 13,
    year |-> 1999]}

\* One in the afternoon, and twelve (midnight), in the 12-hour mode.
MCFound ==
  {[raw |-> <<89, 8, 97, 7, 49, 18, 38>>, is |-> At(13, 31, 12, 2026)],
   [raw |-> <<89, 8, 82, 7, 1, 129, 38>>, is |-> At(0, 1, 1, 2026)]}
=============================================================================
