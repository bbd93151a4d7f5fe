---------------------------- MODULE MCGnssDriver ----------------------------
(***************************************************************************)
(* Values for the configuration of GnssDriver.                             *)
(***************************************************************************)
EXTENDS GnssDriver

\* The last day of February in a leap year.
MCDays0 == {[year |-> 2028, month |-> 2, day |-> 29]}

\* That of gps_manager_task with an LED, and one without a PPS pin and with a
\* speed that atgm_set_baudrate does not know.
MCConfigs ==
  {[baud |-> 115200, led |-> TRUE, tune |-> TRUE, pps |-> TRUE],
   [baud |-> 230400, led |-> TRUE, tune |-> FALSE, pps |-> FALSE]}
=============================================================================
