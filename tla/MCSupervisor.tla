---------------------------- MODULE MCSupervisor ----------------------------
(***************************************************************************)
(* Instances of Supervisor for TLC.                                        *)
(***************************************************************************)
EXTENDS Supervisor, TLC

CONSTANTS t1, t2

\* One task for each subsystem.
OneEach == (t1 :> 1) @@ (t2 :> 2)

=============================================================================
