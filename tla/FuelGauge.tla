------------------------------ MODULE FuelGauge ------------------------------
(***************************************************************************)
(* The configuration of the fuel gauge in src/src/drivers/bq27441_g1.c:    *)
(* bq_init, bq_snapshot_dump, bq_snapshot_load, bq_reset, bq_sleep,        *)
(* bq_wakeup and bq_close, one action per transfer on the I2C bus.  Any    *)
(* transfer may fail, the gauge may lose power, and the microcontroller    *)
(* may restart between any two transfers.                                  *)
(*                                                                         *)
(* The gauge is external.  It takes two keys in a row to unseal; sealed,   *)
(* it ignores everything but keys and seal.  The 32 bytes of a block       *)
(* are what they derive from (base) and whether they hold the parameters   *)
(* of the configuration (cfg).  It changes its mode at once here; the      *)
(* driver polls for a second, over single failures, and gives up when all  *)
(* of its reads fail, which counts as one failure.                         *)
(***************************************************************************)
EXTENDS Integers

CONSTANT MaxTrouble   \* bound: failed transfers and gauge resets in a call

ASSUME TroubleAssumption == MaxTrouble \in Nat

VARIABLES
  chip,     \* the gauge
  pc,       \* the next transfer, "idle", or "off" before bq_init
  call,     \* the call in progress, or the last one; "none" if neither counts
  config,   \* bq_init was given a configuration
  snap,     \* the snapshot: local of bq_init, or kept by the caller
  trouble,  \* history: failed transfers and gauge resets in the call
  spoilt    \* history: the gauge's block was bad when the call began

vars == <<chip, pc, call, config, snap, trouble, spoilt>>

Good == {"rom", "learned"}
\* Zeroes, or what a sealed or closed block reads as.
Bad == {"zero", "junk"}
NoSnap == [base |-> "none", cfg |-> FALSE]

-----------------------------------------------------------------------------
(* The gauge                                                               *)

PoweredUp(sealed) ==
  [sealed |-> sealed, keys |-> 0, cfgup |-> FALSE, itpor |-> TRUE,
   open |-> FALSE, class |-> "other", buf |-> [base |-> "junk", cfg |-> FALSE],
   mem |-> [base |-> "rom", cfg |-> FALSE], foreign |-> FALSE]

Key == IF chip.keys = 1 THEN [chip EXCEPT !.keys = 0, !.sealed = FALSE]
       ELSE [chip EXCEPT !.keys = 1]
Seal == [chip EXCEPT !.keys = 0, !.sealed = TRUE]
SetCfgUpdate == [chip EXCEPT !.keys = 0, !.cfgup = @ \/ ~chip.sealed]
SoftReset ==
  [chip EXCEPT !.keys = 0, !.cfgup = @ /\ chip.sealed,
               !.itpor = @ /\ (chip.sealed \/ ~chip.cfgup)]

Open == IF chip.sealed THEN chip ELSE [chip EXCEPT !.open = TRUE]
SelectState == IF chip.sealed THEN chip ELSE [chip EXCEPT !.class = "state"]
\* Writing the block's number copies the block to the buffer.
SelectBlock ==
  IF chip.sealed \/ chip.class # "state" THEN chip ELSE [chip EXCEPT !.buf = chip.mem]
Fill == IF chip.sealed \/ ~chip.open THEN chip ELSE [chip EXCEPT !.buf = snap]
\* The checksum stores the buffer in the block of the class, if it is right.
Commit ==
  IF chip.sealed \/ ~chip.open \/ ~chip.cfgup \/ chip.buf # snap THEN chip
  ELSE IF chip.class = "state" THEN [chip EXCEPT !.mem = snap]
  ELSE [chip EXCEPT !.foreign = TRUE]
ReadBuffer ==
  IF chip.sealed \/ ~chip.open \/ chip.class # "state"
  THEN [base |-> "junk", cfg |-> FALSE] ELSE chip.buf

-----------------------------------------------------------------------------

Init ==
  /\ \E sealed \in BOOLEAN : chip = PoweredUp(sealed)
  /\ pc = "off" /\ call = "none" /\ config = FALSE
  /\ snap = NoSnap /\ trouble = 0 /\ spoilt = FALSE

Steady == UNCHANGED <<call, config, spoilt>>

\* A transfer goes wrong.
Fails ==
  /\ trouble < MaxTrouble
  /\ trouble' = trouble + 1
  /\ UNCHANGED chip

Works(after) == chip' = after /\ UNCHANGED trouble

\* A write whose status the driver does not look at.
Write(from, to, after) ==
  /\ pc = from
  /\ Works(after) \/ Fails
  /\ pc' = to
  /\ Steady /\ UNCHANGED snap

Begin(c, to) ==
  /\ call' = c /\ pc' = to /\ trouble' = 0
  /\ spoilt' = (chip.mem.base \in Bad)

-----------------------------------------------------------------------------
(* bq_init                                                                 *)

\* The first transfer reads the flags; without them, or without a reason to
\* configure the gauge, nothing more is done.
BqInit(conf) ==
  /\ pc = "off"
  /\ config' = conf
  /\ IF chip.itpor \/ conf THEN Begin("init", "dump_key1") ELSE Begin("none", "idle")
  /\ UNCHANGED <<chip, snap>>

BqInitUnanswered ==
  /\ pc = "off"
  /\ Begin("none", "idle")
  /\ UNCHANGED <<chip, config, snap>>

\* bq_snapshot_create_default: parameters over what was dumped, or over zeroes.
WithDefaults(base) == [base |-> base, cfg |-> TRUE]

\* Mutant: the block is not cleared when the dump fails.
DumpedUncleared(ok, read) ==
  IF call = "init"
  THEN /\ pc' = "load_key1"
       /\ snap' = WithDefaults(IF ok THEN read.base ELSE snap.base)
  ELSE /\ pc' = "idle"
       /\ snap' = IF ok THEN read ELSE snap

\* Mutant: the parameters go over zeroes whether the dump failed or not.
DumpedForgotten(ok, read) ==
  IF call = "init"
  THEN /\ pc' = "load_key1"
       /\ snap' = WithDefaults("zero")
  ELSE /\ pc' = "idle"
       /\ snap' = IF ok THEN read ELSE snap

\* bq_snapshot_dump returns, to bq_init or to its caller.
Dumped(ok, read) ==
  IF call = "init"
  THEN /\ pc' = "load_key1"
       /\ snap' = WithDefaults(IF ok THEN read.base ELSE "zero")
  ELSE /\ pc' = "idle"
       /\ snap' = IF ok THEN read ELSE snap

-----------------------------------------------------------------------------
(* bq_snapshot_dump                                                        *)

DumpBegins ==
  /\ pc = "idle"
  /\ Begin("dump", "dump_key1")
  /\ UNCHANGED <<chip, config, snap>>

\* A write that must succeed; the gauge stays unsealed if it does not.
WriteOrReturn(from, to, after) ==
  /\ pc = from
  /\ Steady
  /\ \/ Works(after) /\ pc' = to /\ UNCHANGED snap
     \/ Fails /\ Dumped(FALSE, NoSnap)

DumpUnseals == Write("dump_key1", "dump_key2", Key) \/ Write("dump_key2", "dump_open", Key)
DumpOpens == WriteOrReturn("dump_open", "dump_class", Open)
\* Mutant: the class is not selected.
DumpSelectsSkipped == WriteOrReturn("dump_class", "dump_read", chip)
DumpSelects ==
  \/ WriteOrReturn("dump_class", "dump_block", SelectState)
  \/ WriteOrReturn("dump_block", "dump_read", SelectBlock)

DumpReads ==
  /\ pc = "dump_read"
  /\ Steady
  /\ \/ Works(chip) /\ snap' = ReadBuffer /\ pc' = "dump_seal"
     \/ Fails /\ UNCHANGED snap /\ pc' = "dump_fail"

DumpSeals ==
  /\ pc \in {"dump_seal", "dump_fail"}
  /\ Works(Seal) \/ Fails
  /\ Dumped(pc = "dump_seal", snap)
  /\ Steady

Dump == DumpUnseals \/ DumpOpens \/ DumpSelects \/ DumpReads \/ DumpSeals

-----------------------------------------------------------------------------
(* bq_snapshot_load                                                        *)

LoadBegins ==
  /\ pc = "idle" /\ snap # NoSnap
  /\ Begin("load", "load_key1")
  /\ UNCHANGED <<chip, config, snap>>

\* bq_enter_cfgupdate
LoadEnters ==
  \/ Write("load_key1", "load_key2", Key)
  \/ Write("load_key2", "load_cfg", Key)
  \/ Write("load_cfg", "load_poll", SetCfgUpdate)

\* The driver polls until the mode has changed, and gives up after a second.
Polls(from, changed, to) ==
  /\ pc = from
  /\ \/ pc' = (IF changed THEN to ELSE "idle") /\ UNCHANGED <<chip, trouble>>
     \/ pc' = "idle" /\ Fails
  /\ Steady /\ UNCHANGED snap

LoadPolls == Polls("load_poll", chip.cfgup, "load_open")

LoadSelects ==
  \/ Write("load_open", "load_class", Open)
  \/ Write("load_class", "load_block", SelectState)
  \/ Write("load_block", "load_data", SelectBlock)

LoadWrites ==
  \/ /\ pc = "load_data"
     /\ \/ Works(Fill) /\ pc' = "load_sum"
        \/ Fails /\ pc' = "load_reset"
     /\ Steady /\ UNCHANGED snap
  \/ Write("load_sum", "load_reset", Commit)

\* Mutant: the gauge is left as soon as it is out of its configuration mode.
LoadExitsUnsealed ==
  \/ Write("load_reset", "load_exit", SoftReset)
  \/ Polls("load_exit", ~chip.cfgup, "idle")

\* bq_exit_cfgupdate: the gauge is sealed only if it is seen to have left the mode.
LoadExits ==
  \/ Write("load_reset", "load_exit", SoftReset)
  \/ Polls("load_exit", ~chip.cfgup, "load_seal")
  \/ Write("load_seal", "idle", Seal)

Load == LoadEnters \/ LoadPolls \/ LoadSelects \/ LoadWrites \/ LoadExits

-----------------------------------------------------------------------------
(* bq_reset                                                                *)

ResetBegins ==
  /\ pc = "idle"
  /\ Begin("reset", "reset_key1")
  /\ UNCHANGED <<chip, config, snap>>

Reset ==
  \/ Write("reset_key1", "reset_key2", Key)
  \/ Write("reset_key2", "reset_soft", Key)
  \/ Write("reset_soft", "reset_seal", SoftReset)
  \/ Write("reset_seal", "idle", Seal)

-----------------------------------------------------------------------------
(* bq_sleep, bq_wakeup and bq_close                                        *)

\* A control write, which ends a sequence of keys; hibernation itself does
\* not show in what the driver configures.
Hibernate(to) ==
  /\ pc = "idle"
  /\ chip' = [chip EXCEPT !.keys = 0] \/ UNCHANGED chip
  /\ pc' = to /\ call' = "none"
  /\ snap' = IF to = "off" THEN NoSnap ELSE snap
  /\ trouble' = 0 /\ spoilt' = FALSE
  /\ UNCHANGED config

SleepOrWakeup == Hibernate("idle")

\* The port's driver is deleted: only bq_init can follow, without a snapshot.
BqClose == Hibernate("off")

-----------------------------------------------------------------------------
(* The environment                                                         *)

\* The gauge adapts its parameters to the battery.
Learn ==
  /\ ~chip.cfgup /\ chip.mem.base = "rom"
  /\ chip' = [chip EXCEPT !.mem.base = "learned"]
  /\ UNCHANGED <<pc, call, config, snap, trouble, spoilt>>

\* The gauge loses power; the history of a finished call ends with it.
GaugeResets ==
  /\ trouble < MaxTrouble
  /\ \E sealed \in BOOLEAN : chip' = PoweredUp(sealed)
  /\ trouble' = trouble + 1
  /\ UNCHANGED <<pc, call, config, snap, spoilt>>

\* The microcontroller restarts: bq_init comes next.
Restart ==
  /\ pc # "off"
  /\ pc' = "off" /\ call' = "none"
  /\ snap' = NoSnap /\ trouble' = 0 /\ spoilt' = FALSE
  /\ UNCHANGED <<chip, config>>

Next ==
  \/ \E conf \in BOOLEAN : BqInit(conf)
  \/ BqInitUnanswered
  \/ DumpBegins \/ Dump
  \/ LoadBegins \/ Load
  \/ ResetBegins \/ Reset
  \/ SleepOrWakeup \/ BqClose
  \/ Learn \/ GaugeResets \/ Restart

Spec == Init /\ [][Next]_vars

-----------------------------------------------------------------------------
(* Properties                                                              *)

\* The transfers of bq_snapshot_dump, bq_snapshot_load and bq_reset.
Dumping == {"dump_key1", "dump_key2", "dump_open", "dump_class", "dump_block",
            "dump_read", "dump_seal", "dump_fail"}
Loading == {"load_key1", "load_key2", "load_cfg", "load_poll", "load_open", "load_class",
            "load_block", "load_data", "load_sum", "load_reset", "load_exit", "load_seal"}
Resetting == {"reset_key1", "reset_key2", "reset_soft", "reset_seal"}

Blocks == [base : Good \cup Bad, cfg : BOOLEAN]
Chips == [sealed : BOOLEAN, keys : 0 .. 1, cfgup : BOOLEAN, itpor : BOOLEAN,
          open : BOOLEAN, class : {"other", "state"}, buf : Blocks, mem : Blocks,
          foreign : BOOLEAN]

(* Nothing is ever stored in the gauge, or read from it, that is not a       *)
(* block: in particular not the uninitialised one of bq_init.                *)
TypeOK ==
  /\ chip \in Chips
  /\ pc \in {"off", "idle"} \cup Dumping \cup Loading \cup Resetting
  /\ call \in {"none", "init", "dump", "load", "reset"}
  /\ snap \in Blocks \cup {NoSnap}
  /\ trouble \in 0 .. MaxTrouble /\ config \in BOOLEAN /\ spoilt \in BOOLEAN

Undisturbed(c) == pc = "idle" /\ call = c /\ trouble = 0

(* A call during which nothing fails leaves the gauge sealed, and all but a  *)
(* dump leave it out of its configuration mode, in whatever state restarts   *)
(* and failures of earlier calls had left it.                                *)
SealsAgain ==
  \A c \in {"init", "dump", "load", "reset"} :
    Undisturbed(c) => chip.sealed /\ (c = "dump" \/ ~chip.cfgup)

(* After such a bq_init the gauge has the parameters of the configuration,   *)
(* over what it had learned and not over zeroes, and will not ask for them   *)
(* again.                                                                    *)
Configures ==
  Undisturbed("init") =>
    chip.mem.cfg /\ ~chip.itpor /\ (spoilt \/ chip.mem.base \in Good)

(* bq_init selects the class twice, in the dump and in the load, and ignores *)
(* the second status: one failure is not enough for it to write the State    *)
(* block over another one.                                                   *)
OneFailureContained ==
  [][call = "init" /\ trouble' <= 1 => (chip'.foreign => chip.foreign)]_vars
=============================================================================
