--------------------------- MODULE FuelGaugeProofs ---------------------------
(***************************************************************************)
(* For any number of failed transfers and losses of power in a call:       *)
(*   - only blocks are stored in the gauge or read from it;                *)
(*   - a call during which nothing fails seals the gauge again, and such a *)
(*     bq_init configures it;                                              *)
(*   - one failure is not enough for bq_init to write over another block.  *)
(***************************************************************************)
EXTENDS FuelGauge, TLAPS

\* Between the keys and the seal.
Opened == {"dump_open", "dump_class", "dump_block", "dump_read", "dump_seal",
           "load_cfg", "load_poll", "load_open", "load_class", "load_block", "load_data",
           "load_sum", "load_reset", "load_exit", "load_seal", "reset_soft", "reset_seal"}

\* From the selection of the class to the checksum.
Selected == {"load_block", "load_data", "load_sum"}

\* Which call is where, and that it has a block where it stores one.
PlaceInv ==
  /\ TypeOK
  /\ pc = "off" => call = "none"
  /\ pc \in Dumping => call \in {"init", "dump"}
  /\ pc \in Loading => call \in {"init", "load"}
  /\ pc \in Resetting => call = "reset"
  /\ pc \in {"dump_seal"} \cup Loading => snap \in Blocks

\* A call so far undisturbed: two keys unseal the gauge, in whatever number
\* of keys an earlier call had left it.
SealInv ==
  trouble = 0 =>
    /\ pc # "dump_fail"
    /\ pc \in {"dump_key2", "load_key2", "reset_key2"} => chip.keys = 1 \/ ~chip.sealed
    /\ pc \in Opened => ~chip.sealed
    /\ pc \in {"load_poll", "load_open", "load_class", "load_reset"} \cup Selected
         => chip.cfgup
    /\ pc \in {"load_exit", "load_seal", "reset_seal"} => ~chip.cfgup
    /\ pc = "idle" /\ call # "none" => chip.sealed /\ (call = "dump" \/ ~chip.cfgup)

Configured == chip.mem.cfg /\ ~chip.itpor /\ (spoilt \/ chip.mem.base \in Good)

\* An undisturbed bq_init: what was learned goes from the gauge's block to
\* its buffer, to the snapshot, and back.
ConfigInv ==
  trouble = 0 /\ call = "init" =>
    /\ pc \in Dumping => spoilt \/ chip.mem.base \in Good
    /\ pc \in {"dump_class", "dump_block", "dump_read", "load_class"} \cup Selected
         => chip.open
    /\ pc \in {"dump_block", "dump_read", "dump_seal"} \cup Loading => chip.class = "state"
    /\ pc = "dump_read" => spoilt \/ chip.buf.base \in Good
    /\ pc = "dump_seal" => spoilt \/ snap.base \in Good
    /\ pc \in Loading => snap.cfg /\ (spoilt \/ snap.base \in Good)
    /\ pc = "load_sum" => chip.buf = snap
    /\ pc = "load_reset" => chip.mem = snap
    /\ pc \in {"load_exit", "load_seal", "idle"} => Configured

\* One failure may cost the selection of the class, in the dump or in the
\* load; or the gauge is not in a state to be written to.
ClassInv ==
  trouble <= 1 /\ call = "init" /\ pc \in Selected =>
    chip.class = "state" \/ chip.sealed \/ ~chip.cfgup

IInv == PlaceInv /\ SealInv /\ ConfigInv /\ ClassInv
-----------------------------------------------------------------------------
(* The gauge                                                               *)

LEMMA PoweredUpType ==
  ASSUME NEW sealed \in BOOLEAN
  PROVE  PoweredUp(sealed) \in Chips
BY DEF PoweredUp, Chips, Blocks, Good, Bad

LEMMA ChipChanges ==
  ASSUME chip \in Chips, NEW keys \in 0 .. 1, NEW a \in BOOLEAN, NEW b \in BOOLEAN
  PROVE  /\ [chip EXCEPT !.keys = keys] \in Chips
         /\ [chip EXCEPT !.keys = keys, !.sealed = a] \in Chips
         /\ [chip EXCEPT !.keys = keys, !.cfgup = a] \in Chips
         /\ [chip EXCEPT !.keys = keys, !.cfgup = a, !.itpor = b] \in Chips
BY DEF Chips

LEMMA KeyTypes ==
  ASSUME chip \in Chips
  PROVE  Key \in Chips /\ Seal \in Chips /\ SetCfgUpdate \in Chips /\ SoftReset \in Chips
<1>1. /\ 0 \in 0 .. 1 /\ 1 \in 0 .. 1
      /\ (chip.cfgup \/ ~chip.sealed) \in BOOLEAN
      /\ (chip.cfgup /\ chip.sealed) \in BOOLEAN
      /\ (chip.itpor /\ (chip.sealed \/ ~chip.cfgup)) \in BOOLEAN
  OBVIOUS
<1>2. Key \in Chips
  BY <1>1, ChipChanges DEF Key
<1>3. Seal \in Chips
  BY <1>1, ChipChanges DEF Seal
<1>4. SetCfgUpdate \in Chips
  BY <1>1, ChipChanges DEF SetCfgUpdate
<1>5. SoftReset \in Chips
  BY <1>1, ChipChanges DEF SoftReset
<1> QED BY <1>2, <1>3, <1>4, <1>5

LEMMA BlockTypes ==
  ASSUME chip \in Chips
  PROVE  /\ Open \in Chips /\ SelectState \in Chips /\ SelectBlock \in Chips
         /\ ReadBuffer \in Blocks
         /\ snap \in Blocks => Fill \in Chips /\ Commit \in Chips
<1>1. Open \in Chips /\ SelectState \in Chips /\ SelectBlock \in Chips
  BY DEF Open, SelectState, SelectBlock, Chips
<1>2. ReadBuffer \in Blocks
  BY DEF ReadBuffer, Chips, Blocks, Good, Bad
<1>3. snap \in Blocks => Fill \in Chips /\ Commit \in Chips
  BY DEF Fill, Commit, Chips
<1> QED BY <1>1, <1>2, <1>3

LEMMA InitInv == Init => IInv
<1> SUFFICES ASSUME Init PROVE IInv
  OBVIOUS
<1>1. chip \in Chips
  BY PoweredUpType DEF Init
<1>2. TypeOK
  <2>1. snap \in Blocks \cup {NoSnap} /\ config \in BOOLEAN /\ spoilt \in BOOLEAN
    BY DEF Init
  <2>2. trouble \in 0 .. MaxTrouble
    BY TroubleAssumption DEF Init
  <2> QED BY <1>1, <2>1, <2>2 DEF Init, TypeOK
<1> QED BY <1>2 DEF Init, IInv, PlaceInv, SealInv, ConfigInv, ClassInv, Dumping, Loading,
             Resetting, Opened, Selected

\* What each transfer leaves alone, and what it does when it is not ignored.
SameBlocks(after) ==
  /\ after.open = chip.open /\ after.class = chip.class
  /\ after.buf = chip.buf /\ after.mem = chip.mem /\ after.foreign = chip.foreign
SameMode(after) ==
  /\ after.sealed = chip.sealed /\ after.cfgup = chip.cfgup /\ after.itpor = chip.itpor

LEMMA KeyEffect ==
  ASSUME chip \in Chips
  PROVE  /\ SameBlocks(Key) /\ Key.cfgup = chip.cfgup /\ Key.itpor = chip.itpor
         /\ Key.keys = 1 \/ ~Key.sealed
         /\ chip.keys = 1 \/ ~chip.sealed => ~Key.sealed
BY DEF Key, SameBlocks, Chips

LEMMA SealEffect ==
  ASSUME chip \in Chips
  PROVE  /\ SameBlocks(Seal) /\ Seal.cfgup = chip.cfgup /\ Seal.itpor = chip.itpor
         /\ Seal.sealed
BY DEF Seal, SameBlocks, Chips

LEMMA SetCfgUpdateEffect ==
  ASSUME chip \in Chips
  PROVE  /\ SameBlocks(SetCfgUpdate) /\ SetCfgUpdate.sealed = chip.sealed
         /\ SetCfgUpdate.itpor = chip.itpor
         /\ ~chip.sealed => SetCfgUpdate.cfgup
BY DEF SetCfgUpdate, SameBlocks, Chips

LEMMA SoftResetEffect ==
  ASSUME chip \in Chips
  PROVE  /\ SameBlocks(SoftReset) /\ SoftReset.sealed = chip.sealed
         /\ ~chip.sealed => ~SoftReset.cfgup
         /\ ~chip.sealed /\ chip.cfgup => ~SoftReset.itpor
BY DEF SoftReset, SameBlocks, Chips

LEMMA SelectEffect ==
  ASSUME chip \in Chips
  PROVE  /\ SameMode(Open) /\ Open.class = chip.class /\ Open.buf = chip.buf
         /\ Open.mem = chip.mem /\ Open.foreign = chip.foreign
         /\ ~chip.sealed \/ chip.open => Open.open
         /\ SameMode(SelectState) /\ SelectState.open = chip.open
         /\ SelectState.buf = chip.buf /\ SelectState.mem = chip.mem
         /\ SelectState.foreign = chip.foreign
         /\ ~chip.sealed \/ chip.class = "state" => SelectState.class = "state"
         /\ SameMode(SelectBlock) /\ SelectBlock.open = chip.open
         /\ SelectBlock.class = chip.class /\ SelectBlock.mem = chip.mem
         /\ SelectBlock.foreign = chip.foreign
         /\ ~chip.sealed /\ chip.class = "state" => SelectBlock.buf = chip.mem
BY DEF Open, SelectState, SelectBlock, SameMode, Chips

LEMMA StoreEffect ==
  ASSUME chip \in Chips
  PROVE  /\ SameMode(Fill) /\ Fill.open = chip.open /\ Fill.class = chip.class
         /\ Fill.mem = chip.mem /\ Fill.foreign = chip.foreign
         /\ ~chip.sealed /\ chip.open => Fill.buf = snap
         /\ SameMode(Commit) /\ Commit.open = chip.open /\ Commit.class = chip.class
         /\ Commit.buf = chip.buf
         /\ ~chip.sealed /\ chip.open /\ chip.cfgup /\ chip.buf = snap /\ chip.class = "state"
              => Commit.mem = snap
         /\ chip.class = "state" \/ chip.sealed \/ ~chip.cfgup =>
              Commit.foreign = chip.foreign
BY DEF Fill, Commit, SameMode, Chips

-----------------------------------------------------------------------------
(* Places                                                                  *)

LEMMA DumpedPlace ==
  ASSUME NEW ok \in BOOLEAN, NEW read, PlaceInv, pc \in Dumping, Dumped(ok, read), Steady,
         chip' \in Chips, trouble' \in 0 .. MaxTrouble, ok => read \in Blocks
  PROVE  PlaceInv'
<1>1. /\ snap \in Blocks \cup {NoSnap} /\ call \in {"init", "dump"}
      /\ config \in BOOLEAN /\ spoilt \in BOOLEAN
  BY DEF PlaceInv, TypeOK
<1>2. /\ call' = call /\ config' \in BOOLEAN /\ spoilt' \in BOOLEAN
  BY <1>1 DEF Steady
<1>3. CASE call = "init"
  <2>1. PICK base \in Good \cup Bad : snap' = WithDefaults(base)
    BY <1>3 DEF Dumped, Blocks, Bad
  <2>2. snap' \in Blocks
    BY <2>1 DEF WithDefaults, Blocks
  <2>3. TypeOK' /\ pc' = "load_key1"
    BY <1>2, <1>3, <2>2 DEF Dumped, Loading, TypeOK
  <2> QED BY <1>2, <1>3, <2>2, <2>3 DEF PlaceInv, Dumping, Loading, Resetting
<1>4. CASE call = "dump"
  <2>1. snap' \in Blocks \cup {NoSnap} /\ pc' = "idle"
    BY <1>1, <1>4 DEF Dumped
  <2>2. TypeOK'
    BY <1>2, <1>4, <2>1 DEF TypeOK
  <2> QED BY <1>2, <1>4, <2>1, <2>2 DEF PlaceInv, Dumping, Loading, Resetting
<1> QED BY <1>1, <1>3, <1>4

LEMMA PlaceStep == PlaceInv /\ [Next]_vars => PlaceInv'
<1> SUFFICES ASSUME PlaceInv, [Next]_vars PROVE PlaceInv'
  OBVIOUS
<1> USE TroubleAssumption DEF Dumping, Loading, Resetting
<1>0. /\ chip \in Chips /\ pc \in {"off", "idle"} \cup Dumping \cup Loading \cup Resetting
      /\ call \in {"none", "init", "dump", "load", "reset"}
      /\ snap \in Blocks \cup {NoSnap}
      /\ trouble \in 0 .. MaxTrouble /\ config \in BOOLEAN /\ spoilt \in BOOLEAN
  BY DEF PlaceInv, TypeOK
<1>1. /\ Key \in Chips /\ Seal \in Chips /\ SetCfgUpdate \in Chips
      /\ SoftReset \in Chips /\ Open \in Chips /\ SelectState \in Chips
      /\ SelectBlock \in Chips /\ ReadBuffer \in Blocks
      /\ snap \in Blocks => Fill \in Chips /\ Commit \in Chips
  BY <1>0, KeyTypes, BlockTypes
<1>2. Fails => chip' \in Chips /\ trouble' \in 0 .. MaxTrouble
  BY <1>0 DEF Fails
<1>3. ASSUME NEW after \in Chips, Works(after)
      PROVE  chip' \in Chips /\ trouble' \in 0 .. MaxTrouble
  BY <1>0, <1>1, <1>3 DEF Works, TypeOK
<1>4. ASSUME NEW from, NEW to, NEW after \in Chips, Write(from, to, after),
             to \in {"idle"} \cup Dumping \cup Loading \cup Resetting,
             to \in Dumping \/ to = "idle" \/ from \in Loading \cup Resetting,
             to \in Loading \/ to = "idle" \/ from \in Dumping \cup Resetting,
             to \in Resetting \/ to = "idle" \/ from \in Loading \cup Dumping,
             to # "dump_seal"
      PROVE  PlaceInv'
  <2>1. chip' \in Chips /\ trouble' \in 0 .. MaxTrouble
    BY <1>2, <1>3, <1>4 DEF Write
  <2>2. pc = from /\ pc' = to /\ Steady /\ UNCHANGED snap
    BY <1>4 DEF Write
  <2>3. TypeOK'
    BY <1>0, <1>1, <1>4, <2>1, <2>2 DEF Steady, TypeOK
  <2> QED BY <1>4, <2>2, <2>3 DEF Steady, PlaceInv
<1>5. ASSUME NEW from \in Dumping, NEW to \in Dumping, NEW after \in Chips,
             WriteOrReturn(from, to, after), to # "dump_seal"
      PROVE  PlaceInv'
  <2>1. CASE Works(after) /\ pc' = to /\ UNCHANGED snap
    <3>1. TypeOK'
      BY <1>0, <1>1, <1>3, <1>5, <2>1 DEF WriteOrReturn, Steady, TypeOK
    <3> QED BY <1>5, <2>1, <3>1 DEF WriteOrReturn, Steady, PlaceInv
  <2>2. CASE Fails /\ Dumped(FALSE, NoSnap)
    BY <1>2, <1>5, <2>2, DumpedPlace DEF WriteOrReturn
  <2> QED BY <1>5, <2>1, <2>2 DEF WriteOrReturn
<1>6. CASE DumpUnseals
  BY <1>0, <1>1, <1>4, <1>6 DEF DumpUnseals
<1>7. CASE DumpOpens \/ DumpSelects
  BY <1>0, <1>1, <1>5, <1>7 DEF DumpOpens, DumpSelects
<1>8. CASE DumpReads
  <2>1. TypeOK'
    BY <1>0, <1>1, <1>2, <1>3, <1>8 DEF DumpReads, Steady, TypeOK
  <2> QED BY <1>0, <1>1, <1>8, <2>1 DEF DumpReads, Steady, PlaceInv
<1>9. CASE DumpSeals
  <2>1. chip' \in Chips /\ trouble' \in 0 .. MaxTrouble
    BY <1>0, <1>1, <1>2, <1>3, <1>9 DEF DumpSeals
  <2> QED BY <1>0, <1>1, <1>9, <2>1, DumpedPlace DEF DumpSeals, PlaceInv
<1>10. CASE LoadEnters \/ LoadSelects
  BY <1>0, <1>1, <1>4, <1>10 DEF LoadEnters, LoadSelects
<1>11. CASE LoadPolls
  <2>1. /\ pc = "load_poll" /\ pc' \in {"idle", "load_open"}
        /\ UNCHANGED chip /\ trouble' \in 0 .. MaxTrouble /\ Steady /\ UNCHANGED snap
    BY <1>0, <1>1, <1>2, <1>11 DEF LoadPolls, Polls, Fails, TypeOK
  <2>2. TypeOK'
    BY <1>0, <1>1, <2>1 DEF Steady, TypeOK
  <2> QED BY <2>1, <2>2 DEF Steady, PlaceInv
<1>12. CASE LoadWrites
  <2>1. CASE Write("load_sum", "load_reset", Commit)
    <3>1. snap \in Blocks
      BY <2>1 DEF Write, PlaceInv
    <3> QED BY <1>0, <1>1, <1>4, <2>1, <3>1
  <2>2. CASE pc = "load_data" /\ pc' \in {"load_sum", "load_reset"}
             /\ (Works(Fill) \/ Fails) /\ Steady /\ UNCHANGED snap
    <3>1. snap \in Blocks
      BY <2>2 DEF PlaceInv
    <3>2. TypeOK'
      BY <1>0, <1>1, <1>2, <1>3, <2>2, <3>1 DEF Steady, TypeOK
    <3> QED BY <2>2, <3>1, <3>2 DEF Steady, PlaceInv
  <2> QED BY <1>12, <2>1, <2>2 DEF LoadWrites
<1>13. CASE LoadExits
  <2>1. CASE Write("load_reset", "load_exit", SoftReset) \/ Write("load_seal", "idle", Seal)
    BY <1>0, <1>1, <1>4, <2>1
  <2>2. CASE pc = "load_exit" /\ pc' \in {"idle", "load_seal"} /\ Steady
             /\ UNCHANGED <<chip, snap>> /\ trouble' \in 0 .. MaxTrouble
    <3>1. TypeOK'
      BY <1>0, <1>1, <2>2 DEF Steady, TypeOK
    <3> QED BY <2>2, <3>1 DEF Steady, PlaceInv
  <2>3. ASSUME Polls("load_exit", ~chip.cfgup, "load_seal")
        PROVE  /\ pc = "load_exit" /\ pc' \in {"idle", "load_seal"} /\ Steady
               /\ UNCHANGED <<chip, snap>> /\ trouble' \in 0 .. MaxTrouble
    BY <1>0, <1>2, <2>3 DEF Polls, Fails, TypeOK
  <2> QED BY <1>13, <2>1, <2>2, <2>3 DEF LoadExits
<1>14. CASE Reset
  BY <1>0, <1>1, <1>4, <1>14 DEF Reset
<1>15. ASSUME NEW c \in {"none", "init", "dump", "load", "reset"}, NEW to,
              Begin(c, to)
       PROVE  /\ call' = c /\ pc' = to /\ trouble' \in 0 .. MaxTrouble
              /\ spoilt' \in BOOLEAN
  BY <1>15 DEF Begin
<1>16. CASE (\E conf \in BOOLEAN : BqInit(conf)) \/ BqInitUnanswered
  <2>1. /\ call' \in {"none", "init"}
        /\ pc' = IF call' = "init" THEN "dump_key1" ELSE "idle"
        /\ trouble' \in 0 .. MaxTrouble /\ spoilt' \in BOOLEAN /\ config' \in BOOLEAN
        /\ UNCHANGED <<chip, snap>>
    BY <1>0, <1>1, <1>15, <1>16 DEF BqInit, BqInitUnanswered, TypeOK
  <2>2. TypeOK'
    BY <1>0, <1>1, <2>1 DEF TypeOK
  <2> QED BY <2>1, <2>2 DEF PlaceInv
<1>17. CASE DumpBegins \/ LoadBegins \/ ResetBegins
  <2>1. /\ \/ call' = "dump" /\ pc' = "dump_key1"
           \/ call' = "load" /\ pc' = "load_key1" /\ snap # NoSnap
           \/ call' = "reset" /\ pc' = "reset_key1"
        /\ trouble' \in 0 .. MaxTrouble /\ spoilt' \in BOOLEAN
        /\ UNCHANGED <<chip, config, snap>>
    BY <1>15, <1>17 DEF DumpBegins, LoadBegins, ResetBegins
  <2>2. TypeOK'
    BY <1>0, <1>1, <2>1 DEF TypeOK
  <2>3. snap \in Blocks \cup {NoSnap}
    BY <1>0, <1>1 DEF TypeOK
  <2> QED BY <2>1, <2>2, <2>3 DEF PlaceInv
<1>18. CASE SleepOrWakeup \/ BqClose
  <2>1. [chip EXCEPT !.keys = 0] \in Chips
    BY <1>0, <1>1 DEF Chips
  <2>2. /\ chip' \in Chips /\ snap' \in Blocks \cup {NoSnap} /\ pc' \in {"idle", "off"}
        /\ call' = "none" /\ trouble' = 0 /\ config' \in BOOLEAN
    BY <1>0, <1>18, <2>1 DEF SleepOrWakeup, BqClose, Hibernate
  <2>3. spoilt' \in BOOLEAN
    BY <1>18 DEF SleepOrWakeup, BqClose, Hibernate
  <2>4. TypeOK'
    BY <2>2, <2>3 DEF TypeOK
  <2> QED BY <2>2, <2>4 DEF PlaceInv
<1>19. CASE Learn
  <2>1. chip' \in Chips
    BY <1>0, <1>1, <1>19 DEF Learn, Chips, Blocks, Good
  <2>2. TypeOK'
    BY <1>0, <1>1, <1>19, <2>1 DEF Learn, TypeOK
  <2> QED BY <1>19, <2>2 DEF Learn, PlaceInv
<1>20. CASE GaugeResets
  <2>1. TypeOK'
    BY <1>0, <1>1, <1>20, PoweredUpType DEF GaugeResets, TypeOK
  <2> QED BY <1>20, <2>1 DEF GaugeResets, PlaceInv
<1>21. CASE Restart
  <2>1. /\ chip' \in Chips /\ snap' \in Blocks \cup {NoSnap}
        /\ trouble' = 0 /\ config' \in BOOLEAN /\ spoilt' \in BOOLEAN
    BY <1>0, <1>21 DEF Restart
  <2>2. TypeOK'
    BY <1>21, <2>1 DEF Restart, TypeOK
  <2> QED BY <1>21, <2>2 DEF Restart, PlaceInv
<1>22. CASE UNCHANGED vars
  <2>1. TypeOK'
    BY <1>0, <1>1, <1>22 DEF vars, TypeOK
  <2> QED BY <1>22, <2>1 DEF vars, PlaceInv
<1> QED BY <1>6, <1>7, <1>8, <1>9, <1>10, <1>11, <1>12, <1>13, <1>14, <1>16, <1>17, <1>18,
           <1>19, <1>20, <1>21, <1>22 DEF Next, Dump, Load
-----------------------------------------------------------------------------
(* Calls that nothing disturbs                                             *)

LEMMA NoFailure ==
  ASSUME trouble \in Nat, trouble' = 0
  PROVE  /\ ~Fails
         /\ \A after : Works(after) => chip' = after /\ trouble = 0
         /\ \A from, to, after :
              Write(from, to, after) => /\ pc = from /\ pc' = to /\ chip' = after
                                        /\ trouble = 0 /\ UNCHANGED <<call, config, spoilt, snap>>
         /\ \A from, to, after :
              WriteOrReturn(from, to, after) =>
                /\ pc = from /\ pc' = to /\ chip' = after
                /\ trouble = 0 /\ UNCHANGED <<call, config, spoilt, snap>>
<1>1. ~Fails
  BY DEF Fails
<1>2. ASSUME NEW after, Works(after)
      PROVE  chip' = after /\ trouble = 0
  BY <1>2 DEF Works
<1> QED BY <1>1, <1>2 DEF Write, WriteOrReturn, Steady

LEMMA SealStep == PlaceInv /\ SealInv /\ [Next]_vars => SealInv'
<1> SUFFICES ASSUME PlaceInv, SealInv, [Next]_vars, trouble' = 0
             PROVE  SealInv'
  BY DEF SealInv
<1> USE DEF Opened, Selected
<1>1. chip \in Chips /\ trouble \in Nat
  BY TroubleAssumption DEF PlaceInv, TypeOK
<1>2. CASE DumpUnseals
  BY <1>1, <1>2, NoFailure, KeyEffect DEF DumpUnseals, SealInv
<1>3. CASE DumpOpens
  BY <1>1, <1>3, NoFailure, SelectEffect DEF DumpOpens, SealInv, SameMode
<1>4. CASE DumpSelects
  BY <1>1, <1>4, NoFailure, SelectEffect DEF DumpSelects, SealInv, SameMode
<1>5. CASE DumpReads
  BY <1>1, <1>5, NoFailure DEF DumpReads, Steady, SealInv
<1>6. CASE DumpSeals
  BY <1>1, <1>6, NoFailure, SealEffect DEF DumpSeals, Dumped, Steady, SealInv, PlaceInv, Dumping
<1>7. CASE LoadEnters
  BY <1>1, <1>7, NoFailure, KeyEffect, SetCfgUpdateEffect DEF LoadEnters, SealInv
<1>8. CASE LoadPolls
  BY <1>1, <1>8, NoFailure DEF LoadPolls, Polls, Steady, SealInv
<1>9. CASE LoadSelects
  BY <1>1, <1>9, NoFailure, SelectEffect DEF LoadSelects, SealInv, SameMode
<1>10. CASE LoadWrites
  BY <1>1, <1>10, NoFailure, StoreEffect DEF LoadWrites, Steady, SealInv, SameMode
<1>11. CASE LoadExits
  BY <1>1, <1>11, NoFailure, SoftResetEffect, SealEffect DEF LoadExits, Polls, Steady, SealInv
<1>12. CASE Reset
  BY <1>1, <1>12, NoFailure, KeyEffect, SoftResetEffect, SealEffect DEF Reset, SealInv
<1>13. CASE (\E conf \in BOOLEAN : BqInit(conf)) \/ BqInitUnanswered
            \/ DumpBegins \/ LoadBegins \/ ResetBegins
  BY <1>13 DEF BqInit, BqInitUnanswered, DumpBegins, LoadBegins, ResetBegins, Begin, SealInv
<1>14. CASE SleepOrWakeup \/ BqClose \/ Restart
  BY <1>14 DEF SleepOrWakeup, BqClose, Hibernate, Restart, SealInv
<1>15. CASE Learn
  BY <1>1, <1>15 DEF Learn, SealInv, Chips
<1>16. CASE GaugeResets
  BY <1>1, <1>16 DEF GaugeResets
<1>17. CASE UNCHANGED vars
  BY <1>17 DEF vars, SealInv
<1> QED BY <1>2, <1>3, <1>4, <1>5, <1>6, <1>7, <1>8, <1>9, <1>10, <1>11, <1>12, <1>13,
           <1>14, <1>15, <1>16, <1>17 DEF Next, Dump, Load

LEMMA ConfigStep == PlaceInv /\ SealInv /\ ConfigInv /\ [Next]_vars => ConfigInv'
<1> SUFFICES ASSUME PlaceInv, SealInv, ConfigInv, [Next]_vars, trouble' = 0, call' = "init"
             PROVE  ConfigInv'
  BY DEF ConfigInv
<1> USE DEF Opened, Selected, Dumping, Loading
<1>1. chip \in Chips /\ trouble \in Nat
  BY TroubleAssumption DEF PlaceInv, TypeOK
<1>2. CASE DumpUnseals
  BY <1>1, <1>2, NoFailure, KeyEffect DEF DumpUnseals, ConfigInv, SameBlocks
<1>3. CASE DumpOpens
  BY <1>1, <1>3, NoFailure, SelectEffect DEF DumpOpens, SealInv, ConfigInv, SameMode
<1>4. CASE DumpSelects
  BY <1>1, <1>4, NoFailure, SelectEffect DEF DumpSelects, SealInv, ConfigInv, SameMode
<1>5. CASE DumpReads
  BY <1>1, <1>5, NoFailure DEF DumpReads, Steady, ReadBuffer, SealInv, ConfigInv
<1>6. CASE DumpSeals
  BY <1>1, <1>6, NoFailure, SealEffect
     DEF DumpSeals, Dumped, WithDefaults, Steady, SealInv, ConfigInv, SameBlocks
<1>7. CASE LoadEnters
  BY <1>1, <1>7, NoFailure, KeyEffect, SetCfgUpdateEffect
     DEF LoadEnters, ConfigInv, SameBlocks
<1>8. CASE LoadPolls
  BY <1>1, <1>8, NoFailure DEF LoadPolls, Polls, Steady, SealInv, ConfigInv
<1>9. CASE LoadSelects
  BY <1>1, <1>9, NoFailure, SelectEffect DEF LoadSelects, SealInv, ConfigInv, SameMode
<1>10. CASE LoadWrites
  BY <1>1, <1>10, NoFailure, StoreEffect DEF LoadWrites, Steady, SealInv, ConfigInv, SameMode
<1>11. CASE LoadExits
  BY <1>1, <1>11, NoFailure, SoftResetEffect, SealEffect
     DEF LoadExits, Polls, Steady, SealInv, ConfigInv, Configured, SameBlocks
<1>12. CASE Reset
  BY <1>1, <1>12, NoFailure DEF Reset, PlaceInv, Resetting
<1>13. CASE (\E conf \in BOOLEAN : BqInit(conf)) \/ BqInitUnanswered
            \/ DumpBegins \/ LoadBegins \/ ResetBegins
  BY <1>1, <1>13 DEF BqInit, BqInitUnanswered, DumpBegins, LoadBegins, ResetBegins, Begin,
                     ConfigInv, Chips, Blocks
<1>14. CASE SleepOrWakeup \/ BqClose \/ Restart
  BY <1>14 DEF SleepOrWakeup, BqClose, Hibernate, Restart
<1>15. CASE Learn
  BY <1>1, <1>15 DEF Learn, SealInv, ConfigInv, Configured, Chips, Blocks, Good
<1>16. CASE GaugeResets
  BY <1>1, <1>16 DEF GaugeResets
<1>17. CASE UNCHANGED vars
  BY <1>17 DEF vars, ConfigInv, Configured
<1> QED BY <1>2, <1>3, <1>4, <1>5, <1>6, <1>7, <1>8, <1>9, <1>10, <1>11, <1>12, <1>13,
           <1>14, <1>15, <1>16, <1>17 DEF Next, Dump, Load
-----------------------------------------------------------------------------
(* One failure                                                             *)

\* A transfer of an undisturbed call that fails, or any transfer that works.
LEMMA OneFailure ==
  ASSUME trouble \in Nat, trouble' <= 1
  PROVE  /\ Fails => trouble = 0 /\ chip' = chip
         /\ \A after : Works(after) => chip' = after /\ trouble <= 1
BY DEF Fails, Works

LEMMA ClassStep == PlaceInv /\ SealInv /\ ConfigInv /\ ClassInv /\ [Next]_vars => ClassInv'
<1> SUFFICES ASSUME PlaceInv, SealInv, ConfigInv, ClassInv, [Next]_vars,
                    trouble' <= 1, call' = "init", pc' \in Selected
             PROVE  chip'.class = "state" \/ chip'.sealed \/ ~chip'.cfgup
  BY DEF ClassInv
<1> USE DEF Selected
<1>1. chip \in Chips /\ trouble \in Nat
  BY TroubleAssumption DEF PlaceInv, TypeOK
<1>2. ASSUME NEW from, NEW after, Write(from, pc', after)
      PROVE  /\ pc = from /\ call = "init"
             /\ (chip' = chip /\ trouble = 0) \/ (chip' = after /\ trouble <= 1)
  BY <1>1, <1>2, OneFailure DEF Write, Steady
<1>3. CASE Write("load_class", "load_block", SelectState)
  BY <1>1, <1>2, <1>3, SelectEffect DEF Write, ConfigInv, SameMode, Loading
<1>4. CASE Write("load_block", "load_data", SelectBlock)
  BY <1>1, <1>2, <1>4, SelectEffect DEF Write, ClassInv, SameMode
<1>5. CASE LoadWrites
  <2>1. pc = "load_data" /\ call = "init" /\ (Works(Fill) \/ Fails)
    BY <1>5 DEF LoadWrites, Write, Steady
  <2> QED BY <1>1, <2>1, OneFailure, StoreEffect DEF ClassInv, SameMode
<1>6. CASE Learn
  BY <1>1, <1>6 DEF Learn, ClassInv, Chips
<1>7. CASE GaugeResets
  BY <1>7 DEF GaugeResets, PoweredUp
<1>8. CASE UNCHANGED vars
  BY <1>8 DEF vars, ClassInv
<1>9. CASE Dump
  <2>1. pc' \in Dumping \cup {"load_key1", "idle"}
    BY <1>9 DEF Dump, DumpUnseals, DumpOpens, DumpSelects, DumpReads, DumpSeals, Write,
                WriteOrReturn, Dumped, Dumping
  <2> QED BY <2>1 DEF Dumping
<1>10. CASE LoadEnters \/ LoadPolls \/ LoadExits \/ Reset \/ Write("load_open", "load_class", Open)
  BY <1>10 DEF LoadEnters, LoadPolls, LoadExits, Polls, Reset, Write
<1>11. CASE (\E conf \in BOOLEAN : BqInit(conf)) \/ BqInitUnanswered
            \/ DumpBegins \/ LoadBegins \/ ResetBegins \/ SleepOrWakeup \/ BqClose \/ Restart
  BY <1>11 DEF BqInit, BqInitUnanswered, DumpBegins, LoadBegins, ResetBegins, Begin,
               SleepOrWakeup, BqClose, Hibernate, Restart
<1> QED BY <1>3, <1>4, <1>5, <1>6, <1>7, <1>8, <1>9, <1>10, <1>11 DEF Next, Load, LoadSelects

LEMMA IInvStep == IInv /\ [Next]_vars => IInv'
BY PlaceStep, SealStep, ConfigStep, ClassStep DEF IInv

LEMMA AlwaysIInv == Spec => []IInv
BY InitInv, IInvStep, PTL DEF Spec

\* Only the checksum stores a block.
LEMMA StoresInState ==
  IInv /\ [Next]_vars /\ call = "init" /\ trouble' <= 1 => (chip'.foreign => chip.foreign)
<1> SUFFICES ASSUME IInv, [Next]_vars, call = "init", trouble' <= 1
             PROVE  chip'.foreign => chip.foreign
  OBVIOUS
<1>1. chip \in Chips /\ trouble \in Nat
  BY TroubleAssumption DEF IInv, PlaceInv, TypeOK
<1>2. CASE Write("load_sum", "load_reset", Commit)
  <2>1. pc = "load_sum" /\ (chip' = chip \/ (chip' = Commit /\ trouble <= 1))
    BY <1>1, <1>2, OneFailure DEF Write
  <2>2. chip' = Commit => chip.class = "state" \/ chip.sealed \/ ~chip.cfgup \/ chip' = chip
    BY <2>1 DEF IInv, ClassInv, Selected
  <2> QED BY <1>1, <2>1, <2>2, StoreEffect
<1>3. /\ Key.foreign = chip.foreign /\ Seal.foreign = chip.foreign
      /\ SetCfgUpdate.foreign = chip.foreign /\ SoftReset.foreign = chip.foreign
      /\ Open.foreign = chip.foreign /\ SelectState.foreign = chip.foreign
      /\ SelectBlock.foreign = chip.foreign /\ Fill.foreign = chip.foreign
  BY <1>1, KeyEffect, SealEffect, SetCfgUpdateEffect, SoftResetEffect, SelectEffect,
     StoreEffect DEF SameBlocks
<1>4. ASSUME NEW after, Works(after) \/ Fails, after.foreign = chip.foreign
      PROVE  chip'.foreign = chip.foreign
  BY <1>4 DEF Works, Fails
<1>5. CASE DumpUnseals \/ LoadEnters \/ LoadSelects \/ Reset
  BY <1>3, <1>4, <1>5 DEF DumpUnseals, LoadEnters, LoadSelects, Reset, Write
<1>6. CASE DumpOpens \/ DumpSelects
  BY <1>3, <1>4, <1>6 DEF DumpOpens, DumpSelects, WriteOrReturn
<1>7. CASE DumpReads \/ DumpSeals
  BY <1>3, <1>4, <1>7 DEF DumpReads, DumpSeals
<1>8. CASE LoadPolls \/ LoadExits
  BY <1>3, <1>4, <1>8 DEF LoadPolls, LoadExits, Polls, Fails, Write
<1>9. CASE LoadWrites
  BY <1>2, <1>3, <1>4, <1>9 DEF LoadWrites
<1>10. CASE (\E conf \in BOOLEAN : BqInit(conf)) \/ BqInitUnanswered
            \/ DumpBegins \/ LoadBegins \/ ResetBegins \/ Restart
  BY <1>10 DEF BqInit, BqInitUnanswered, DumpBegins, LoadBegins, ResetBegins, Restart
<1>11. CASE SleepOrWakeup \/ BqClose
  BY <1>1, <1>11 DEF SleepOrWakeup, BqClose, Hibernate, Chips
<1>12. CASE Learn
  BY <1>1, <1>12 DEF Learn, Chips
<1>13. CASE GaugeResets
  BY <1>13 DEF GaugeResets, PoweredUp
<1>14. CASE UNCHANGED vars
  BY <1>14 DEF vars
<1> QED BY <1>5, <1>6, <1>7, <1>8, <1>9, <1>10, <1>11, <1>12, <1>13, <1>14 DEF Next, Dump, Load

-----------------------------------------------------------------------------

(* Only blocks are stored in the gauge or read from it, wherever transfers   *)
(* fail, the gauge loses power or the microcontroller restarts: the          *)
(* snapshot of bq_init, a local variable without a value, is always filled   *)
(* before it is written.                                                     *)
THEOREM TypeCorrect == Spec => []TypeOK
<1>1. IInv => TypeOK
  BY DEF IInv, PlaceInv
<1> QED BY <1>1, AlwaysIInv, PTL

(* A call without failures seals the gauge again and, but for a dump, leaves *)
(* it out of its configuration mode, in whatever state it was found.         *)
THEOREM SealedAfterwards == Spec => []SealsAgain
<1>1. IInv => SealsAgain
  BY DEF IInv, SealInv, SealsAgain, Undisturbed
<1> QED BY <1>1, AlwaysIInv, PTL

(* A bq_init without failures leaves the parameters of the configuration in  *)
(* the gauge, over what it had learned.                                      *)
THEOREM ConfiguredAfterwards == Spec => []Configures
<1>1. IInv => Configures
  BY DEF IInv, ConfigInv, Configured, Configures, Undisturbed
<1> QED BY <1>1, AlwaysIInv, PTL

(* One failed transfer or loss of power during bq_init never makes it write  *)
(* the State block over another one, at whichever transfer it comes.         *)
THEOREM OneFailureKept == Spec => OneFailureContained
<1>1. IInv /\ [Next]_vars =>
        [call = "init" /\ trouble' <= 1 => (chip'.foreign => chip.foreign)]_vars
  BY StoresInState
<1> QED BY <1>1, AlwaysIInv, PTL DEF Spec, OneFailureContained
=============================================================================
