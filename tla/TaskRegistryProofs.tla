------------------------- MODULE TaskRegistryProofs -------------------------
(***************************************************************************)
(* The task table, for any number of callers, handles, subsystems and      *)
(* slots, every caller preempted anywhere outside of task_delete.          *)
(*                                                                         *)
(* However many create and kill, the table is well typed and every task is *)
(* passed to vTaskDelete at most once.  DeleteOnce is not inductive: that  *)
(* a handle claimed by one caller is not claimed by another rests on it    *)
(* being in one slot of the table only, and that on a handle not yet       *)
(* registered being in no slot at all.                                     *)
(*                                                                         *)
(* With one creator, and any number of killers that shift the table while  *)
(* it is inside task_add, no task is orphaned and the calls implement      *)
(* TaskLifecycle: num never passes the slot being filled, and the slots    *)
(* between them stay free (TableInv).  With two creators it is false.      *)
(*                                                                         *)
(* With one killer besides, kill_subsystem stops the whole subsystem and   *)
(* nothing else, the creator filling slots under its scan: what it has     *)
(* copied stays somewhere in the table, and what it has promised to stop   *)
(* is in its copy or ahead of it (HuntInv).  With two killers it is false. *)
(***************************************************************************)
EXTENDS TaskRegistry, FiniteSetTheorems, FunctionTheorems, TLAPS

\* Callers that alone are responsible for the handle they hold.
Exclusive == {"add_load", "add_handle"} \cup Deleting

OneSlotEach ==
  \A i, j \in Slots :
    list[i].handle = list[j].handle /\ list[i].handle # NoHandle => i = j

RegisteredLive == \A i \in Slots : list[i].handle # NoHandle => list[i].handle \in live

HeldOutside ==
  \A c \in Callers : pc[c] \in Exclusive =>
    /\ hdl[c] \in live
    /\ \A i \in Slots : list[i].handle # hdl[c]

HeldOnce ==
  \A c, d \in Callers :
    c # d /\ pc[c] \in Exclusive /\ pc[d] \in Exclusive => hdl[c] # hdl[d]

Ownership == OneSlotEach /\ RegisteredLive /\ HeldOutside /\ HeldOnce

IInv == TypeOK /\ Ownership

-----------------------------------------------------------------------------

\* What the critical section of task_delete leaves in the table.
LEMMA TaskDeleteEffect ==
  ASSUME TypeOK, OneSlotEach, RegisteredLive, NEW h \in Handles, TaskDelete(h)
  PROVE  /\ list' \in [Slots -> [handle : Handles \cup {NoHandle}, subsys : Subsys]]
         /\ num' \in 0 .. TasksMax
         /\ h \in live
         /\ \A i \in Slots : list'[i].handle # h
         /\ \A i \in Slots : list'[i].handle = NoHandle
                             \/ \E j \in Slots : list'[i].handle = list[j].handle
         /\ OneSlotEach'
<1>1. PICK k \in Slots : /\ FoundAt(h, k)
                         /\ list' = Without(k)
                         /\ num' = num - 1
  BY DEF TaskDelete
<1>2. k < num /\ list[k].handle = h /\ num \in 0 .. TasksMax /\ TasksMax \in Nat
  BY <1>1, RegistryAssumption DEF FoundAt, TypeOK
<1>3. h # NoHandle
  BY RegistryAssumption
<1>4. ASSUME NEW i \in Slots
      PROVE  \/ list'[i] = EmptySlot
             \/ i < k /\ list'[i] = list[i]
             \/ i > num - 1 /\ list'[i] = list[i]
             \/ i + 1 \in Slots /\ k <= i /\ i < num - 1 /\ list'[i] = list[i + 1]
  BY <1>1, <1>2 DEF Without, Slots
<1>5. EmptySlot \in [handle : Handles \cup {NoHandle}, subsys : Subsys]
  BY RegistryAssumption DEF EmptySlot
<1>6. list' \in [Slots -> [handle : Handles \cup {NoHandle}, subsys : Subsys]]
  <2>1. ASSUME NEW i \in Slots
        PROVE  list'[i] \in [handle : Handles \cup {NoHandle}, subsys : Subsys]
    BY <1>4, <1>5 DEF TypeOK
  <2> QED BY <1>1, <2>1 DEF Without
<1>7. num' \in 0 .. TasksMax
  BY <1>1, <1>2 DEF Slots
<1>8. h \in live
  BY <1>2, <1>3 DEF RegisteredLive
<1>9. \A i \in Slots : list'[i].handle # h
  <2> SUFFICES ASSUME NEW i \in Slots, list'[i].handle = h
               PROVE  FALSE
    OBVIOUS
  <2>1. list'[i] # EmptySlot
    BY <1>3 DEF EmptySlot
  <2> QED BY <1>2, <1>3, <1>4, <2>1 DEF OneSlotEach, Slots
<1>10. \A i \in Slots : list'[i].handle = NoHandle
                        \/ \E j \in Slots : list'[i].handle = list[j].handle
  BY <1>4 DEF EmptySlot
<1>11. OneSlotEach'
  <2> SUFFICES ASSUME NEW i \in Slots, NEW j \in Slots,
                      list'[i].handle = list'[j].handle,
                      list'[i].handle # NoHandle
               PROVE  i = j
    BY DEF OneSlotEach, Slots
  <2>1. list'[i] # EmptySlot /\ list'[j] # EmptySlot
    BY DEF EmptySlot
  <2>2. \A m, n \in Slots :
          list[m].handle = list[n].handle /\ list[m].handle # NoHandle => m = n
    BY DEF OneSlotEach
  <2> QED BY <1>2, <1>4, <2>1, <2>2 DEF Slots
<1> QED BY <1>6, <1>7, <1>8, <1>9, <1>10, <1>11

-----------------------------------------------------------------------------

LEMMA InitInv == Init => IInv
<1> SUFFICES ASSUME Init PROVE IInv
  OBVIOUS
<1>1. TypeOK
  <2>1. EmptySlot \in [handle : Handles \cup {NoHandle}, subsys : Subsys]
    BY RegistryAssumption DEF EmptySlot
  <2>2. 0 \in Slots
    BY RegistryAssumption DEF Slots
  <2>3. << >> \in Seq(Handles \cup {NoHandle})
    OBVIOUS
  <2> QED BY RegistryAssumption, <2>1, <2>2, <2>3 DEF Init, TypeOK, Labels
<1>2. Ownership
  BY DEF Init, Ownership, OneSlotEach, RegisteredLive, HeldOutside,
         HeldOnce, Exclusive, Deleting, EmptySlot
<1> QED BY <1>1, <1>2 DEF IInv

-----------------------------------------------------------------------------

LEMMA TypeStep == IInv /\ [Next]_vars => TypeOK'
<1> SUFFICES ASSUME IInv, [Next]_vars PROVE TypeOK'
  OBVIOUS
<1> USE RegistryAssumption DEF IInv, Ownership
<1>0. CASE UNCHANGED vars
  BY <1>0 DEF vars, locals, TypeOK
<1> TypeOK
  OBVIOUS
<1>1. ASSUME NEW c \in Callers, NEW h \in Handles, NEW s \in Subsys, CreateTask(c, h, s)
      PROVE  TypeOK'
  BY <1>1 DEF CreateTask, Goto, TypeOK, Labels
<1>2. ASSUME NEW c \in Callers, TableFull(c)
      PROVE  TypeOK'
  BY <1>2 DEF TableFull, Goto, TypeOK, Labels, Deleting
<1>3. ASSUME NEW c \in Callers, LoadNum(c)
      PROVE  TypeOK'
  BY <1>3 DEF LoadNum, Goto, TypeOK, Labels, Slots
<1>4. ASSUME NEW c \in Callers, WriteHandle(c)
      PROVE  TypeOK'
  <2>1. list' \in [Slots -> [handle : Handles \cup {NoHandle}, subsys : Subsys]]
    BY <1>4 DEF WriteHandle, TypeOK
  <2> QED BY <1>4, <2>1 DEF WriteHandle, Goto, TypeOK, Labels
<1>5. ASSUME NEW c \in Callers, WriteSubsys(c)
      PROVE  TypeOK'
  <2>1. list' \in [Slots -> [handle : Handles \cup {NoHandle}, subsys : Subsys]]
    BY <1>5 DEF WriteSubsys, TypeOK
  <2> QED BY <1>5, <2>1 DEF WriteSubsys, Goto, TypeOK, Labels
<1>6. ASSUME NEW c \in Callers, StoreNum(c)
      PROVE  TypeOK'
  <2>1. idx[c] + 1 \in 0 .. TasksMax /\ 0 \in Slots
    BY DEF TypeOK, Slots
  <2> QED BY <1>6, <2>1 DEF StoreNum, Goto, TypeOK, Labels
<1>7. ASSUME NEW c \in Callers, NEW from, NEW to \in {"idle", "reap"},
             VTaskDelete(c, from, to)
      PROVE  TypeOK'
  <2>1. sub' \in [Callers -> Subsys]
    BY <1>7 DEF VTaskDelete, TypeOK
  <2>2. owner' \in [Handles -> Subsys] /\ doomed' \in [Callers -> SUBSET Handles]
    BY <1>7 DEF VTaskDelete, TypeOK
  <2> QED BY <1>7, <2>1, <2>2 DEF VTaskDelete, Goto, TypeOK, Labels
<1>8. ASSUME NEW c \in Callers, NEW h \in Handles, KillTask(c, h)
      PROVE  TypeOK'
  BY <1>8, TaskDeleteEffect DEF KillTask, Goto, TypeOK, Labels, Deleting
<1>9. ASSUME NEW c \in Callers, NEW s \in Subsys, KillSubsystem(c, s)
      PROVE  TypeOK'
  <2>1. Killable \subseteq Handles
    BY DEF Killable, InUse, TypeOK
  <2>2. doomed' \in [Callers -> SUBSET Handles]
    BY <1>9, <2>1 DEF KillSubsystem, TypeOK
  <2> QED BY <1>9, <2>2 DEF KillSubsystem, Goto, TypeOK, Labels
<1>10. ASSUME NEW c \in Callers, NEW from, NextSlot(c, from)
       PROVE  idx' \in [Callers -> Slots] /\ pc' \in [Callers -> Labels]
  <2>1. "reap" \in Labels /\ "scan" \in Labels
    BY DEF Labels
  <2>2. pc' \in [Callers -> Labels]
    BY <1>10, <2>1 DEF NextSlot, Goto, TypeOK
  <2>3. idx' \in [Callers -> Slots]
    BY <1>10 DEF NextSlot, TypeOK, Slots
  <2> QED BY <2>2, <2>3
<1>11. ASSUME NEW c \in Callers, ScanEmpty(c)
       PROVE  TypeOK'
  BY <1>10, <1>11 DEF ScanEmpty, NextSlot, Goto, TypeOK
<1>12. ASSUME NEW c \in Callers, ScanHandle(c)
       PROVE  TypeOK'
  <2>1. list[idx[c]].handle \in Handles
    BY <1>12 DEF ScanHandle, TypeOK
  <2> QED BY <1>12, <2>1 DEF ScanHandle, Goto, TypeOK, Labels
<1>13. ASSUME NEW c \in Callers, SkipSubsys(c)
       PROVE  TypeOK'
  BY <1>10, <1>13 DEF SkipSubsys, NextSlot, Goto, TypeOK
<1>19. ASSUME NEW c \in Callers, ScanSubsys(c)
       PROVE  TypeOK'
  BY <1>19 DEF ScanSubsys, Goto, TypeOK, Labels
<1>20. ASSUME NEW c \in Callers, ScanCopy(c)
       PROVE  TypeOK'
  <2>1. hdl[c] \in Handles \cup {NoHandle} /\ list[idx[c]].handle \in Handles \cup {NoHandle}
    BY DEF TypeOK
  <2>2. PICK h \in {hdl[c], list[idx[c]].handle} :
          targets' = [targets EXCEPT ![c] = Append(@, h)]
    BY <1>20 DEF ScanCopy
  <2>3. targets[c] \in Seq(Handles \cup {NoHandle}) /\ h \in Handles \cup {NoHandle}
    BY <2>1, <2>2 DEF TypeOK
  <2>4. Append(targets[c], h) \in Seq(Handles \cup {NoHandle})
    BY <2>3
  <2>5. targets' \in [Callers -> Seq(Handles \cup {NoHandle})]
    BY <2>2, <2>4 DEF TypeOK
  <2> QED BY <1>10, <1>20, <2>5 DEF ScanCopy, NextSlot, Goto, TypeOK
<1>14. ASSUME NEW c \in Callers, targets[c] # << >>
       PROVE  /\ Head(targets[c]) \in Handles \cup {NoHandle}
              /\ [targets EXCEPT ![c] = Tail(@)] \in [Callers -> Seq(Handles \cup {NoHandle})]
  BY <1>14 DEF TypeOK
<1>15. ASSUME NEW c \in Callers, ReapTarget(c)
       PROVE  TypeOK'
  <2>1. Head(targets[c]) \in Handles /\ targets' \in [Callers -> Seq(Handles \cup {NoHandle})]
    BY <1>14, <1>15 DEF ReapTarget, TaskDelete
  <2> QED BY <1>15, <2>1, TaskDeleteEffect
          DEF ReapTarget, Goto, TypeOK, Labels, Deleting
<1>16. ASSUME NEW c \in Callers, SkipTarget(c)
       PROVE  TypeOK'
  BY <1>14, <1>16 DEF SkipTarget, Goto, TypeOK, Labels
<1>17. ASSUME NEW c \in Callers, KillSubsystemReturns(c)
       PROVE  TypeOK'
  BY <1>17 DEF KillSubsystemReturns, Goto, TypeOK, Labels
<1>18. CASE Next
  <2>1. ASSUME NEW c \in Creators, Create(c)
        PROVE  TypeOK'
    BY <2>1, <1>1, <1>2, <1>3, <1>4, <1>5, <1>6, <1>7 DEF Create, DeleteUnregistered
  <2>2. ASSUME NEW c \in Killers, Kill(c)
        PROVE  TypeOK'
    BY <2>2, <1>7, <1>8, <1>9, <1>11, <1>12, <1>13, <1>15, <1>16, <1>17, <1>19, <1>20
       DEF Kill, DeleteKilled, DeleteReaped
  <2> QED BY <1>18, <2>1, <2>2 DEF Next
<1> QED BY <1>0, <1>18

-----------------------------------------------------------------------------

\* Steps that write neither the table nor live, and after which nobody claims
\* a handle that was not already that caller's to delete or register.
LEMMA OwnershipFrame ==
  ASSUME Ownership, UNCHANGED <<list, live>>,
         \A c \in Callers :
           pc'[c] \in Exclusive => pc[c] \in Exclusive /\ hdl'[c] = hdl[c]
  PROVE  Ownership'
BY DEF Ownership, OneSlotEach, RegisteredLive, HeldOutside, HeldOnce

\* A successful task_delete hands its handle to the caller alone.
LEMMA OwnershipClaim ==
  ASSUME IInv, NEW c \in Callers, NEW h \in Handles, TaskDelete(h),
         UNCHANGED live, pc'[c] \in Deleting, hdl'[c] = h,
         \A d \in Callers \ {c} : pc'[d] = pc[d] /\ hdl'[d] = hdl[d]
  PROVE  Ownership'
<1> USE DEF IInv, Ownership
<1>1. /\ h \in live
      /\ \A i \in Slots : list'[i].handle # h
      /\ \A i \in Slots : list'[i].handle = NoHandle
                          \/ \E j \in Slots : list'[i].handle = list[j].handle
      /\ OneSlotEach'
  BY TaskDeleteEffect
<1>2. PICK k \in Slots : list[k].handle = h
  BY DEF TaskDelete, FoundAt
<1>3. RegisteredLive'
  BY <1>1 DEF RegisteredLive
<1>4. \A d \in Callers \ {c} : pc[d] \in Exclusive => hdl[d] # h
  BY <1>2 DEF HeldOutside
<1>5. HeldOutside'
  <2> SUFFICES ASSUME NEW d \in Callers, pc'[d] \in Exclusive
               PROVE  hdl'[d] \in live' /\ \A i \in Slots : list'[i].handle # hdl'[d]
    BY DEF HeldOutside
  <2>1. CASE d = c
    BY <1>1, <2>1
  <2>2. CASE d # c
    <3>1. pc[d] \in Exclusive /\ hdl'[d] = hdl[d]
      BY <2>2
    <3>2. hdl[d] \in live /\ \A i \in Slots : list[i].handle # hdl[d]
      BY <3>1 DEF HeldOutside
    <3>3. hdl[d] # NoHandle
      BY <3>2, RegistryAssumption DEF TypeOK
    <3> QED BY <1>1, <3>1, <3>2, <3>3
  <2> QED BY <2>1, <2>2
<1>6. HeldOnce'
  BY <1>4 DEF HeldOnce
<1> QED BY <1>1, <1>3, <1>5, <1>6

\* vTaskDelete frees the one task its caller claimed.
LEMMA OwnershipFree ==
  ASSUME IInv, NEW c \in Callers, NEW from \in Deleting, NEW to \in {"idle", "reap"},
         VTaskDelete(c, from, to)
  PROVE  Ownership'
<1> USE DEF IInv, Ownership, VTaskDelete, Goto
<1>1. pc[c] \in Exclusive /\ pc'[c] \notin Exclusive
  BY DEF Exclusive, Deleting, TypeOK
<1>2. \A d \in Callers \ {c} : pc'[d] = pc[d] /\ hdl'[d] = hdl[d]
  BY DEF TypeOK
<1>3. RegisteredLive'
  BY <1>1 DEF RegisteredLive, HeldOutside
<1>4. HeldOutside'
  BY <1>1, <1>2 DEF HeldOutside, HeldOnce
<1>5. HeldOnce'
  BY <1>1, <1>2 DEF HeldOnce
<1>6. OneSlotEach'
  BY DEF OneSlotEach
<1> QED BY <1>3, <1>4, <1>5, <1>6

LEMMA OwnershipStep == IInv /\ [Next]_vars => Ownership'
<1> SUFFICES ASSUME IInv, [Next]_vars PROVE Ownership'
  OBVIOUS
<1> USE RegistryAssumption DEF IInv
<1>0. CASE UNCHANGED vars
  BY <1>0, OwnershipFrame DEF vars, locals
<1>1. ASSUME NEW c \in Callers, NEW h \in Handles, NEW s \in Subsys, CreateTask(c, h, s)
      PROVE  Ownership'
  <2> USE DEF Ownership
  <2>1. h \notin live /\ live' = live \cup {h} /\ h # NoHandle /\ UNCHANGED list
    BY <1>1 DEF CreateTask
  <2>2. \A i \in Slots : list[i].handle # h
    BY <2>1 DEF RegisteredLive
  <2>3. hdl'[c] = h /\ \A d \in Callers \ {c} : pc'[d] = pc[d] /\ hdl'[d] = hdl[d]
    BY <1>1 DEF CreateTask, Goto, TypeOK
  <2>4. \A d \in Callers \ {c} : pc[d] \in Exclusive => hdl[d] # h
    BY <2>1 DEF HeldOutside
  <2>5. OneSlotEach' /\ RegisteredLive'
    BY <2>1 DEF OneSlotEach, RegisteredLive
  <2>6. HeldOutside'
    BY <2>1, <2>2, <2>3 DEF HeldOutside
  <2>7. HeldOnce'
    BY <2>3, <2>4 DEF HeldOnce
  <2> QED BY <2>5, <2>6, <2>7
<1>2. ASSUME NEW c \in Callers, TableFull(c)
      PROVE  Ownership'
  BY <1>2, OwnershipFrame DEF TableFull, Goto, TypeOK, Exclusive
<1>3. ASSUME NEW c \in Callers, LoadNum(c)
      PROVE  Ownership'
  BY <1>3, OwnershipFrame DEF LoadNum, Goto, TypeOK, Exclusive
<1>4. ASSUME NEW c \in Callers, WriteHandle(c)
      PROVE  Ownership'
  <2> USE DEF Ownership
  <2>1. /\ pc[c] \in Exclusive /\ pc'[c] \notin Exclusive
        /\ \A d \in Callers \ {c} : pc'[d] = pc[d]
        /\ UNCHANGED <<hdl, live>>
    BY <1>4 DEF WriteHandle, Goto, TypeOK, Exclusive, Deleting
  <2>2. \A i \in Slots : list'[i].handle = IF i = idx[c] THEN hdl[c] ELSE list[i].handle
    BY <1>4 DEF WriteHandle, TypeOK
  <2>3. hdl[c] \in live /\ \A i \in Slots : list[i].handle # hdl[c]
    BY <2>1 DEF HeldOutside
  <2>4. OneSlotEach'
    BY <2>2, <2>3 DEF OneSlotEach, Slots
  <2>5. RegisteredLive'
    BY <2>1, <2>2, <2>3 DEF RegisteredLive, Slots
  <2>6. HeldOutside'
    BY <2>1, <2>2 DEF HeldOutside, HeldOnce, Slots
  <2>7. HeldOnce'
    BY <2>1 DEF HeldOnce
  <2> QED BY <2>4, <2>5, <2>6, <2>7
<1>5. ASSUME NEW c \in Callers, WriteSubsys(c)
      PROVE  Ownership'
  <2>1. \A d \in Callers : pc'[d] \in Exclusive => pc[d] \in Exclusive
    BY <1>5 DEF WriteSubsys, Goto, TypeOK, Exclusive, Deleting
  <2>2. \A i \in Slots : list'[i].handle = list[i].handle
    BY <1>5 DEF WriteSubsys, TypeOK
  <2>3. UNCHANGED <<hdl, live>>
    BY <1>5 DEF WriteSubsys
  <2> QED BY <2>1, <2>2, <2>3
          DEF Ownership, OneSlotEach, RegisteredLive, HeldOutside, HeldOnce, Slots
<1>6. ASSUME NEW c \in Callers, StoreNum(c)
      PROVE  Ownership'
  BY <1>6, OwnershipFrame DEF StoreNum, Goto, TypeOK, Exclusive, Deleting
<1>7. ASSUME NEW c \in Callers, NEW h \in Handles, KillTask(c, h)
      PROVE  Ownership'
  BY <1>7, OwnershipClaim DEF KillTask, Goto, TypeOK, Deleting
<1>8. ASSUME NEW c \in Callers, KillSubsystem(c, sub'[c]) \/ ScanEmpty(c) \/ ScanHandle(c)
                                \/ SkipSubsys(c) \/ ScanSubsys(c) \/ ScanCopy(c) \/ SkipTarget(c) \/ KillSubsystemReturns(c)
      PROVE  Ownership'
  <2>1. \A d \in Callers : pc'[d] \in Exclusive => pc[d] \in Exclusive /\ hdl'[d] = hdl[d]
    BY <1>8 DEF KillSubsystem, ScanEmpty, ScanHandle, SkipSubsys, ScanSubsys, ScanCopy, SkipTarget,
                KillSubsystemReturns, NextSlot, Goto, TypeOK, Exclusive, Deleting
  <2>2. UNCHANGED <<list, live>>
    BY <1>8 DEF KillSubsystem, ScanEmpty, ScanHandle, SkipSubsys, ScanSubsys, ScanCopy, SkipTarget,
                KillSubsystemReturns
  <2> QED BY <2>1, <2>2, OwnershipFrame
<1>9. ASSUME NEW c \in Callers, ReapTarget(c)
      PROVE  Ownership'
  <2>1. Head(targets[c]) \in Handles
    BY <1>9 DEF ReapTarget, TaskDelete, TypeOK
  <2> QED BY <1>9, <2>1, OwnershipClaim DEF ReapTarget, Goto, TypeOK, Deleting
<1>10. CASE Next
  <2>1. ASSUME NEW c \in Creators, Create(c)
        PROVE  Ownership'
    BY <2>1, <1>1, <1>2, <1>3, <1>4, <1>5, <1>6, OwnershipFree
       DEF Create, DeleteUnregistered, Deleting
  <2>2. ASSUME NEW c \in Killers, NEW s \in Subsys, KillSubsystem(c, s)
        PROVE  Ownership'
    <3>1. sub'[c] = s
      BY <2>2 DEF KillSubsystem, TypeOK
    <3> QED BY <1>8, <2>2, <3>1
  <2>3. ASSUME NEW c \in Killers, Kill(c)
        PROVE  Ownership'
    BY <2>2, <2>3, <1>7, <1>8, <1>9, OwnershipFree
       DEF Kill, DeleteKilled, DeleteReaped, Deleting
  <2> QED BY <1>10, <2>1, <2>3 DEF Next
<1> QED BY <1>0, <1>10

-----------------------------------------------------------------------------

LEMMA Inductive == Spec => []IInv
<1>1. IInv /\ [Next]_vars => IInv'
  BY TypeStep, OwnershipStep DEF IInv
<1> QED BY InitInv, <1>1, PTL DEF Spec

(* The table, num and every local stay in range: task_add never writes      *)
(* outside list[TASKS_MAX], and num, which task_delete decrements and every *)
(* interleaving of task_add overwrites, stays between 0 and TASKS_MAX.      *)
THEOREM TypeCorrect == Spec => []TypeOK
<1>1. IInv => TypeOK
  BY DEF IInv
<1> QED BY Inductive, <1>1, PTL

(* Nobody calls vTaskDelete on a task that is gone or that another caller   *)
(* is deleting, however the kernel calls of any number of tasks interleave. *)
THEOREM DeletedOnce == Spec => []DeleteOnce
<1>1. IInv => DeleteOnce
  BY DEF IInv, Ownership, HeldOutside, HeldOnce, Exclusive, DeleteOnce
<1> QED BY Inductive, <1>1, PTL

-----------------------------------------------------------------------------
(* One creator                                                             *)

\* In the code app_main is the only task that calls create_task.
SoleCreator == \A c, d \in Creators : c = d

Creating == {"add_load", "add_handle", "add_subsys", "add_num", "full"}
Killing == {"vdel", "scan", "scan_subsys", "scan_copy", "reap", "reap_vdel"}

IsFree(i) == list[i].handle = NoHandle /\ list[i].subsys = Core
Counted(i) == list[i].handle \in Handles /\ list[i].subsys = owner[list[i].handle]
InProgress(i) == \E c \in Callers : pc[c] \in {"add_subsys", "add_num"} /\ idx[c] = i

\* Who is where.
Roles ==
  \A c \in Callers : /\ pc[c] \in Creating => c \in Creators
                     /\ pc[c] \in Killing => c \in Killers

\* What create_task knows of its task, and how far it has filled the slot, which
\* num never passes.
Filling ==
  \A c \in Callers :
    /\ pc[c] \in Creating \ {"full"} => hdl[c] \in live /\ owner[hdl[c]] = sub[c]
    /\ Adding(c) => num <= idx[c]
    /\ pc[c] \in {"add_subsys", "add_num"} => list[idx[c]].handle = hdl[c]
    /\ pc[c] = "add_subsys" => list[idx[c]].subsys = Core
    /\ pc[c] = "add_num" => list[idx[c]].subsys = sub[c]

\* The slots below num, some of them lost, and the free ones above, but for the
\* one that is being filled.
SlotsInv ==
  \A i \in Slots :
    /\ i < num => IsFree(i) \/ Counted(i)
    /\ i >= num => IsFree(i) \/ InProgress(i)

TableInv == Roles /\ Filling /\ SlotsInv /\ NoOrphan

OthersStay(c) ==
  \A d \in Callers \ {c} : pc'[d] = pc[d] /\ hdl'[d] = hdl[d] /\ sub'[d] = sub[d] /\ idx'[d] = idx[d]

-----------------------------------------------------------------------------

\* The creator is alone inside create_task.
LEMMA Alone ==
  ASSUME SoleCreator, Roles, NEW c \in Creators
  PROVE  \A d \in Callers \ {c} : pc[d] \notin Creating
BY DEF SoleCreator, Roles

\* Before it writes its slot, every slot from num on is free.
LEMMA RestFree ==
  ASSUME SoleCreator, TableInv, NEW c \in Creators, pc[c] \notin {"add_subsys", "add_num"}
  PROVE  \A i \in Slots : i >= num => IsFree(i)
BY Alone DEF TableInv, SlotsInv, InProgress, Creating

\* Who holds a handle goes on to hold it.
LEMMA OrphanFrame ==
  ASSUME TableInv, NEW c \in Callers, OthersStay(c),
         \A h \in live' : h \in live \/ Holds(c, h)',
         \A h \in live' : h \in Killable => h \in Killable' \/ Holds(c, h)',
         \A h \in live' : Holds(c, h) => Holds(c, h)' \/ h \in Killable'
  PROVE  NoOrphan'
<1> SUFFICES ASSUME NEW h \in live', h \notin Killable', ~Holds(c, h)'
             PROVE  \E d \in Callers : Holds(d, h)'
  BY DEF NoOrphan
<1>1. h \in live /\ h \notin Killable
  OBVIOUS
<1>2. PICK d \in Callers : Holds(d, h)
  BY <1>1 DEF TableInv, NoOrphan
<1>3. d # c
  BY <1>2
<1>4. pc'[d] = pc[d] /\ hdl'[d] = hdl[d]
  BY <1>3 DEF OthersStay
<1> QED BY <1>2, <1>4 DEF Holds, Adding

\* A killer's step that leaves the table and the tasks alone.
LEMMA TableFrame ==
  ASSUME IInv, TableInv, NEW c \in Callers, OthersStay(c),
         UNCHANGED <<list, num, live, owner>>,
         pc[c] \notin Creating \cup Deleting, pc'[c] \notin Creating,
         pc'[c] \in Killing => c \in Killers
  PROVE  TableInv'
<1>1. Roles'
  BY DEF TableInv, Roles, OthersStay
<1>2. Filling'
  <2> SUFFICES ASSUME NEW d \in Callers, d # c
               PROVE  /\ pc'[d] \in Creating \ {"full"} => hdl'[d] \in live' /\ owner'[hdl'[d]] = sub'[d]
                      /\ Adding(d)' => num' <= idx'[d]
                      /\ pc'[d] \in {"add_subsys", "add_num"} => list'[idx'[d]].handle = hdl'[d]
                      /\ pc'[d] = "add_subsys" => list'[idx'[d]].subsys = Core
                      /\ pc'[d] = "add_num" => list'[idx'[d]].subsys = sub'[d]
    BY DEF Filling, Adding, Creating
  <2>1. pc'[d] = pc[d] /\ hdl'[d] = hdl[d] /\ sub'[d] = sub[d] /\ idx'[d] = idx[d]
    BY DEF OthersStay
  <2> QED BY <2>1 DEF TableInv, Filling, Adding
<1>3. SlotsInv'
  <2>1. ASSUME NEW i \in Slots, InProgress(i) PROVE InProgress(i)'
    <3>1. PICK d \in Callers : pc[d] \in {"add_subsys", "add_num"} /\ idx[d] = i
      BY <2>1 DEF InProgress
    <3>2. d # c
      BY <3>1 DEF Creating
    <3> QED BY <3>1, <3>2 DEF InProgress, OthersStay
  <2>2. \A i \in Slots : (IsFree(i) => IsFree(i)') /\ (Counted(i) => Counted(i)')
    BY DEF IsFree, Counted
  <2> QED BY <2>1, <2>2 DEF TableInv, SlotsInv, Slots
<1>4. NoOrphan'
  <2>1. Killable' = Killable
    BY DEF Killable, InUse, Slots
  <2>2. \A h : ~Holds(c, h)
    BY DEF Holds, Adding, Creating
  <2> QED BY <2>1, <2>2, OrphanFrame
<1> QED BY <1>1, <1>2, <1>3, <1>4 DEF TableInv

-----------------------------------------------------------------------------
(* create_task                                                             *)

LEMMA CreateStep ==
  ASSUME SoleCreator, IInv, TableInv, NEW c \in Creators, NEW h \in Handles, NEW s \in Subsys,
         CreateTask(c, h, s)
  PROVE  TableInv'
<1>1. c \in Callers /\ pc[c] = "idle" /\ h \notin live
  BY RegistryAssumption DEF CreateTask, Goto
<1>2. /\ pc'[c] = "add_load" /\ hdl'[c] = h /\ sub'[c] = s /\ OthersStay(c)
      /\ list' = list /\ num' = num /\ live' = live \cup {h}
      /\ owner'[h] = s /\ \A g \in Handles \ {h} : owner'[g] = owner[g]
  BY <1>1 DEF CreateTask, Goto, IInv, TypeOK, OthersStay
<1>3. \A d \in Callers \ {c} : pc'[d] = pc[d] /\ pc'[d] \notin Creating
  BY <1>2, Alone DEF TableInv, OthersStay
<1>4. Roles'
  BY <1>2, <1>3 DEF TableInv, Roles, Killing
<1>5. Filling'
  BY <1>2, <1>3 DEF Filling, Creating, Adding
<1>6. SlotsInv'
  <2>1. \A i \in Slots : list[i].handle # h
    BY <1>1, RegistryAssumption DEF IInv, Ownership, RegisteredLive
  <2>2. \A i \in Slots : i >= num => IsFree(i)
    BY <1>1, RestFree
  <2>3. \A i \in Slots : (IsFree(i) => IsFree(i)') /\ (Counted(i) => Counted(i)')
    BY <1>2, <2>1 DEF IsFree, Counted
  <2> QED BY <1>2, <2>2, <2>3 DEF TableInv, SlotsInv, Slots
<1>7. NoOrphan'
  <2>1. Holds(c, h)'
    BY <1>2 DEF Holds
  <2>2. Killable' = Killable
    BY <1>2 DEF Killable, InUse, Slots
  <2>3. \A g : ~Holds(c, g)
    BY <1>1 DEF Holds, Adding, Deleting
  <2> QED BY <1>1, <1>2, <2>1, <2>2, <2>3, OrphanFrame
<1> QED BY <1>4, <1>5, <1>6, <1>7 DEF TableInv

\* The steps of task_add and its failure that write no slot.
LEMMA LoadStep ==
  ASSUME SoleCreator, IInv, TableInv, NEW c \in Creators, LoadNum(c) \/ TableFull(c)
  PROVE  TableInv'
<1>1. c \in Callers /\ pc[c] = "add_load" /\ num \in Nat
  BY RegistryAssumption DEF LoadNum, TableFull, Goto, IInv, TypeOK
<1>2. /\ \/ pc'[c] = "add_handle" /\ idx'[c] = num
         \/ pc'[c] = "full"
      /\ OthersStay(c)
      /\ UNCHANGED <<list, num, live, owner, hdl, sub>>
  BY <1>1 DEF LoadNum, TableFull, Goto, IInv, TypeOK, OthersStay
<1>3. \A d \in Callers \ {c} : pc'[d] = pc[d] /\ pc'[d] \notin Creating
  BY <1>2, Alone DEF TableInv, OthersStay
<1>4. Roles'
  BY <1>2, <1>3 DEF TableInv, Roles, Killing
<1>5. Filling'
  <2>1. hdl[c] \in live /\ owner[hdl[c]] = sub[c]
    BY <1>1 DEF TableInv, Filling, Creating
  <2> QED BY <1>1, <1>2, <1>3, <2>1 DEF Filling, Creating, Adding
<1>6. SlotsInv'
  <2>1. \A i \in Slots : i >= num => IsFree(i)
    BY <1>1, RestFree
  <2>2. \A i \in Slots : (IsFree(i) => IsFree(i)') /\ (Counted(i) => Counted(i)')
    BY <1>2 DEF IsFree, Counted
  <2> QED BY <1>2, <2>1, <2>2 DEF TableInv, SlotsInv, Slots
<1>7. NoOrphan'
  <2>1. Killable' = Killable
    BY <1>2 DEF Killable, InUse, Slots
  <2>2. \A g : Holds(c, g) => Holds(c, g)'
    BY <1>2 DEF Holds, Adding, Deleting
  <2> QED BY <1>1, <1>2, <2>1, <2>2, OrphanFrame
<1> QED BY <1>4, <1>5, <1>6, <1>7 DEF TableInv

\* The slot is filled, first the one field, then the other.
LEMMA WriteStep ==
  ASSUME SoleCreator, IInv, TableInv, NEW c \in Creators, WriteHandle(c) \/ WriteSubsys(c)
  PROVE  TableInv'
<1>1. /\ c \in Callers /\ pc[c] \in {"add_handle", "add_subsys"} /\ num \in Nat
      /\ \A i \in Slots : i \in Nat
  BY RegistryAssumption DEF WriteHandle, WriteSubsys, Goto, IInv, TypeOK, Slots
<1>2. num <= idx[c] /\ idx[c] \in Slots /\ hdl[c] \in live /\ owner[hdl[c]] = sub[c]
  BY <1>1 DEF TableInv, Filling, Adding, Creating, IInv, TypeOK
<1>3. /\ \/ /\ pc[c] = "add_handle" /\ pc'[c] = "add_subsys"
            /\ list'[idx[c]].handle = hdl[c] /\ list'[idx[c]].subsys = list[idx[c]].subsys
         \/ /\ pc[c] = "add_subsys" /\ pc'[c] = "add_num"
            /\ list'[idx[c]].handle = list[idx[c]].handle /\ list'[idx[c]].subsys = sub[c]
      /\ \A i \in Slots \ {idx[c]} : list'[i] = list[i]
      /\ OthersStay(c)
      /\ UNCHANGED <<num, live, owner, hdl, sub, idx>>
  BY <1>1, <1>2 DEF WriteHandle, WriteSubsys, Goto, IInv, TypeOK, OthersStay
<1>4. \A d \in Callers \ {c} : pc[d] \notin Creating /\ pc'[d] = pc[d] /\ pc'[d] \notin Creating
  BY <1>3, Alone DEF TableInv, OthersStay
<1>5. Roles'
  BY <1>3, <1>4 DEF TableInv, Roles, Killing
<1>6. Filling'
  <2>1. ASSUME pc[c] = "add_handle" PROVE list[idx[c]].subsys = Core
    <3>1. \A i \in Slots : i >= num => IsFree(i)
      BY <2>1, RestFree
    <3> QED BY <1>1, <1>2, <3>1 DEF IsFree
  <2>2. pc[c] = "add_subsys" => list[idx[c]].handle = hdl[c]
    BY <1>1 DEF TableInv, Filling
  <2> QED BY <1>2, <1>3, <1>4, <2>1, <2>2 DEF Filling, Creating, Adding
<1>7. SlotsInv'
  <2>1. InProgress(idx[c])'
    BY <1>1, <1>3 DEF InProgress
  <2>2. ASSUME NEW i \in Slots, i # idx[c]
        PROVE  ~InProgress(i) /\ (IsFree(i) => IsFree(i)') /\ (Counted(i) => Counted(i)')
    BY <1>3, <1>4, <2>2 DEF InProgress, IsFree, Counted, Creating
  <2>3. ~(idx[c] < num)
    BY <1>1, <1>2
  <2> QED BY <1>2, <1>3, <2>1, <2>2, <2>3 DEF TableInv, SlotsInv, Slots
<1>8. NoOrphan'
  <2>1. Killable' = Killable
    <3>1. \A i \in Slots : i < num => list'[i] = list[i]
      BY <1>1, <1>2, <1>3
    <3> QED BY <1>3, <3>1 DEF Killable, InUse, Slots
  <2>2. \A g : Holds(c, g) => Holds(c, g)'
    BY <1>3 DEF Holds, Adding, Deleting
  <2> QED BY <1>1, <1>3, <2>1, <2>2, OrphanFrame
<1> QED BY <1>5, <1>6, <1>7, <1>8 DEF TableInv

\* What num covers then: the slot, which has both fields by then, and those by
\* which num has shrunk, which are lost.
LEMMA Covered ==
  ASSUME SoleCreator, IInv, TableInv, NEW c \in Creators, StoreNum(c)
  PROVE  /\ c \in Callers /\ pc[c] = "add_num" /\ num \in Nat /\ idx[c] \in Slots /\ num <= idx[c]
         /\ hdl[c] \in live /\ hdl[c] \in Handles /\ list[idx[c]].handle = hdl[c] /\ Counted(idx[c])
         /\ pc'[c] = "idle" /\ num' = idx[c] + 1 /\ OthersStay(c)
         /\ UNCHANGED <<list, live, owner>>
         /\ \A i \in Slots : i \in Nat /\ (i >= num => i = idx[c] \/ IsFree(i))
         /\ Killable' = Killable \cup {hdl[c]} /\ hdl[c] \notin Killable
<1>1. c \in Callers /\ pc[c] = "add_num" /\ num \in Nat /\ idx[c] \in Slots
  BY RegistryAssumption DEF StoreNum, Goto, IInv, TypeOK
<1>2. /\ num <= idx[c] /\ hdl[c] \in live /\ hdl[c] \in Handles
      /\ list[idx[c]].handle = hdl[c] /\ list[idx[c]].subsys = owner[hdl[c]]
  BY <1>1 DEF TableInv, Filling, Adding, Creating, IInv, TypeOK
<1>3. Counted(idx[c])
  BY <1>2 DEF Counted
<1>4. pc'[c] = "idle" /\ num' = idx[c] + 1 /\ OthersStay(c) /\ UNCHANGED <<list, live, owner>>
  BY <1>1 DEF StoreNum, Goto, IInv, TypeOK, OthersStay
<1>5. \A i \in Slots : i \in Nat /\ (i >= num => i = idx[c] \/ IsFree(i))
  <2>1. \A i \in Slots : InProgress(i) => i = idx[c]
    BY Alone DEF TableInv, InProgress, Creating
  <2> QED BY <2>1 DEF TableInv, SlotsInv, Slots
<1>6. Killable' = Killable \cup {hdl[c]}
  <2>1. ASSUME NEW i \in Slots PROVE i < num' <=> i < num \/ (i >= num /\ i < idx[c]) \/ i = idx[c]
    BY <1>1, <1>2, <1>4, <1>5
  <2>2. \A i \in Slots : i >= num /\ i < idx[c] => list[i].handle = NoHandle
    BY <1>1, <1>5 DEF IsFree
  <2>3. hdl[c] # NoHandle
    BY <1>2, RegistryAssumption
  <2> QED BY <1>1, <1>2, <1>4, <2>1, <2>2, <2>3 DEF Killable, InUse, Slots
<1>7. hdl[c] \notin Killable
  <2>1. \A i \in Slots : i < num => i # idx[c]
    BY <1>1, <1>2, <1>5
  <2> QED BY <1>1, <1>2, <2>1, RegistryAssumption DEF Killable, InUse, IInv, Ownership, OneSlotEach
<1> QED BY <1>1, <1>2, <1>3, <1>4, <1>5, <1>6, <1>7

LEMMA StoreStep ==
  ASSUME SoleCreator, IInv, TableInv, NEW c \in Creators, StoreNum(c)
  PROVE  TableInv'
<1>1. /\ c \in Callers /\ pc[c] = "add_num" /\ num \in Nat /\ idx[c] \in Slots /\ num <= idx[c]
      /\ hdl[c] \in live /\ hdl[c] \in Handles /\ list[idx[c]].handle = hdl[c] /\ Counted(idx[c])
      /\ pc'[c] = "idle" /\ num' = idx[c] + 1 /\ OthersStay(c)
      /\ UNCHANGED <<list, live, owner>>
      /\ \A i \in Slots : i \in Nat /\ (i >= num => i = idx[c] \/ IsFree(i))
      /\ Killable' = Killable \cup {hdl[c]}
  BY Covered
<1>2. \A d \in Callers : pc'[d] \notin Creating /\ (d # c => pc'[d] = pc[d])
  BY <1>1, Alone DEF TableInv, Creating, OthersStay
<1>3. Roles'
  BY <1>1, <1>2 DEF TableInv, Roles, Killing
<1>4. Filling'
  BY <1>2 DEF Filling, Creating, Adding
<1>5. SlotsInv'
  <2>1. \A i \in Slots : (IsFree(i) => IsFree(i)') /\ (Counted(i) => Counted(i)')
    BY <1>1 DEF IsFree, Counted
  <2>2. \A i \in Slots : i < num => IsFree(i) \/ Counted(i)
    BY DEF TableInv, SlotsInv
  <2>3. \A i \in Slots : IsFree(i) \/ Counted(i)
    BY <1>1, <2>2
  <2>4. \A i \in Slots : i >= num' => IsFree(i)
    BY <1>1
  <2> QED BY <2>1, <2>3, <2>4 DEF SlotsInv, Slots
<1>6. NoOrphan'
  <2>1. \A g : Holds(c, g) => g = hdl[c]
    BY DEF Holds
  <2> QED BY <1>1, <2>1, OrphanFrame
<1> QED BY <1>3, <1>4, <1>5, <1>6 DEF TableInv

-----------------------------------------------------------------------------
(* task_delete and vTaskDelete                                             *)

\* What the critical section does to the slots.
LEMMA Shifted ==
  ASSUME IInv, NEW h \in Handles, TaskDelete(h)
  PROVE  /\ num' = num - 1 /\ num' \in Nat /\ num \in Nat
         /\ \A i \in Slots : i \in Nat
         /\ \A i \in Slots : i >= num => list'[i] = list[i]
         /\ \A i \in Slots : i = num - 1 => list'[i] = EmptySlot
         /\ \A i \in Slots : i < num' => \E j \in Slots : j < num /\ list'[i] = list[j]
         /\ \A j \in Slots : list[j].handle # h => \E i \in Slots : list'[i] = list[j]
         /\ Killable' = Killable \ {h} /\ h \in Killable
<1>1. PICK k \in Slots : FoundAt(h, k) /\ list' = Without(k) /\ num' = num - 1
  BY DEF TaskDelete
<1>2. /\ k \in Nat /\ num \in Nat /\ k < num /\ list[k].handle = h /\ num <= TasksMax /\ TasksMax \in Nat
      /\ \A i \in Slots : i \in Nat
  BY <1>1, RegistryAssumption DEF FoundAt, IInv, TypeOK, Slots
<1>3. ASSUME NEW i \in Slots
      PROVE  /\ i = num - 1 => list'[i] = EmptySlot
             /\ i >= num => list'[i] = list[i]
             /\ k <= i /\ i < num - 1 => list'[i] = list[i + 1] /\ i + 1 \in Slots
             /\ i < k => list'[i] = list[i]
  BY <1>1, <1>2 DEF Without, Slots
<1>4. h # NoHandle
  BY RegistryAssumption
<1>5. ASSUME NEW i \in Slots, i < num - 1
      PROVE  \E j \in Slots : j < num /\ j # k /\ list'[i] = list[j]
  BY <1>2, <1>3, <1>5
<1>6. ASSUME NEW j \in Slots, j < num, j # k
      PROVE  \E i \in Slots : i < num - 1 /\ list'[i] = list[j]
  <2>1. CASE j < k
    BY <1>2, <1>3, <1>6, <2>1
  <2>2. CASE j > k
    <3>1. j - 1 \in Slots /\ k <= j - 1 /\ j - 1 < num - 1 /\ (j - 1) + 1 = j
      BY <1>2, <1>6, <2>2 DEF Slots
    <3> QED BY <1>3, <3>1
  <2>3. j < k \/ j > k
    BY <1>2, <1>6
  <2> QED BY <2>1, <2>2, <2>3
<1>7. \A j \in Slots : list[j].handle = h => j = k
  BY <1>2, <1>4 DEF IInv, Ownership, OneSlotEach
<1>8. Killable' \subseteq Killable \ {h}
  <2> SUFFICES ASSUME NEW i \in Slots, i < num - 1, list'[i].handle # NoHandle
               PROVE  list'[i].handle \in Killable \ {h}
    BY <1>1 DEF Killable, InUse, Slots
  <2> QED BY <1>5, <1>7 DEF Killable, InUse
<1>9. Killable \ {h} \subseteq Killable'
  <2> SUFFICES ASSUME NEW j \in Slots, j < num, list[j].handle # h, list[j].handle # NoHandle
               PROVE  \E i \in Slots : i < num - 1 /\ list'[i].handle = list[j].handle
    BY <1>1 DEF Killable, InUse, Slots
  <2> QED BY <1>2, <1>6
<1>10. ASSUME NEW j \in Slots, list[j].handle # h
       PROVE  \E i \in Slots : list'[i] = list[j]
  <2>1. CASE j < num
    BY <1>2, <1>6, <1>10, <2>1
  <2>2. CASE j >= num
    BY <1>3, <2>2
  <2>3. j < num \/ j >= num
    BY <1>2
  <2> QED BY <2>1, <2>2, <2>3
<1>11. \A i \in Slots : i < num' => \E j \in Slots : j < num /\ list'[i] = list[j]
  BY <1>1, <1>5
<1>12. num' = num - 1 /\ num' \in Nat
  BY <1>1, <1>2
<1>13. Killable' = Killable \ {h} /\ h \in Killable
  BY <1>2, <1>4, <1>8, <1>9 DEF Killable, InUse
<1> QED BY <1>2, <1>3, <1>10, <1>11, <1>12, <1>13

\* kill_task, alone or in kill_subsystem, takes a handle out of the table,
\* while the creator may be filling a slot above.
LEMMA ClaimStep ==
  ASSUME IInv, TableInv, NEW c \in Killers, NEW h \in Handles, TaskDelete(h),
         pc[c] \in {"idle", "reap"}, pc'[c] \in {"vdel", "reap_vdel"}, hdl'[c] = h,
         OthersStay(c), UNCHANGED <<live, owner>>
  PROVE  TableInv'
<1>1. c \in Callers /\ pc[c] \notin Creating /\ pc'[c] \notin Creating
  BY RegistryAssumption DEF Creating
<1>2. /\ num' = num - 1 /\ num' \in Nat /\ num \in Nat
      /\ \A i \in Slots : i \in Nat
      /\ \A i \in Slots : i >= num => list'[i] = list[i]
      /\ \A i \in Slots : i = num - 1 => list'[i] = EmptySlot
      /\ \A i \in Slots : i < num' => \E j \in Slots : j < num /\ list'[i] = list[j]
      /\ Killable' = Killable \ {h}
  BY Shifted
<1>3. Roles'
  BY <1>1 DEF TableInv, Roles, OthersStay
<1>4. Filling'
  <2> SUFFICES ASSUME NEW d \in Callers, d # c
               PROVE  /\ pc'[d] \in Creating \ {"full"} => hdl'[d] \in live' /\ owner'[hdl'[d]] = sub'[d]
                      /\ Adding(d)' => num' <= idx'[d]
                      /\ pc'[d] \in {"add_subsys", "add_num"} => list'[idx'[d]].handle = hdl'[d]
                      /\ pc'[d] = "add_subsys" => list'[idx'[d]].subsys = Core
                      /\ pc'[d] = "add_num" => list'[idx'[d]].subsys = sub'[d]
    BY <1>1 DEF Filling, Adding, Creating
  <2>1. pc'[d] = pc[d] /\ hdl'[d] = hdl[d] /\ sub'[d] = sub[d] /\ idx'[d] = idx[d] /\ idx[d] \in Slots
    BY DEF OthersStay, IInv, TypeOK
  <2>2. Adding(d) => num <= idx[d] /\ list'[idx[d]] = list[idx[d]]
    BY <1>2, <2>1 DEF TableInv, Filling
  <2>3. Adding(d) => num' <= idx[d]
    BY <1>2, <2>1, <2>2
  <2> QED BY <2>1, <2>2, <2>3 DEF TableInv, Filling, Adding
<1>5. SlotsInv'
  <2>1. ASSUME NEW i \in Slots, i < num' PROVE IsFree(i)' \/ Counted(i)'
    <3>1. PICK j \in Slots : j < num /\ list'[i] = list[j]
      BY <1>2, <2>1
    <3> QED BY <3>1 DEF TableInv, SlotsInv, IsFree, Counted
  <2>2. ASSUME NEW i \in Slots, i >= num' PROVE IsFree(i)' \/ InProgress(i)'
    <3>1. CASE i = num - 1
      BY <1>2, <3>1 DEF IsFree, EmptySlot
    <3>2. CASE i >= num /\ IsFree(i)
      BY <1>2, <3>2 DEF IsFree
    <3>3. CASE i >= num /\ InProgress(i)
      <4>1. PICK d \in Callers : pc[d] \in {"add_subsys", "add_num"} /\ idx[d] = i
        BY <3>3 DEF InProgress
      <4>2. d # c
        BY <1>1, <4>1 DEF Creating
      <4> QED BY <4>1, <4>2 DEF InProgress, OthersStay
    <3> QED BY <1>2, <2>2, <3>1, <3>2, <3>3 DEF TableInv, SlotsInv
  <2> QED BY <2>1, <2>2 DEF SlotsInv, Slots
<1>6. NoOrphan'
  <2>1. Holds(c, h)'
    BY DEF Holds, Deleting
  <2>2. \A g : ~Holds(c, g)
    BY DEF Holds, Adding, Deleting
  <2> QED BY <1>1, <1>2, <2>1, <2>2, OrphanFrame
<1> QED BY <1>3, <1>4, <1>5, <1>6 DEF TableInv

LEMMA FreeStep ==
  ASSUME IInv, TableInv, NEW c \in Callers, NEW from \in Deleting, NEW to \in {"idle", "reap"},
         VTaskDelete(c, from, to), to = "reap" => c \in Killers
  PROVE  TableInv'
<1>1. /\ pc[c] \in Deleting /\ pc'[c] = to /\ OthersStay(c)
      /\ list' = list /\ num' = num /\ live' = live \ {hdl[c]}
      /\ \A g \in Handles \ {hdl[c]} : owner'[g] = owner[g]
  BY DEF VTaskDelete, Goto, IInv, TypeOK, OthersStay
<1>2. \A i \in Slots : list[i].handle # hdl[c]
  BY <1>1 DEF IInv, Ownership, HeldOutside, Exclusive
<1>3. pc'[c] \notin Creating /\ pc[c] \notin {"add_subsys", "add_num"}
  BY <1>1 DEF Creating, Deleting
<1>4. Roles'
  BY <1>1, <1>3 DEF TableInv, Roles, OthersStay, Killing
<1>5. Filling'
  <2> SUFFICES ASSUME NEW d \in Callers, d # c
               PROVE  /\ pc'[d] \in Creating \ {"full"} => hdl'[d] \in live' /\ owner'[hdl'[d]] = sub'[d]
                      /\ Adding(d)' => num' <= idx'[d]
                      /\ pc'[d] \in {"add_subsys", "add_num"} => list'[idx'[d]].handle = hdl'[d]
                      /\ pc'[d] = "add_subsys" => list'[idx'[d]].subsys = Core
                      /\ pc'[d] = "add_num" => list'[idx'[d]].subsys = sub'[d]
    BY <1>3 DEF Filling, Adding, Creating
  <2>1. pc'[d] = pc[d] /\ hdl'[d] = hdl[d] /\ sub'[d] = sub[d] /\ idx'[d] = idx[d] /\ idx[d] \in Slots
    BY <1>1 DEF OthersStay, IInv, TypeOK
  <2>2. ASSUME pc[d] \in Creating \ {"full"}
        PROVE  hdl[d] # hdl[c] /\ hdl[d] \in Handles /\ hdl[d] \in live /\ owner[hdl[d]] = sub[d]
    <3>1. hdl[d] \in live /\ owner[hdl[d]] = sub[d] /\ hdl[d] \in Handles
      BY <2>2 DEF TableInv, Filling, IInv, TypeOK
    <3>2. CASE pc[d] \in {"add_load", "add_handle"}
      BY <1>1, <3>1, <3>2 DEF IInv, Ownership, HeldOnce, Exclusive
    <3>3. CASE pc[d] \in {"add_subsys", "add_num"}
      <4>1. list[idx[d]].handle = hdl[d]
        BY <3>3 DEF TableInv, Filling
      <4> QED BY <1>2, <2>1, <3>1, <4>1
    <3> QED BY <2>2, <3>2, <3>3 DEF Creating
  <2>3. pc'[d] \in Creating \ {"full"} => hdl'[d] \in live' /\ owner'[hdl'[d]] = sub'[d]
    BY <1>1, <2>1, <2>2
  <2> QED BY <1>1, <2>1, <2>3 DEF TableInv, Filling, Adding
<1>6. SlotsInv'
  <2>1. \A i \in Slots : (IsFree(i) => IsFree(i)') /\ (Counted(i) => Counted(i)')
    BY <1>1, <1>2 DEF IsFree, Counted
  <2>2. ASSUME NEW i \in Slots, InProgress(i) PROVE InProgress(i)'
    <3>1. PICK d \in Callers : pc[d] \in {"add_subsys", "add_num"} /\ idx[d] = i
      BY <2>2 DEF InProgress
    <3>2. d # c
      BY <1>3, <3>1
    <3> QED BY <1>1, <3>1, <3>2 DEF InProgress, OthersStay
  <2> QED BY <1>1, <2>1, <2>2 DEF TableInv, SlotsInv, Slots
<1>7. NoOrphan'
  <2>1. Killable' = Killable
    BY <1>1 DEF Killable, InUse, Slots
  <2>2. \A g : Holds(c, g) => g = hdl[c]
    BY DEF Holds
  <2> QED BY <1>1, <2>1, <2>2, OrphanFrame
<1> QED BY <1>4, <1>5, <1>6, <1>7 DEF TableInv

-----------------------------------------------------------------------------

LEMMA TableInit == Init => TableInv
<1> SUFFICES ASSUME Init PROVE TableInv
  OBVIOUS
<1>1. \A c \in Callers : pc[c] = "idle"
  BY DEF Init
<1>2. Roles /\ Filling
  BY <1>1 DEF Roles, Filling, Creating, Killing, Adding
<1>3. num = 0 /\ \A i \in Slots : i \in Nat /\ IsFree(i)
  BY DEF Init, EmptySlot, IsFree, Slots
<1>4. SlotsInv
  BY <1>3 DEF SlotsInv
<1>5. NoOrphan
  BY DEF Init, NoOrphan
<1> QED BY <1>2, <1>4, <1>5 DEF TableInv

\* A killer's step that neither takes a handle nor deletes a task.
LEMMA KillerQuiet ==
  ASSUME IInv, NEW c \in Killers,
         (\E s \in Subsys : KillSubsystem(c, s)) \/ ScanEmpty(c) \/ ScanHandle(c) \/ SkipSubsys(c)
           \/ ScanSubsys(c) \/ ScanCopy(c) \/ SkipTarget(c) \/ KillSubsystemReturns(c)
  PROVE  /\ pc[c] \notin Creating \cup Deleting /\ pc'[c] \notin Creating \cup Deleting
         /\ UNCHANGED <<list, num, live, owner>> /\ OthersStay(c)
<1>1. c \in Callers
  BY RegistryAssumption
<1>2. ASSUME NEW from \in {"scan", "scan_subsys", "scan_copy"}, NextSlot(c, from),
             UNCHANGED <<list, num, live, owner, sub>>,
             \A d \in Callers \ {c} : hdl'[d] = hdl[d]
      PROVE  /\ pc[c] \notin Creating \cup Deleting /\ pc'[c] \notin Creating \cup Deleting
             /\ UNCHANGED <<list, num, live, owner>> /\ OthersStay(c)
  BY <1>1, <1>2 DEF NextSlot, Goto, IInv, TypeOK, Creating, Deleting, OthersStay
<1>3. CASE ScanEmpty(c) \/ SkipSubsys(c) \/ ScanCopy(c)
  <2>1. /\ UNCHANGED <<list, num, live, owner, sub>>
        /\ \A d \in Callers \ {c} : hdl'[d] = hdl[d]
        /\ \E from \in {"scan", "scan_subsys", "scan_copy"} : NextSlot(c, from)
    BY <1>1, <1>3 DEF ScanEmpty, SkipSubsys, ScanCopy, IInv, TypeOK
  <2> QED BY <1>2, <2>1
<1>4. CASE (\E s \in Subsys : KillSubsystem(c, s)) \/ ScanHandle(c)
           \/ ScanSubsys(c) \/ SkipTarget(c) \/ KillSubsystemReturns(c)
  BY <1>1, <1>4 DEF KillSubsystem, ScanHandle, ScanSubsys, SkipTarget,
             KillSubsystemReturns, Goto, IInv, TypeOK, Creating, Deleting, OthersStay
<1> QED BY <1>3, <1>4

\* The handle that kill_task or kill_subsystem takes.
LEMMA Claims ==
  ASSUME IInv, NEW c \in Killers, ReapTarget(c) \/ \E h \in Handles : KillTask(c, h)
  PROVE  \E h \in Handles :
           /\ TaskDelete(h) /\ pc[c] \in {"idle", "reap"} /\ pc'[c] \in {"vdel", "reap_vdel"}
           /\ hdl'[c] = h /\ OthersStay(c) /\ UNCHANGED <<live, owner>>
<1>1. c \in Callers
  BY RegistryAssumption
<1>2. CASE ReapTarget(c)
  <2>1. Head(targets[c]) \in Handles
    BY <1>1, <1>2 DEF ReapTarget, TaskDelete, IInv, TypeOK
  <2> QED BY <1>1, <1>2, <2>1 DEF ReapTarget, Goto, IInv, TypeOK, OthersStay
<1>3. ASSUME NEW h \in Handles, KillTask(c, h)
      PROVE  /\ TaskDelete(h) /\ pc[c] \in {"idle", "reap"} /\ pc'[c] \in {"vdel", "reap_vdel"}
             /\ hdl'[c] = h /\ OthersStay(c) /\ UNCHANGED <<live, owner>>
  BY <1>1, <1>3 DEF KillTask, Goto, IInv, TypeOK, OthersStay
<1> QED BY <1>2, <1>3

LEMMA TableStep == SoleCreator /\ IInv /\ TableInv /\ [Next]_vars => TableInv'
<1> SUFFICES ASSUME SoleCreator, IInv, TableInv, [Next]_vars PROVE TableInv'
  OBVIOUS
<1>0. CASE UNCHANGED vars
  BY <1>0 DEF vars, locals, TableInv, Roles, Filling, SlotsInv, NoOrphan, Adding, IsFree, Counted,
              InProgress, Holds, Killable, InUse, Slots
<1>1. ASSUME NEW c \in Creators, Create(c)
      PROVE  TableInv'
  <2>1. ASSUME DeleteUnregistered(c) PROVE TableInv'
    <3>1. c \in Callers /\ "full" \in Deleting
      BY RegistryAssumption DEF Deleting
    <3> QED BY <2>1, <3>1, FreeStep DEF DeleteUnregistered
  <2> QED BY <1>1, <2>1, CreateStep, LoadStep, WriteStep, StoreStep DEF Create
<1>2. ASSUME NEW c \in Killers, Kill(c)
      PROVE  TableInv'
  <2>0. c \in Callers
    BY RegistryAssumption
  <2>1. ASSUME DeleteKilled(c) \/ DeleteReaped(c) PROVE TableInv'
    <3>1. "vdel" \in Deleting /\ "reap_vdel" \in Deleting
      BY DEF Deleting
    <3> QED BY <2>0, <2>1, <3>1, FreeStep DEF DeleteKilled, DeleteReaped
  <2>2. ASSUME ReapTarget(c) \/ \E h \in Handles : KillTask(c, h) PROVE TableInv'
    BY <2>2, Claims, ClaimStep
  <2>3. ASSUME (\E s \in Subsys : KillSubsystem(c, s)) \/ ScanEmpty(c) \/ ScanHandle(c) \/ SkipSubsys(c)
                 \/ ScanSubsys(c) \/ ScanCopy(c) \/ SkipTarget(c) \/ KillSubsystemReturns(c)
        PROVE  TableInv'
    BY <2>0, <2>3, KillerQuiet, TableFrame
  <2> QED BY <1>2, <2>1, <2>2, <2>3 DEF Kill
<1> QED BY <1>0, <1>1, <1>2 DEF Next

LEMMA TableInductive == SoleCreator => (Spec => [](IInv /\ TableInv))
<1>1. IInv /\ [Next]_vars => IInv'
  BY TypeStep, OwnershipStep DEF IInv
<1>2. CASE SoleCreator
  <2>1. IInv /\ TableInv /\ [Next]_vars => IInv' /\ TableInv'
    BY <1>1, <1>2, TableStep
  <2> QED BY InitInv, TableInit, <2>1, PTL DEF Spec
<1> QED BY <1>2

(* With one creator every task that exists is in the table below num, or the *)
(* call that created it or took it out is not over, although any number of   *)
(* killers move the slots and num between the accesses of task_add: none     *)
(* runs on unregistered.                                                     *)
THEOREM NoneOrphaned == SoleCreator => (Spec => []NoOrphan)
<1>1. TableInv => NoOrphan
  BY DEF TableInv
<1> QED BY <1>1, TableInductive, PTL

-----------------------------------------------------------------------------
(* kill_subsystem                                                          *)

\* In the code the supervisor is the only task that kills.
SoleKiller == \A c, d \in Killers : c = d

Elems(s) == {s[n] : n \in 1 .. Len(s)}
Distinct(s) == \A m, n \in 1 .. Len(s) : s[m] = s[n] => m = n

Scanning == {"scan", "scan_subsys", "scan_copy"}
Reaping == {"reap", "reap_vdel"}

InSlots(h, first, last) == \E j \in Slots : first <= j /\ j < last /\ list[j].handle = h
InTable(h) == \E j \in Slots : list[j].handle = h

\* What kill_subsystem has found, in slots num may not cover yet, and what it has
\* still to find.
Hunt(c) ==
  /\ pc[c] \notin Scanning \cup Reaping => targets[c] = << >> /\ doomed[c] = {}
  /\ pc[c] \notin Scanning /\ ~Adding(c) => idx[c] = 0
  /\ pc[c] \in Scanning \cup Reaping => sub[c] # Core
  /\ Distinct(targets[c])
  /\ \A h \in Elems(targets[c]) : h \in Handles /\ InTable(h) /\ owner[h] = sub[c]
  /\ pc[c] \in Scanning =>
       /\ \A h \in Elems(targets[c]) : InSlots(h, 0, idx[c])
       /\ \A h \in doomed[c] : h \in Elems(targets[c]) \/ InSlots(h, idx[c], num)
  /\ pc[c] \in {"scan_subsys", "scan_copy"} => list[idx[c]].handle = hdl[c] /\ hdl[c] \in Handles
  /\ pc[c] = "scan_copy" => owner[hdl[c]] = sub[c]
  /\ \A h \in doomed[c] : owner[h] = sub[c] /\ (h \in Killable \/ (pc[c] = "reap_vdel" /\ h = hdl[c]))
  /\ pc[c] \in Reaping =>
       \A h \in doomed[c] : h \in Elems(targets[c]) \/ (pc[c] = "reap_vdel" /\ h = hdl[c])
  /\ pc[c] = "reap_vdel" => owner[hdl[c]] = sub[c]

HuntInv == \A c \in Callers : Hunt(c)

-----------------------------------------------------------------------------

LEMMA EmptyElems == Elems(<< >>) = {} /\ Distinct(<< >>)
BY DEF Elems, Distinct

LEMMA AppendElems ==
  ASSUME NEW S, NEW s \in Seq(S), NEW e \in S
  PROVE  /\ Elems(Append(s, e)) = Elems(s) \cup {e}
         /\ Distinct(s) /\ e \notin Elems(s) => Distinct(Append(s, e))
<1>1. /\ Len(Append(s, e)) = Len(s) + 1 /\ Len(s) \in Nat
      /\ \A n \in 1 .. Len(s) : Append(s, e)[n] = s[n]
      /\ Append(s, e)[Len(s) + 1] = e
  OBVIOUS
<1> DEFINE t == Append(s, e)  k == Len(s)
<1>2. Len(t) = k + 1 /\ k \in Nat /\ k = Len(s) /\ t[k + 1] = e /\ \A n \in 1 .. k : t[n] = s[n]
  BY <1>1
<1> HIDE DEF t, k
<1>3. Elems(t) = Elems(s) \cup {e}
  <2>1. ASSUME NEW n \in 1 .. k + 1 PROVE t[n] \in Elems(s) \cup {e}
    BY <1>2 DEF Elems
  <2>2. ASSUME NEW n \in 1 .. k PROVE s[n] \in Elems(t)
    BY <1>2 DEF Elems
  <2>3. e \in Elems(t)
    BY <1>2 DEF Elems
  <2> QED BY <1>2, <2>1, <2>2, <2>3 DEF Elems
<1>4. Distinct(s) /\ e \notin Elems(s) => Distinct(t)
  <2> SUFFICES ASSUME Distinct(s), e \notin Elems(s), NEW m \in 1 .. k + 1, NEW n \in 1 .. k + 1, t[m] = t[n]
               PROVE  m = n
    BY <1>2 DEF Distinct
  <2>1. \A i \in 1 .. k : s[i] # e
    BY <1>2 DEF Elems
  <2>2. \A i, j \in 1 .. k : s[i] = s[j] => i = j
    BY <1>2 DEF Distinct
  <2> QED BY <1>2, <2>1, <2>2
<1> QED BY <1>3, <1>4 DEF t

LEMMA TailElems ==
  ASSUME NEW S, NEW s \in Seq(S), s # << >>
  PROVE  /\ Elems(s) = Elems(Tail(s)) \cup {Head(s)}
         /\ Distinct(s) => Distinct(Tail(s)) /\ Head(s) \notin Elems(Tail(s))
<1>1. /\ Len(s) \in Nat /\ Len(s) >= 1 /\ Len(Tail(s)) = Len(s) - 1 /\ Head(s) = s[1]
      /\ \A n \in 1 .. Len(s) - 1 : Tail(s)[n] = s[n + 1]
  OBVIOUS
<1> DEFINE t == Tail(s)  k == Len(s)  e == Head(s)
<1>2. /\ Len(t) = k - 1 /\ k \in Nat /\ k >= 1 /\ k = Len(s) /\ e = s[1]
      /\ \A n \in 1 .. k - 1 : t[n] = s[n + 1]
  BY <1>1
<1> HIDE DEF t, k, e
<1>3. Elems(s) = Elems(t) \cup {e}
  <2>1. ASSUME NEW n \in 1 .. k PROVE s[n] \in Elems(t) \cup {e}
    <3>1. CASE n = 1
      BY <1>2, <3>1
    <3>2. CASE n # 1
      <4>1. n - 1 \in 1 .. k - 1 /\ t[n - 1] = s[n]
        BY <1>2, <3>2
      <4> QED BY <1>2, <4>1 DEF Elems
    <3> QED BY <3>1, <3>2
  <2>2. ASSUME NEW n \in 1 .. k - 1 PROVE t[n] \in Elems(s)
    <3>1. n + 1 \in 1 .. k /\ t[n] = s[n + 1]
      BY <1>2
    <3> QED BY <1>2, <3>1 DEF Elems
  <2>3. e \in Elems(s)
    BY <1>2 DEF Elems
  <2> QED BY <1>2, <2>1, <2>2, <2>3 DEF Elems
<1>4. Distinct(s) => Distinct(t) /\ e \notin Elems(t)
  <2> SUFFICES ASSUME Distinct(s) PROVE Distinct(t) /\ e \notin Elems(t)
    OBVIOUS
  <2>1. \A i, j \in 1 .. k : s[i] = s[j] => i = j
    BY <1>2 DEF Distinct
  <2>2. \A i \in 1 .. k - 1 : i + 1 \in 1 .. k /\ i + 1 # 1
    BY <1>2
  <2>3. \A i, j \in 1 .. k - 1 : t[i] = t[j] => i = j
    BY <1>2, <2>1, <2>2
  <2>4. \A i \in 1 .. k - 1 : t[i] # e
    BY <1>2, <2>1, <2>2
  <2> QED BY <1>2, <2>3, <2>4 DEF Distinct, Elems
<1> QED BY <1>3, <1>4 DEF t, e

\* A caller outside of kill_subsystem.
LEMMA Quiet ==
  ASSUME NEW c \in Callers, pc'[c] \notin Scanning \cup Reaping,
         targets'[c] = << >>, doomed'[c] = {}, Adding(c)' \/ idx'[c] = 0
  PROVE  Hunt(c)'
<1>1. Elems(targets'[c]) = {} /\ Distinct(targets'[c])
  BY EmptyElems
<1> QED BY <1>1 DEF Hunt, Scanning, Reaping

\* A caller whose tasks the step of another leaves alone, in the slots they are in.
LEMMA HuntFrame ==
  ASSUME TypeOK, TypeOK', NEW d \in Callers, Hunt(d),
         UNCHANGED <<pc[d], hdl[d], sub[d], idx[d], targets[d]>>, doomed'[d] \subseteq doomed[d],
         num <= num',
         \A i \in Slots : list[i].handle # NoHandle =>
           list'[i].handle = list[i].handle /\ owner'[list[i].handle] = owner[list[i].handle],
         pc[d] = "reap_vdel" => owner'[hdl[d]] = owner[hdl[d]]
  PROVE  Hunt(d)'
<1>1. /\ num \in Nat /\ num' \in Nat /\ idx[d] \in Slots /\ idx[d] \in Nat
      /\ \A i \in Slots : i \in Nat
      /\ \A h \in Handles : h # NoHandle
  BY RegistryAssumption DEF TypeOK, Slots
<1>2. \A i \in Slots : i < num => i < num'
  BY <1>1
<1>3. Killable \subseteq Killable' /\ Killable \subseteq Handles
  BY <1>2 DEF Killable, InUse, Slots, TypeOK
<1>4. ASSUME NEW h \in Handles, InTable(h)
      PROVE  InTable(h)' /\ owner'[h] = owner[h]
  BY <1>1, <1>4 DEF InTable, Slots
<1>5. ASSUME NEW h \in Handles
      PROVE  /\ InSlots(h, 0, idx[d]) => InSlots(h, 0, idx[d])'
             /\ InSlots(h, idx[d], num) => InSlots(h, idx[d], num)'
  BY <1>1, <1>2 DEF InSlots, Slots
<1>6. Elems(targets'[d]) = Elems(targets[d]) /\ (Distinct(targets[d]) => Distinct(targets'[d]))
  OBVIOUS
<1>7. \A h \in doomed[d] : h \in Handles
  BY DEF TypeOK
<1>8. \A h \in Killable : owner'[h] = owner[h]
  BY DEF Killable, InUse
<1>9. /\ pc'[d] \notin Scanning \cup Reaping => targets'[d] = << >> /\ doomed'[d] = {}
      /\ pc'[d] \notin Scanning /\ ~Adding(d)' => idx'[d] = 0
      /\ pc'[d] \in Scanning \cup Reaping => sub'[d] # Core
      /\ Distinct(targets'[d])
  BY <1>6 DEF Hunt, Adding
<1>10. \A h \in Elems(targets'[d]) : h \in Handles /\ InTable(h)' /\ owner'[h] = sub'[d]
  BY <1>4, <1>6 DEF Hunt
<1>11. pc'[d] \in Scanning =>
         /\ \A h \in Elems(targets'[d]) : InSlots(h, 0, idx[d])'
         /\ \A h \in doomed'[d] : h \in Elems(targets'[d]) \/ InSlots(h, idx[d], num)'
  <2> SUFFICES ASSUME pc[d] \in Scanning
               PROVE  /\ \A h \in Elems(targets[d]) : InSlots(h, 0, idx[d])'
                      /\ \A h \in doomed[d] : h \in Elems(targets[d]) \/ InSlots(h, idx[d], num)'
    BY <1>6
  <2>1. \A h \in Elems(targets[d]) : h \in Handles /\ InSlots(h, 0, idx[d])
    BY DEF Hunt
  <2>2. \A h \in doomed[d] : h \in Elems(targets[d]) \/ InSlots(h, idx[d], num)
    BY DEF Hunt
  <2> QED BY <1>5, <1>7, <2>1, <2>2
<1>12. /\ pc'[d] \in {"scan_subsys", "scan_copy"} => list'[idx'[d]].handle = hdl'[d] /\ hdl'[d] \in Handles
       /\ pc'[d] = "scan_copy" => owner'[hdl'[d]] = sub'[d]
  <2> SUFFICES ASSUME pc[d] \in {"scan_subsys", "scan_copy"}
               PROVE  /\ list'[idx[d]].handle = hdl[d] /\ hdl[d] \in Handles
                      /\ pc[d] = "scan_copy" => owner'[hdl[d]] = sub[d]
    OBVIOUS
  <2>1. list[idx[d]].handle = hdl[d] /\ hdl[d] \in Handles /\ (pc[d] = "scan_copy" => owner[hdl[d]] = sub[d])
    BY DEF Hunt
  <2> QED BY <1>1, <2>1
<1>13. \A h \in doomed'[d] : owner'[h] = sub'[d] /\ (h \in Killable' \/ (pc'[d] = "reap_vdel" /\ h = hdl'[d]))
  BY <1>3, <1>8 DEF Hunt
<1>14. pc'[d] \in Reaping =>
         \A h \in doomed'[d] : h \in Elems(targets'[d]) \/ (pc'[d] = "reap_vdel" /\ h = hdl'[d])
  BY <1>6 DEF Hunt
<1>15. pc'[d] = "reap_vdel" => owner'[hdl'[d]] = sub'[d]
  BY DEF Hunt
<1> QED BY <1>9, <1>10, <1>11, <1>12, <1>13, <1>14, <1>15 DEF Hunt

-----------------------------------------------------------------------------
(* Steps of the creator                                                    *)

LEMMA HuntCreate ==
  ASSUME SoleCreator, IInv, IInv', TableInv, HuntInv, NEW c \in Creators, Create(c)
  PROVE  HuntInv'
<1>0. c \in Callers /\ TypeOK /\ TypeOK'
  BY RegistryAssumption DEF IInv
<1>1. num \in Nat /\ \A i \in Slots : i \in Nat
  BY <1>0 DEF TypeOK, Slots
<1>2. pc[c] \in Creating \cup {"idle"} /\ pc'[c] \in Creating \cup {"idle"}
  BY <1>0 DEF Create, CreateTask, TableFull, LoadNum, WriteHandle, WriteSubsys, StoreNum,
         DeleteUnregistered, VTaskDelete, Goto, Creating, TypeOK
<1>3. /\ \A d \in Callers \ {c} : UNCHANGED <<pc[d], hdl[d], sub[d], idx[d], targets[d]>>
      /\ targets' = targets /\ \A d \in Callers : doomed'[d] \subseteq doomed[d]
  BY <1>0 DEF Create, CreateTask, TableFull, LoadNum, WriteHandle, WriteSubsys, StoreNum,
         DeleteUnregistered, VTaskDelete, Goto, TypeOK
<1>4. Adding(c)' \/ idx'[c] = 0
  <2>1. pc[c] \in {"idle", "add_load", "full"} => idx[c] = 0
    BY <1>0 DEF HuntInv, Hunt, Adding, Scanning
  <2> QED BY <1>0, <2>1 DEF Create, CreateTask, TableFull, LoadNum, WriteHandle, WriteSubsys, StoreNum,
             DeleteUnregistered, VTaskDelete, Goto, TypeOK, Adding
<1>5. Hunt(c)'
  <2>1. targets[c] = << >> /\ doomed[c] = {}
    BY <1>0, <1>2 DEF HuntInv, Hunt, Creating, Scanning, Reaping
  <2>2. pc'[c] \notin Scanning \cup Reaping
    BY <1>2 DEF Creating, Scanning, Reaping
  <2>3. targets'[c] = << >> /\ doomed'[c] = {}
    BY <1>0, <1>3, <2>1
  <2> QED BY <1>0, <1>4, <2>2, <2>3, Quiet
<1>6. num <= num'
  <2>1. Adding(c) => num <= idx[c] /\ idx[c] \in Nat
    BY <1>0, <1>1 DEF TableInv, Filling, TypeOK
  <2> QED BY <1>1, <2>1 DEF Create, CreateTask, TableFull, LoadNum, WriteHandle, WriteSubsys, StoreNum,
             DeleteUnregistered, VTaskDelete, Goto, Adding
<1>7. ASSUME NEW i \in Slots, list[i].handle # NoHandle
      PROVE  list'[i].handle = list[i].handle
  <2>1. CASE WriteHandle(c)
    <3>1. pc[c] = "add_handle" /\ \A j \in Slots \ {idx[c]} : list'[j] = list[j]
      BY <1>0, <2>1 DEF WriteHandle, Goto, TypeOK
    <3>2. num <= idx[c] /\ idx[c] \in Slots /\ \A j \in Slots : j >= num => IsFree(j)
      BY <1>0, <3>1, RestFree DEF TableInv, Filling, Adding, TypeOK
    <3>3. idx[c] >= num
      BY <1>1, <3>2
    <3> QED BY <1>7, <3>1, <3>2, <3>3 DEF IsFree
  <2>2. CASE WriteSubsys(c)
    BY <1>0, <2>2 DEF WriteSubsys, TypeOK
  <2>3. CASE ~WriteHandle(c) /\ ~WriteSubsys(c)
    BY <2>3 DEF Create, CreateTask, TableFull, LoadNum, StoreNum, DeleteUnregistered, VTaskDelete
  <2> QED BY <2>1, <2>2, <2>3
<1>8. ASSUME NEW h \in Handles, h \in live, ~(pc[c] = "full" /\ hdl[c] = h)
      PROVE  owner'[h] = owner[h]
  BY <1>0, <1>8 DEF Create, CreateTask, TableFull, LoadNum, WriteHandle, WriteSubsys, StoreNum,
     DeleteUnregistered, VTaskDelete, Goto, TypeOK
<1>9. ASSUME NEW i \in Slots, list[i].handle # NoHandle
      PROVE  owner'[list[i].handle] = owner[list[i].handle]
  <2>1. list[i].handle \in Handles /\ list[i].handle \in live
    BY <1>0, <1>9 DEF TypeOK, IInv, Ownership, RegisteredLive
  <2>2. pc[c] = "full" => hdl[c] # list[i].handle
    BY <1>0 DEF IInv, Ownership, HeldOutside, Exclusive, Deleting
  <2> QED BY <1>8, <2>1, <2>2
<1>10. ASSUME NEW d \in Callers \ {c} PROVE Hunt(d)'
  <2>1. pc[d] = "reap_vdel" => owner'[hdl[d]] = owner[hdl[d]]
    <3>1. pc[d] = "reap_vdel" => hdl[d] \in live /\ hdl[d] \in Handles
      BY <1>0 DEF IInv, TypeOK, Ownership, HeldOutside, Exclusive, Deleting
    <3>2. pc[d] = "reap_vdel" /\ pc[c] = "full" => hdl[d] # hdl[c]
      BY <1>0 DEF IInv, Ownership, HeldOnce, Exclusive, Deleting
    <3> QED BY <1>8, <3>1, <3>2
  <2> QED BY <1>0, <1>3, <1>6, <1>7, <1>9, <2>1, HuntFrame DEF HuntInv
<1> QED BY <1>5, <1>10 DEF HuntInv

-----------------------------------------------------------------------------
(* Steps of the killer                                                     *)

\* Tasks in the table are not about to be deleted, and whose they are shows.
LEMMA TableAtRest ==
  ASSUME IInv, TableInv
  PROVE  /\ \A i \in Slots : list[i].handle # NoHandle =>
              /\ list[i].handle \in Handles
              /\ list[i].subsys # Core => list[i].subsys = owner[list[i].handle]
              /\ i < num => list[i].subsys = owner[list[i].handle]
              /\ \A d \in Callers : pc[d] \in Deleting => hdl[d] # list[i].handle
         /\ \A h \in Killable : h \in Handles /\ InSlots(h, 0, num)
         /\ num \in Nat /\ \A i \in Slots : i \in Nat
<1>1. num \in Nat /\ \A i \in Slots : i \in Nat
  BY DEF IInv, TypeOK, Slots
<1>2. ASSUME NEW i \in Slots, list[i].handle # NoHandle
      PROVE  /\ list[i].handle \in Handles
             /\ list[i].subsys # Core => list[i].subsys = owner[list[i].handle]
             /\ i < num => list[i].subsys = owner[list[i].handle]
             /\ \A d \in Callers : pc[d] \in Deleting => hdl[d] # list[i].handle
  <2>1. list[i].handle \in Handles
    BY <1>2 DEF IInv, TypeOK
  <2>2. \A d \in Callers : pc[d] \in Deleting => hdl[d] # list[i].handle
    BY DEF IInv, Ownership, HeldOutside, Exclusive
  <2>3. i < num => list[i].subsys = owner[list[i].handle]
    BY <1>2 DEF TableInv, SlotsInv, IsFree, Counted
  <2>4. ASSUME i >= num, list[i].subsys # Core PROVE list[i].subsys = owner[list[i].handle]
    <3>1. InProgress(i)
      BY <1>2, <2>4 DEF TableInv, SlotsInv, IsFree
    <3>2. PICK d \in Callers : pc[d] \in {"add_subsys", "add_num"} /\ idx[d] = i
      BY <3>1 DEF InProgress
    <3>3. pc[d] = "add_num"
      BY <2>4, <3>2 DEF TableInv, Filling
    <3> QED BY <3>2, <3>3 DEF TableInv, Filling, Creating
  <2> QED BY <1>1, <2>1, <2>2, <2>3, <2>4
<1>3. ASSUME NEW h \in Killable PROVE h \in Handles /\ InSlots(h, 0, num)
  <2>1. PICK i \in Slots : i < num /\ list[i].handle = h /\ h # NoHandle
    BY <1>3 DEF Killable, InUse
  <2> QED BY <1>1, <1>2, <2>1 DEF InSlots
<1> QED BY <1>1, <1>2, <1>3

LEMMA HuntBegins ==
  ASSUME IInv, TableInv, HuntInv, NEW c \in Killers, NEW s \in Subsys, KillSubsystem(c, s)
  PROVE  Hunt(c)'
<1>1. c \in Callers /\ pc[c] = "idle" /\ TypeOK
  BY RegistryAssumption DEF KillSubsystem, Goto, IInv
<1>2. /\ pc'[c] = "scan" /\ sub'[c] = s /\ s # Core /\ doomed'[c] = {h \in Killable : owner[h] = s}
      /\ UNCHANGED <<list, num, owner, idx, targets>>
  BY <1>1 DEF KillSubsystem, Goto, TypeOK
<1>3. targets[c] = << >> /\ idx[c] = 0
  BY <1>1 DEF HuntInv, Hunt, Scanning, Reaping, Adding
<1>4. Elems(targets'[c]) = {} /\ Distinct(targets'[c])
  BY <1>2, <1>3, EmptyElems
<1>5. Killable' = Killable
  BY <1>2 DEF Killable, InUse, Slots
<1>6. \A h \in doomed'[c] : owner'[h] = sub'[c] /\ h \in Killable' /\ InSlots(h, idx[c], num)'
  <2> SUFFICES ASSUME NEW h \in Killable PROVE InSlots(h, idx[c], num)'
    BY <1>2, <1>5
  <2>1. InSlots(h, 0, num)
    BY TableAtRest
  <2>2. idx'[c] = 0 /\ num' = num /\ list' = list
    BY <1>2, <1>3
  <2> QED BY <2>1, <2>2 DEF InSlots, Slots
<1> QED BY <1>2, <1>3, <1>4, <1>6 DEF Hunt, Scanning, Reaping

\* The loop goes on to the next slot, having found what was in this one.
LEMMA HuntNext ==
  ASSUME IInv, IInv', TableInv, HuntInv, NEW c \in Killers, NEW from \in Scanning,
         NextSlot(c, from), UNCHANGED <<list, num, live, owner, sub, doomed>>,
         Distinct(targets'[c]),
         \A h \in Elems(targets[c]) : h \in Elems(targets'[c]),
         \A h \in Elems(targets'[c]) : h \in Elems(targets[c])
            \/ (h = list[idx[c]].handle /\ h \in Handles /\ owner[h] = sub[c]),
         \A h \in doomed[c] : h = list[idx[c]].handle /\ idx[c] < num => h \in Elems(targets'[c])
  PROVE  Hunt(c)'
<1>1. /\ c \in Callers /\ pc[c] = from /\ idx[c] \in Slots /\ TypeOK
      /\ num \in Nat /\ idx[c] \in Nat /\ TasksMax \in Nat /\ num <= TasksMax
      /\ \A i \in Slots : i \in Nat /\ i <= TasksMax - 1
  BY RegistryAssumption DEF NextSlot, Goto, IInv, TypeOK, Slots
<1>2. \/ idx[c] = TasksMax - 1 /\ idx'[c] = 0 /\ pc'[c] = "reap"
      \/ idx[c] # TasksMax - 1 /\ idx'[c] = idx[c] + 1 /\ pc'[c] = "scan"
  BY <1>1 DEF NextSlot, Goto, TypeOK
<1>3. Killable' = Killable
  BY DEF Killable, InUse, Slots
<1>4. /\ \A h \in Elems(targets[c]) : h \in Handles /\ InTable(h) /\ owner[h] = sub[c] /\ InSlots(h, 0, idx[c])
      /\ \A h \in doomed[c] : h \in Elems(targets[c]) \/ InSlots(h, idx[c], num)
      /\ \A h \in doomed[c] : owner[h] = sub[c] /\ h \in Killable
      /\ sub[c] # Core
  BY <1>1 DEF HuntInv, Hunt, Scanning, Reaping
<1>5. \A h \in Elems(targets'[c]) : h \in Handles /\ InTable(h)' /\ owner'[h] = sub'[c]
  BY <1>1, <1>4 DEF InTable, Slots
<1>6. \A h \in doomed'[c] : owner'[h] = sub'[c] /\ h \in Killable'
  BY <1>3, <1>4
<1>7. ASSUME NEW h \in doomed[c], h \notin Elems(targets'[c])
      PROVE  \E j \in Slots : idx[c] < j /\ j < num /\ list[j].handle = h
  <2>1. PICK j \in Slots : idx[c] <= j /\ j < num /\ list[j].handle = h
    BY <1>4, <1>7 DEF InSlots
  <2>2. j # idx[c]
    BY <1>7, <2>1
  <2> QED BY <1>1, <2>1, <2>2
<1>8. CASE pc'[c] = "reap"
  <2>1. \A h \in doomed'[c] : h \in Elems(targets'[c])
    BY <1>1, <1>2, <1>7, <1>8
  <2>2. sub'[c] # Core /\ idx'[c] = 0
    BY <1>2, <1>4, <1>8
  <2> QED BY <1>5, <1>6, <1>8, <2>1, <2>2 DEF Hunt, Scanning, Reaping
<1>9. CASE pc'[c] = "scan"
  <2>0. idx'[c] = idx[c] + 1 /\ sub'[c] # Core
    BY <1>2, <1>4, <1>9
  <2>1. ASSUME NEW h \in Elems(targets'[c]) PROVE InSlots(h, 0, idx[c])'
    <3>1. CASE h \in Elems(targets[c])
      <4>1. PICK j \in Slots : 0 <= j /\ j < idx[c] /\ list[j].handle = h
        BY <1>4, <3>1 DEF InSlots
      <4>2. j < idx'[c]
        BY <1>1, <2>0, <4>1
      <4> QED BY <4>1, <4>2 DEF InSlots, Slots
    <3>2. CASE h = list[idx[c]].handle
      <4>1. idx[c] \in Slots /\ 0 <= idx[c] /\ idx[c] < idx'[c]
        BY <1>1, <2>0
      <4> QED BY <3>2, <4>1 DEF InSlots, Slots
    <3> QED BY <2>1, <3>1, <3>2
  <2>2. ASSUME NEW h \in doomed'[c], h \notin Elems(targets'[c]) PROVE InSlots(h, idx[c], num)'
    <3>1. PICK j \in Slots : idx[c] < j /\ j < num /\ list[j].handle = h
      BY <1>7, <2>2
    <3>2. idx'[c] <= j
      BY <1>1, <2>0, <3>1
    <3> QED BY <3>1, <3>2 DEF InSlots, Slots
  <2> QED BY <1>5, <1>6, <1>9, <2>0, <2>1, <2>2 DEF Hunt, Scanning, Reaping
<1> QED BY <1>2, <1>8, <1>9

\* The scan passes an empty slot ...
LEMMA HuntEmpty ==
  ASSUME IInv, IInv', TableInv, HuntInv, NEW c \in Killers, ScanEmpty(c)
  PROVE  Hunt(c)'
<1>1. /\ c \in Callers /\ pc[c] = "scan" /\ list[idx[c]].handle = NoHandle
      /\ NextSlot(c, "scan") /\ "scan" \in Scanning
      /\ UNCHANGED <<list, num, live, owner, sub, doomed, targets>>
  BY RegistryAssumption DEF ScanEmpty, NextSlot, Goto, Scanning
<1>2. Distinct(targets'[c]) /\ Elems(targets'[c]) = Elems(targets[c])
  BY <1>1 DEF HuntInv, Hunt
<1>3. \A h \in doomed[c] : h # list[idx[c]].handle
  <2>1. \A h \in doomed[c] : h \in Handles
    BY <1>1 DEF IInv, TypeOK
  <2> QED BY <1>1, <2>1, RegistryAssumption
<1> QED BY <1>1, <1>2, <1>3, HuntNext

\* ... stops at one with a handle ...
LEMMA HuntStop ==
  ASSUME IInv, TableInv, HuntInv, NEW c \in Killers, ScanHandle(c) \/ ScanSubsys(c)
  PROVE  Hunt(c)'
<1>1. /\ c \in Callers /\ pc[c] \in {"scan", "scan_subsys"} /\ pc'[c] \in {"scan_subsys", "scan_copy"}
      /\ idx[c] \in Slots
      /\ UNCHANGED <<list, num, live, owner, sub, idx, doomed, targets>>
  BY RegistryAssumption DEF ScanHandle, ScanSubsys, Goto, IInv, TypeOK
<1>2. Killable' = Killable
  BY <1>1 DEF Killable, InUse, Slots
<1>3. /\ Distinct(targets[c]) /\ sub[c] # Core
      /\ \A h \in Elems(targets[c]) : h \in Handles /\ InTable(h) /\ owner[h] = sub[c] /\ InSlots(h, 0, idx[c])
      /\ \A h \in doomed[c] : h \in Elems(targets[c]) \/ InSlots(h, idx[c], num)
      /\ \A h \in doomed[c] : owner[h] = sub[c] /\ h \in Killable
  BY <1>1 DEF HuntInv, Hunt, Scanning, Reaping
<1>4. \A h : /\ InSlots(h, 0, idx[c]) => InSlots(h, 0, idx[c])'
             /\ InSlots(h, idx[c], num) => InSlots(h, idx[c], num)'
             /\ InTable(h) => InTable(h)'
  BY <1>1 DEF InSlots, InTable, Slots
<1>5. list[idx[c]].handle = hdl'[c] /\ hdl'[c] \in Handles
  <2>1. CASE ScanHandle(c)
    BY <1>1, <2>1 DEF ScanHandle, IInv, TypeOK
  <2>2. CASE ScanSubsys(c)
    <3>1. pc[c] = "scan_subsys" /\ hdl' = hdl
      BY <2>2 DEF ScanSubsys, Goto
    <3> QED BY <1>1, <3>1 DEF HuntInv, Hunt
  <2> QED BY <2>1, <2>2
<1>6. pc'[c] = "scan_copy" => owner[hdl'[c]] = sub[c]
  <2> SUFFICES ASSUME ScanSubsys(c) PROVE owner[hdl'[c]] = sub[c]
    BY <1>1 DEF ScanHandle, Goto, IInv, TypeOK
  <2>1. list[idx[c]].subsys = sub[c]
    BY DEF ScanSubsys, IsTarget
  <2>2. list[idx[c]].handle # NoHandle
    BY <1>5, RegistryAssumption
  <2> QED BY <1>1, <1>3, <1>5, <2>1, <2>2, TableAtRest
<1>7. /\ targets'[c] = targets[c] /\ doomed'[c] = doomed[c] /\ sub'[c] = sub[c]
      /\ idx'[c] = idx[c] /\ list'[idx'[c]].handle = hdl'[c] /\ num' = num /\ owner' = owner
  BY <1>1, <1>5
<1> QED BY <1>1, <1>2, <1>3, <1>4, <1>5, <1>6, <1>7 DEF Hunt, Scanning, Reaping

\* ... goes on when it is of another subsystem ...
LEMMA HuntSkip ==
  ASSUME IInv, IInv', TableInv, HuntInv, NEW c \in Killers, SkipSubsys(c)
  PROVE  Hunt(c)'
<1>1. /\ c \in Callers /\ pc[c] = "scan_subsys" /\ idx[c] \in Slots
      /\ NextSlot(c, "scan_subsys") /\ "scan_subsys" \in Scanning
      /\ list[idx[c]].subsys # sub[c]
      /\ UNCHANGED <<list, num, live, owner, sub, doomed, targets>>
  BY RegistryAssumption DEF SkipSubsys, IsTarget, NextSlot, Goto, Scanning, IInv, TypeOK
<1>2. Distinct(targets'[c]) /\ Elems(targets'[c]) = Elems(targets[c])
  BY <1>1 DEF HuntInv, Hunt
<1>3. ASSUME NEW h \in doomed[c], h = list[idx[c]].handle, idx[c] < num PROVE FALSE
  <2>1. owner[h] = sub[c] /\ h # NoHandle
    BY <1>1, RegistryAssumption DEF HuntInv, Hunt, IInv, TypeOK
  <2>2. list[idx[c]].subsys = owner[h]
    BY <1>1, <1>3, <2>1, TableAtRest
  <2> QED BY <1>1, <2>1, <2>2
<1> QED BY <1>1, <1>2, <1>3, HuntNext

\* ... and copies the handle when it is of the one to stop.
LEMMA HuntCopy ==
  ASSUME IInv, IInv', TableInv, HuntInv, NEW c \in Killers, ScanCopy(c)
  PROVE  Hunt(c)'
<1>1. /\ c \in Callers /\ pc[c] = "scan_copy" /\ idx[c] \in Slots
      /\ NextSlot(c, "scan_copy") /\ "scan_copy" \in Scanning
      /\ UNCHANGED <<list, num, live, owner, sub, doomed>>
  BY RegistryAssumption DEF ScanCopy, NextSlot, Goto, Scanning, IInv, TypeOK
<1>2. /\ list[idx[c]].handle = hdl[c] /\ Distinct(targets[c]) /\ owner[hdl[c]] = sub[c]
      /\ targets[c] \in Seq(Handles \cup {NoHandle}) /\ hdl[c] \in Handles
  BY <1>1 DEF HuntInv, Hunt, IInv, TypeOK
<1>3. hdl[c] \notin Elems(targets[c])
  <2> SUFFICES ASSUME hdl[c] \in Elems(targets[c]) PROVE FALSE
    OBVIOUS
  <2>1. PICK j \in Slots : j < idx[c] /\ list[j].handle = hdl[c]
    <3>1. InSlots(hdl[c], 0, idx[c])
      BY <1>1 DEF HuntInv, Hunt, Scanning
    <3> QED BY <3>1 DEF InSlots
  <2>2. j = idx[c]
    BY <1>1, <1>2, <2>1, RegistryAssumption DEF IInv, Ownership, OneSlotEach
  <2>3. idx[c] \in Nat
    BY <1>1 DEF Slots
  <2> QED BY <2>1, <2>2, <2>3
<1>4. targets'[c] = Append(targets[c], hdl[c])
  BY <1>1, <1>2 DEF ScanCopy, IInv, TypeOK
<1>5. Elems(targets'[c]) = Elems(targets[c]) \cup {hdl[c]} /\ Distinct(targets'[c])
  BY <1>2, <1>3, <1>4, AppendElems
<1> QED BY <1>1, <1>2, <1>5, HuntNext

\* A target leaves the table ...
LEMMA HuntReap ==
  ASSUME IInv, TableInv, HuntInv, NEW c \in Killers, ReapTarget(c)
  PROVE  Hunt(c)'
<1> DEFINE g == Head(targets[c])
<1>1. /\ c \in Callers /\ pc[c] = "reap" /\ targets[c] # << >>
      /\ targets[c] \in Seq(Handles \cup {NoHandle}) /\ g \in Handles /\ TaskDelete(g)
      /\ pc'[c] = "reap_vdel" /\ hdl'[c] = g /\ targets'[c] = Tail(targets[c])
      /\ UNCHANGED <<live, owner, sub, idx, doomed>>
  BY RegistryAssumption DEF ReapTarget, TaskDelete, Goto, IInv, TypeOK
<1> HIDE DEF g
<1>2. /\ idx[c] = 0 /\ Distinct(targets[c]) /\ sub[c] # Core
      /\ \A h \in Elems(targets[c]) : h \in Handles /\ InTable(h) /\ owner[h] = sub[c]
      /\ \A h \in doomed[c] : owner[h] = sub[c] /\ h \in Killable /\ h \in Elems(targets[c])
  BY <1>1 DEF HuntInv, Hunt, Scanning, Reaping, Adding
<1>3. /\ Elems(targets[c]) = Elems(targets'[c]) \cup {g}
      /\ Distinct(targets'[c]) /\ g \notin Elems(targets'[c])
  BY <1>1, <1>2, TailElems DEF g
<1>4. /\ Killable' = Killable \ {g}
      /\ \A j \in Slots : list[j].handle # g => \E i \in Slots : list'[i] = list[j]
  BY <1>1, Shifted
<1>5. owner' = owner /\ sub'[c] = sub[c] /\ idx'[c] = 0 /\ doomed'[c] = doomed[c]
  BY <1>1, <1>2
<1>6. \A h \in Elems(targets'[c]) : h \in Handles /\ InTable(h)' /\ owner'[h] = sub'[c]
  <2> SUFFICES ASSUME NEW h \in Elems(targets'[c]) PROVE InTable(h)'
    BY <1>2, <1>3, <1>5
  <2>1. PICK j \in Slots : list[j].handle = h
    BY <1>2, <1>3 DEF InTable
  <2>2. PICK i \in Slots : list'[i] = list[j]
    BY <1>3, <1>4, <2>1
  <2> QED BY <2>1, <2>2 DEF InTable, Slots
<1>7. \A h \in doomed'[c] : /\ owner'[h] = sub'[c]
                            /\ h \in Killable' \/ h = hdl'[c]
                            /\ h \in Elems(targets'[c]) \/ h = hdl'[c]
  BY <1>1, <1>2, <1>3, <1>4, <1>5
<1>8. owner'[hdl'[c]] = sub'[c] /\ sub'[c] # Core
  BY <1>1, <1>2, <1>3, <1>5
<1> QED BY <1>1, <1>3, <1>5, <1>6, <1>7, <1>8 DEF Hunt, Scanning, Reaping, Adding

\* ... and is deleted ...
LEMMA HuntDelete ==
  ASSUME IInv, TableInv, HuntInv, NEW c \in Killers, DeleteReaped(c)
  PROVE  Hunt(c)'
<1>1. /\ c \in Callers /\ pc[c] = "reap_vdel" /\ pc'[c] = "reap"
      /\ doomed'[c] = doomed[c] \ {hdl[c]} /\ sub'[c] = sub[c]
      /\ \A g \in Handles \ {hdl[c]} : owner'[g] = owner[g]
      /\ UNCHANGED <<list, num, idx, targets>>
  BY RegistryAssumption DEF DeleteReaped, VTaskDelete, Goto, IInv, TypeOK
<1>2. /\ idx[c] = 0 /\ Distinct(targets[c]) /\ sub[c] # Core
      /\ \A h \in Elems(targets[c]) : h \in Handles /\ InTable(h) /\ owner[h] = sub[c]
      /\ \A h \in doomed[c] \ {hdl[c]} : owner[h] = sub[c] /\ h \in Killable /\ h \in Elems(targets[c])
  BY <1>1 DEF HuntInv, Hunt, Scanning, Reaping, Adding
<1>3. Killable' = Killable /\ \A h : InTable(h) => InTable(h)'
  BY <1>1 DEF Killable, InUse, InTable, Slots
<1>4. \A h \in Handles : InTable(h) => owner'[h] = owner[h]
  <2> SUFFICES ASSUME NEW i \in Slots, list[i].handle \in Handles
               PROVE  owner'[list[i].handle] = owner[list[i].handle]
    BY DEF InTable
  <2>1. list[i].handle # hdl[c]
    BY <1>1 DEF IInv, Ownership, HeldOutside, Exclusive, Deleting
  <2> QED BY <1>1, <2>1
<1>5. targets'[c] = targets[c] /\ idx'[c] = 0
  BY <1>1, <1>2
<1>6. \A h \in Elems(targets'[c]) : h \in Handles /\ InTable(h)' /\ owner'[h] = sub'[c]
  BY <1>1, <1>2, <1>3, <1>4, <1>5
<1>7. \A h \in doomed'[c] : owner'[h] = sub'[c] /\ h \in Killable' /\ h \in Elems(targets'[c])
  BY <1>1, <1>2, <1>3, <1>4, <1>5
<1>8. Distinct(targets'[c]) /\ sub'[c] # Core
  BY <1>1, <1>2, <1>5
<1> QED BY <1>1, <1>5, <1>6, <1>7, <1>8 DEF Hunt, Scanning, Reaping, Adding

\* ... or is passed over, because num does not cover it yet: then nothing was
\* promised about it.
LEMMA HuntPass ==
  ASSUME IInv, HuntInv, NEW c \in Killers, SkipTarget(c)
  PROVE  Hunt(c)'
<1> DEFINE g == Head(targets[c])
<1>1. /\ c \in Callers /\ pc[c] = "reap" /\ pc'[c] = "reap" /\ targets[c] # << >>
      /\ targets[c] \in Seq(Handles \cup {NoHandle}) /\ NotFound(g)
      /\ targets'[c] = Tail(targets[c])
      /\ UNCHANGED <<list, num, live, owner, sub, idx, doomed>>
  BY RegistryAssumption DEF SkipTarget, Goto, IInv, TypeOK
<1> HIDE DEF g
<1>2. /\ idx[c] = 0 /\ Distinct(targets[c]) /\ sub[c] # Core
      /\ \A h \in Elems(targets[c]) : h \in Handles /\ InTable(h) /\ owner[h] = sub[c]
      /\ \A h \in doomed[c] : owner[h] = sub[c] /\ h \in Killable /\ h \in Elems(targets[c])
  BY <1>1 DEF HuntInv, Hunt, Scanning, Reaping, Adding
<1>3. Elems(targets[c]) = Elems(targets'[c]) \cup {g} /\ Distinct(targets'[c])
  BY <1>1, <1>2, TailElems DEF g
<1>4. g \notin Killable
  <2> SUFFICES ASSUME NEW i \in Slots, i < num, list[i].handle = g, g # NoHandle PROVE FALSE
    BY DEF Killable, InUse
  <2>1. \A j \in Slots : j < i => list[j].handle # g
    <3>1. \A j \in Slots : j < i => j # i
      BY DEF Slots
    <3> QED BY <3>1 DEF IInv, Ownership, OneSlotEach
  <2> QED BY <1>1, <2>1 DEF NotFound, FoundAt
<1>5. Killable' = Killable /\ \A h : InTable(h) => InTable(h)'
  BY <1>1 DEF Killable, InUse, InTable, Slots
<1>6. owner' = owner /\ sub'[c] = sub[c] /\ idx'[c] = 0 /\ doomed'[c] = doomed[c] /\ sub'[c] # Core
  BY <1>1, <1>2
<1>7. \A h \in Elems(targets'[c]) : h \in Handles /\ InTable(h)' /\ owner'[h] = sub'[c]
  BY <1>2, <1>3, <1>5, <1>6
<1>8. \A h \in doomed'[c] : owner'[h] = sub'[c] /\ h \in Killable' /\ h \in Elems(targets'[c])
  BY <1>2, <1>3, <1>4, <1>5, <1>6
<1> QED BY <1>1, <1>3, <1>6, <1>7, <1>8 DEF Hunt, Scanning, Reaping, Adding

\* kill_task, and the end of both calls.
LEMMA HuntOver ==
  ASSUME IInv, HuntInv, NEW c \in Killers,
         (\E h \in Handles : KillTask(c, h)) \/ DeleteKilled(c) \/ KillSubsystemReturns(c)
  PROVE  Hunt(c)'
<1>1. /\ c \in Callers /\ pc[c] \in {"idle", "vdel", "reap"} /\ pc'[c] \in {"idle", "vdel"}
      /\ idx' = idx /\ targets' = targets
      /\ pc[c] = "reap" => targets[c] = << >> /\ doomed'[c] = {}
      /\ doomed'[c] \subseteq doomed[c]
  BY RegistryAssumption DEF KillTask, DeleteKilled, KillSubsystemReturns, VTaskDelete, Goto, IInv, TypeOK
<1>2. idx[c] = 0 /\ targets[c] = << >> /\ (pc[c] # "reap" => doomed[c] = {})
  BY <1>1 DEF HuntInv, Hunt, Scanning, Reaping, Adding
<1>3. pc'[c] \notin Scanning \cup Reaping /\ targets'[c] = << >> /\ doomed'[c] = {} /\ idx'[c] = 0
  BY <1>1, <1>2 DEF Scanning, Reaping
<1> QED BY <1>1, <1>3, Quiet

\* The others are not in the middle of kill_subsystem.
LEMMA HuntOthers ==
  ASSUME SoleKiller, IInv, Roles, HuntInv, NEW c \in Killers, Kill(c), NEW d \in Callers \ {c}
  PROVE  Hunt(d)'
<1>1. c \in Callers
  BY RegistryAssumption
<1>2. /\ pc'[d] = pc[d] /\ idx'[d] = idx[d] /\ targets'[d] = targets[d] /\ doomed'[d] \subseteq doomed[d]
  BY <1>1 DEF Kill, KillTask, DeleteKilled, KillSubsystem, ScanEmpty, ScanHandle, SkipSubsys, ScanSubsys,
         ScanCopy, ReapTarget,
         DeleteReaped, SkipTarget, KillSubsystemReturns, NextSlot, VTaskDelete, Goto, IInv, TypeOK
<1>3. pc[d] \notin Scanning \cup Reaping
  BY DEF SoleKiller, Roles, Killing, Scanning, Reaping
<1>4. targets[d] = << >> /\ doomed[d] = {} /\ (Adding(d) \/ idx[d] = 0)
  BY <1>3 DEF HuntInv, Hunt
<1>5. Adding(d)' \/ idx'[d] = 0
  BY <1>2, <1>4 DEF Adding
<1> QED BY <1>2, <1>3, <1>4, <1>5, Quiet

-----------------------------------------------------------------------------

LEMMA HuntInit == Init => HuntInv
<1> SUFFICES ASSUME Init, NEW c \in Callers PROVE Hunt(c)
  BY DEF HuntInv
<1>1. pc[c] = "idle" /\ targets[c] = << >> /\ doomed[c] = {} /\ idx[c] = 0
  BY DEF Init
<1> QED BY <1>1, EmptyElems DEF Hunt, Scanning, Reaping

LEMMA HuntStep ==
  ASSUME SoleCreator, SoleKiller, IInv, IInv', TableInv, HuntInv, [Next]_vars
  PROVE  HuntInv'
<1>1. CASE UNCHANGED vars
  <2> SUFFICES ASSUME NEW d \in Callers PROVE Hunt(d)'
    BY DEF HuntInv
  <2>1. TypeOK /\ TypeOK' /\ num \in Nat /\ Hunt(d)
    BY DEF IInv, TypeOK, HuntInv
  <2>2. /\ UNCHANGED <<pc[d], hdl[d], sub[d], idx[d], targets[d]>> /\ doomed'[d] \subseteq doomed[d]
        /\ num <= num' /\ list' = list /\ owner' = owner
    BY <1>1, <2>1 DEF vars, locals
  <2> QED BY <2>1, <2>2, HuntFrame
<1>2. ASSUME NEW c \in Killers, Kill(c)
      PROVE  HuntInv'
  <2>1. Hunt(c)'
    BY <1>2, HuntBegins, HuntEmpty, HuntStop, HuntSkip, HuntCopy, HuntReap, HuntDelete, HuntPass, HuntOver
       DEF Kill
  <2>2. \A d \in Callers \ {c} : Hunt(d)'
    BY <1>2, HuntOthers DEF TableInv
  <2> QED BY <2>1, <2>2 DEF HuntInv
<1> QED BY <1>1, <1>2, HuntCreate DEF Next

LEMMA HuntInductive == SoleCreator /\ SoleKiller => (Spec => [](IInv /\ HuntInv))
<1>1. ASSUME SoleCreator, SoleKiller PROVE Spec => [](IInv /\ HuntInv)
  <2>1. IInv /\ [Next]_vars => IInv'
    BY TypeStep, OwnershipStep DEF IInv
  <2>2. IInv /\ TableInv /\ HuntInv /\ [Next]_vars => HuntInv'
    BY <1>1, <2>1, HuntStep
  <2>3. Spec => [](IInv /\ TableInv)
    BY <1>1, TableInductive
  <2> QED BY HuntInit, <2>2, <2>3, PTL DEF Spec
<1> QED BY <1>1

(* With one creator and one killer, preempted anywhere, kill_subsystem       *)
(* deletes tasks of its subsystem only: the slots that task_add writes while *)
(* the scan reads them do not mislead it, and a handle it has copied is not  *)
(* reused before it gets to it.                                              *)
THEOREM KillsOwnOnly == SoleCreator /\ SoleKiller => (Spec => []KillIsolation)
<1>1. HuntInv => KillIsolation
  BY DEF HuntInv, Hunt, KillIsolation
<1> QED BY HuntInductive, <1>1, PTL

(* Then, too, every task of the subsystem that num covered at the call of    *)
(* kill_subsystem is out of the table when the call returns, although the    *)
(* slots shift under the later kills and task_add appends meanwhile.         *)
THEOREM StopsWhole == SoleCreator /\ SoleKiller => (Spec => []WholeSubsystemStopped)
<1>1. HuntInv => WholeSubsystemStopped
  <2> SUFFICES ASSUME HuntInv, NEW c \in Callers, pc[c] = "reap", targets[c] = << >>
               PROVE  doomed[c] \cap Killable = {}
    BY DEF WholeSubsystemStopped
  <2> QED BY EmptyElems DEF HuntInv, Hunt, Reaping
<1> QED BY HuntInductive, <1>1, PTL

-----------------------------------------------------------------------------
(* The calls implement TaskLifecycle                                       *)

Fresh == Held(Labels \ Deleting) \ Killable
Condemned == Held(Deleting)
Lost == num - Cardinality(Killable)

view == <<Fresh, Killable, Condemned, Lost, Shrunk>>

\* The instance counts as FiniteSets does.
LEMMA SameCount == \A S : Lifecycle!Cardinality(S) = Cardinality(S)
BY DEF Lifecycle!Cardinality, Cardinality

LEMMA KillableFinite == IInv => IsFiniteSet(Killable) /\ Cardinality(Killable) \in Nat
<1> SUFFICES ASSUME IInv PROVE IsFiniteSet(Killable)
  BY FS_CardinalityType
<1>1. TasksMax \in Nat /\ IsFiniteSet(Slots)
  <2>1. TasksMax \in Nat /\ 0 \in Int /\ TasksMax - 1 \in Int
    BY RegistryAssumption
  <2> QED BY <2>1, FS_Interval DEF Slots
<1> DEFINE f == [i \in Slots |-> list[i].handle]
<1>2. IsFiniteSet({f[i] : i \in Slots})
  <2>1. f \in [Slots -> {f[i] : i \in Slots}]
    OBVIOUS
  <2>2. f \in Surjection(Slots, {f[i] : i \in Slots})
    BY <2>1, Fun_IsSurj
  <2> HIDE DEF f
  <2> QED BY <1>1, <2>2, FS_Surjection
<1>3. Killable \subseteq {f[i] : i \in Slots}
  BY DEF Killable, InUse
<1> QED BY <1>2, <1>3, FS_Subset

\* How far num has fallen behind the slot of the creator.
LEMMA ShrunkValue ==
  ASSUME SoleCreator, Roles, NEW c \in Creators
  PROVE  /\ Adding(c) => Shrunk = idx[c] - num
         /\ ~Adding(c) => Shrunk = 0
<1>1. c \in Callers /\ \A d \in Callers : Adding(d) => d = c
  BY RegistryAssumption DEF SoleCreator, Roles, Adding, Creating
<1>2. CASE Adding(c)
  <2>1. {d \in Callers : Adding(d)} = {c}
    BY <1>1, <1>2
  <2>2. (CHOOSE d \in {c} : TRUE) = c
    OBVIOUS
  <2> QED BY <1>2, <2>1, <2>2 DEF Shrunk
<1>3. CASE ~Adding(c)
  <2>1. {d \in Callers : Adding(d)} = {}
    BY <1>1, <1>3
  <2> QED BY <1>3, <2>1 DEF Shrunk
<1> QED BY <1>2, <1>3

LEMMA NothingShrunk ==
  ASSUME \A c \in Callers : ~Adding(c)
  PROVE  Shrunk = 0
<1>1. {d \in Callers : Adding(d)} = {}
  OBVIOUS
<1> QED BY <1>1 DEF Shrunk

\* Who may hold a handle for create_task, who for vTaskDelete.
LEMMA Holders ==
  /\ \A h \in Handles : h \in Fresh <=>
       h \notin Killable /\ \E d \in Callers : hdl[d] = h /\ pc[d] \in Creating \ {"full"}
  /\ \A h \in Handles : h \in Condemned <=> \E d \in Callers : hdl[d] = h /\ pc[d] \in Deleting
  /\ Fresh \subseteq Handles /\ Condemned \subseteq Handles
<1>1. ASSUME NEW h \in Handles, NEW d \in Callers
      PROVE  /\ Holds(d, h) /\ pc[d] \in Labels \ Deleting <=> hdl[d] = h /\ pc[d] \in Creating \ {"full"}
             /\ Holds(d, h) /\ pc[d] \in Deleting <=> hdl[d] = h /\ pc[d] \in Deleting
  BY DEF Holds, Adding, Labels, Creating, Deleting
<1>2. ASSUME NEW h \in Handles
      PROVE  /\ h \in Fresh <=>
                  h \notin Killable /\ \E d \in Callers : hdl[d] = h /\ pc[d] \in Creating \ {"full"}
             /\ h \in Condemned <=> \E d \in Callers : hdl[d] = h /\ pc[d] \in Deleting
  BY <1>1 DEF Fresh, Condemned, Held
<1> QED BY <1>2 DEF Fresh, Condemned, Held

LEMMA HoldersNext ==
  /\ \A h \in Handles : h \in Fresh' <=>
       h \notin Killable' /\ \E d \in Callers : hdl'[d] = h /\ pc'[d] \in Creating \ {"full"}
  /\ \A h \in Handles : h \in Condemned' <=> \E d \in Callers : hdl'[d] = h /\ pc'[d] \in Deleting
  /\ Fresh' \subseteq Handles /\ Condemned' \subseteq Handles
<1>1. ASSUME NEW h \in Handles, NEW d \in Callers
      PROVE  /\ Holds(d, h)' /\ pc'[d] \in Labels \ Deleting <=> hdl'[d] = h /\ pc'[d] \in Creating \ {"full"}
             /\ Holds(d, h)' /\ pc'[d] \in Deleting <=> hdl'[d] = h /\ pc'[d] \in Deleting
  BY DEF Holds, Adding, Labels, Creating, Deleting
<1>2. ASSUME NEW h \in Handles
      PROVE  /\ h \in Fresh' <=>
                  h \notin Killable' /\ \E d \in Callers : hdl'[d] = h /\ pc'[d] \in Creating \ {"full"}
             /\ h \in Condemned' <=> \E d \in Callers : hdl'[d] = h /\ pc'[d] \in Deleting
  BY <1>1 DEF Fresh, Condemned, Held
<1> QED BY <1>2 DEF Fresh, Condemned, Held

\* What changes when only caller c moves.
LEMMA Views ==
  ASSUME NEW c \in Callers, OthersStay(c)
  PROVE  /\ hdl'[c] = hdl[c] /\ Killable' = Killable
            /\ (pc[c] \in Creating \ {"full"} <=> pc'[c] \in Creating \ {"full"}) => Fresh' = Fresh
         /\ hdl'[c] = hdl[c] /\ (pc[c] \in Deleting <=> pc'[c] \in Deleting) => Condemned' = Condemned
         /\ pc[c] \notin Creating \ {"full"} /\ pc'[c] \notin Creating \ {"full"} /\ Killable' = Killable
            => Fresh' = Fresh
         /\ pc[c] \notin Deleting /\ pc'[c] \notin Deleting => Condemned' = Condemned
<1>1. \A d \in Callers \ {c} : pc'[d] = pc[d] /\ hdl'[d] = hdl[d]
  BY DEF OthersStay
<1>3. hdl'[c] = hdl[c] /\ Killable' = Killable
            /\ (pc[c] \in Creating \ {"full"} <=> pc'[c] \in Creating \ {"full"}) => Fresh' = Fresh
  <2> SUFFICES ASSUME hdl'[c] = hdl[c], Killable' = Killable,
                      pc[c] \in Creating \ {"full"} <=> pc'[c] \in Creating \ {"full"}
               PROVE  Fresh' = Fresh
    OBVIOUS
  <2>1. \A h \in Handles : h \in Fresh' <=> h \in Fresh
    BY <1>1, Holders, HoldersNext
  <2> QED BY <2>1, Holders, HoldersNext
<1>4. hdl'[c] = hdl[c] /\ (pc[c] \in Deleting <=> pc'[c] \in Deleting) => Condemned' = Condemned
  <2> SUFFICES ASSUME hdl'[c] = hdl[c], pc[c] \in Deleting <=> pc'[c] \in Deleting
               PROVE  Condemned' = Condemned
    OBVIOUS
  <2>1. \A h \in Handles : h \in Condemned' <=> h \in Condemned
    BY <1>1, Holders, HoldersNext
  <2> QED BY <2>1, Holders, HoldersNext
<1>5. ASSUME pc[c] \notin Creating \ {"full"}, pc'[c] \notin Creating \ {"full"}, Killable' = Killable
      PROVE  Fresh' = Fresh
  <2>1. \A h \in Handles : h \in Fresh' <=> h \in Fresh
    BY <1>1, <1>5, Holders, HoldersNext
  <2> QED BY <2>1, Holders, HoldersNext
<1>6. ASSUME pc[c] \notin Deleting, pc'[c] \notin Deleting
      PROVE  Condemned' = Condemned
  <2>1. \A h \in Handles : h \in Condemned' <=> h \in Condemned
    BY <1>1, <1>6, Holders, HoldersNext
  <2> QED BY <2>1, Holders, HoldersNext
<1> QED BY <1>3, <1>4, <1>5, <1>6

-----------------------------------------------------------------------------

LEMMA RefineCreateTask ==
  ASSUME SoleCreator, IInv, TableInv, TableInv', NEW c \in Creators, NEW h \in Handles, NEW s \in Subsys,
         CreateTask(c, h, s)
  PROVE  Lifecycle!Create(h)
<1>1. /\ c \in Callers /\ pc[c] = "idle" /\ pc'[c] = "add_load" /\ hdl'[c] = h /\ h \notin live
      /\ OthersStay(c) /\ UNCHANGED <<list, num>>
  BY RegistryAssumption DEF CreateTask, Goto, IInv, TypeOK, OthersStay
<1>2. Killable' = Killable
  BY <1>1 DEF Killable, InUse, Slots
<1>3. h \notin Killable
  BY <1>1, RegistryAssumption DEF Killable, InUse, IInv, Ownership, RegisteredLive
<1>4. \A d \in Callers : hdl[d] = h => pc[d] \notin Deleting /\ pc[d] \notin Creating \ {"full"}
  BY <1>1 DEF IInv, Ownership, HeldOutside, Exclusive, TableInv, Filling
<1>5. pc[c] \notin Creating /\ pc[c] \notin Deleting /\ pc'[c] \in Creating \ {"full"} /\ pc'[c] \notin Deleting
  BY <1>1 DEF Creating, Deleting
<1>6. h \notin Fresh /\ h \notin Condemned
  BY <1>4, Holders
<1>7. Fresh' = Fresh \cup {h}
  <2>1. \A d \in Callers \ {c} : pc'[d] = pc[d] /\ hdl'[d] = hdl[d]
    BY <1>1 DEF OthersStay
  <2>2. \A g \in Handles : g \in Fresh' <=> g \in Fresh \/ g = h
    BY <1>1, <1>2, <1>3, <1>5, <2>1, Holders, HoldersNext
  <2> QED BY <2>2, Holders, HoldersNext
<1>8. Condemned' = Condemned
  BY <1>1, <1>5, Views
<1>9. Lost' = Lost
  BY <1>1, <1>2 DEF Lost
<1>10. Shrunk = 0 /\ Shrunk' = 0
  <2>1. ~Adding(c) /\ ~Adding(c)'
    BY <1>1 DEF Adding
  <2>2. \A d \in Callers : ~Adding(d)'
    BY <1>1, <2>1, Alone DEF TableInv, OthersStay, Adding, Creating
  <2>3. {d \in Callers : Adding(d)'} = {}
    BY <2>2
  <2>4. Shrunk' = 0
    BY <2>3 DEF Shrunk
  <2> QED BY <2>1, <2>4, ShrunkValue DEF TableInv
<1> QED BY <1>2, <1>3, <1>6, <1>7, <1>8, <1>9, <1>10
        DEF Lifecycle!Create, Lifecycle!Exists, Fresh, Condemned, Lost

LEMMA RefineFull ==
  ASSUME SoleCreator, IInv, TableInv, TableInv', NEW c \in Creators, TableFull(c)
  PROVE  hdl[c] \in Handles /\ Lifecycle!Reject(hdl[c])
<1>1. /\ c \in Callers /\ pc[c] = "add_load" /\ pc'[c] = "full" /\ num >= TasksMax
      /\ OthersStay(c) /\ UNCHANGED <<list, num, hdl>>
  BY RegistryAssumption DEF TableFull, Goto, IInv, TypeOK, OthersStay
<1>2. num = TasksMax /\ num \in Nat
  BY <1>1, RegistryAssumption DEF IInv, TypeOK
<1>3. /\ hdl[c] \in live /\ hdl[c] \in Handles
      /\ \A i \in Slots : list[i].handle # hdl[c]
  BY <1>1 DEF IInv, TypeOK, Ownership, HeldOutside, Exclusive
<1>4. Killable' = Killable /\ hdl[c] \notin Killable
  BY <1>1, <1>3 DEF Killable, InUse, Slots
<1>5. /\ pc[c] \in Creating \ {"full"} /\ pc'[c] \notin Creating \ {"full"}
      /\ pc[c] \notin Deleting /\ pc'[c] \in Deleting
  BY <1>1 DEF Creating, Deleting
<1>6. \A d \in Callers \ {c} : pc[d] \notin Creating /\ pc'[d] = pc[d] /\ hdl'[d] = hdl[d]
  BY <1>1, Alone DEF TableInv, OthersStay
<1>7. Fresh = {hdl[c]} /\ Fresh' = {}
  <2>1. \A g \in Handles : g \in Fresh <=> g = hdl[c]
    BY <1>1, <1>4, <1>5, <1>6, Holders
  <2>2. \A g \in Handles : g \notin Fresh'
    BY <1>1, <1>5, <1>6, HoldersNext
  <2> QED BY <1>3, <2>1, <2>2, Holders, HoldersNext
<1>8. Condemned' = Condemned \cup {hdl[c]}
  <2>1. \A g \in Handles : g \in Condemned' <=> g \in Condemned \/ g = hdl[c]
    BY <1>1, <1>5, <1>6, Holders, HoldersNext
  <2> QED BY <1>3, <2>1, Holders, HoldersNext
<1>9. Lifecycle!Cardinality(Killable) + Lost = TasksMax /\ Lost' = Lost
  <2>1. Cardinality(Killable) \in Nat
    BY KillableFinite
  <2>2. Lifecycle!Cardinality(Killable) = Cardinality(Killable)
    BY SameCount
  <2> QED BY <1>1, <1>2, <1>4, <2>1, <2>2 DEF Lost
<1>10. Shrunk' = Shrunk
  <2>1. \A d \in Callers : ~Adding(d) /\ ~Adding(d)'
    BY <1>1, <1>6 DEF Adding, Creating
  <2>2. {d \in Callers : Adding(d)} = {} /\ {d \in Callers : Adding(d)'} = {}
    BY <2>1
  <2> QED BY <2>2 DEF Shrunk
<1> QED BY <1>3, <1>4, <1>7, <1>8, <1>9, <1>10
        DEF Lifecycle!Reject, Fresh, Condemned, Lost

LEMMA RefineStore ==
  ASSUME SoleCreator, IInv, TableInv, TableInv', NEW c \in Creators, StoreNum(c)
  PROVE  hdl[c] \in Handles /\ Lifecycle!Register(hdl[c])
<1>1. /\ c \in Callers /\ pc[c] = "add_num" /\ num \in Nat /\ idx[c] \in Slots /\ num <= idx[c]
      /\ hdl[c] \in live /\ hdl[c] \in Handles
      /\ pc'[c] = "idle" /\ num' = idx[c] + 1 /\ OthersStay(c)
      /\ Killable' = Killable \cup {hdl[c]} /\ hdl[c] \notin Killable
  BY Covered
<1>2. pc[c] \in Creating \ {"full"} /\ pc'[c] \notin Creating /\ pc[c] \notin Deleting /\ pc'[c] \notin Deleting
  BY <1>1 DEF Creating, Deleting
<1>3. \A d \in Callers \ {c} : pc[d] \notin Creating /\ pc'[d] = pc[d] /\ hdl'[d] = hdl[d]
  BY <1>1, Alone DEF TableInv, OthersStay
<1>4. Fresh = {hdl[c]} /\ Fresh' = {}
  <2>1. \A g \in Handles : g \in Fresh <=> g = hdl[c]
    BY <1>1, <1>2, <1>3, Holders
  <2>2. \A g \in Handles : g \notin Fresh'
    BY <1>2, <1>3, HoldersNext
  <2> QED BY <1>1, <2>1, <2>2, Holders, HoldersNext
<1>5. Condemned' = Condemned
  BY <1>1, <1>2, Views
<1>6. Shrunk = idx[c] - num /\ Shrunk' = 0
  <2>1. Shrunk = idx[c] - num
    BY <1>1, ShrunkValue DEF TableInv, Adding
  <2>2. \A d \in Callers : ~Adding(d)'
    BY <1>1, <1>2, <1>3 DEF Adding, Creating
  <2>3. {d \in Callers : Adding(d)'} = {}
    BY <2>2
  <2> QED BY <2>1, <2>3 DEF Shrunk
<1>7. /\ Cardinality(Killable) \in Nat /\ Cardinality(Killable') = Cardinality(Killable) + 1
      /\ Lifecycle!Cardinality(Killable) = Cardinality(Killable)
  <2>1. IsFiniteSet(Killable) /\ Cardinality(Killable) \in Nat
    BY KillableFinite
  <2>2. Cardinality(Killable \cup {hdl[c]}) = Cardinality(Killable) + 1
    BY <1>1, <2>1, FS_AddElement
  <2> QED BY <1>1, <2>1, <2>2, SameCount
<1>8. idx[c] \in Nat /\ idx[c] < TasksMax /\ TasksMax \in Nat
  BY <1>1, RegistryAssumption DEF Slots
<1>9. Lost' = Lost + Shrunk /\ Lifecycle!Cardinality(Killable) + Lost + Shrunk < TasksMax
  <2> DEFINE k == Cardinality(Killable)  kn == Cardinality(Killable')
  <2>1. /\ k \in Nat /\ kn = k + 1 /\ Lifecycle!Cardinality(Killable) = k
        /\ Lost = num - k /\ Lost' = num' - kn
    BY <1>7 DEF Lost
  <2> HIDE DEF k, kn
  <2> QED BY <1>1, <1>6, <1>8, <2>1
<1> QED BY <1>1, <1>4, <1>5, <1>6, <1>9
        DEF Lifecycle!Register, Fresh, Condemned, Lost

\* The steps of task_add that show nothing.
LEMMA RefineAdd ==
  ASSUME SoleCreator, IInv, TableInv, TableInv', NEW c \in Creators,
         LoadNum(c) \/ WriteHandle(c) \/ WriteSubsys(c)
  PROVE  UNCHANGED view
<1>1. /\ c \in Callers /\ hdl' = hdl /\ num' = num /\ OthersStay(c) /\ num \in Nat
      /\ pc[c] \in {"add_load", "add_handle", "add_subsys"}
      /\ pc'[c] \in {"add_handle", "add_subsys", "add_num"}
      /\ IF pc[c] = "add_load" THEN idx'[c] = num /\ list' = list
                               ELSE idx'[c] = idx[c]
      /\ \A i \in Slots \ {idx[c]} : list'[i] = list[i]
  BY RegistryAssumption DEF LoadNum, WriteHandle, WriteSubsys, Goto, IInv, TypeOK, OthersStay
<1>2. /\ pc[c] \in Creating \ {"full"} /\ pc'[c] \in Creating \ {"full"}
      /\ pc[c] \notin Deleting /\ pc'[c] \notin Deleting
      /\ Adding(c) <=> pc[c] # "add_load"
      /\ Adding(c)'
  BY <1>1 DEF Creating, Deleting, Adding
<1>3. Killable' = Killable
  <2>1. ASSUME NEW i \in Slots, i < num PROVE list'[i] = list[i]
    <3>1. CASE pc[c] = "add_load"
      BY <1>1, <3>1
    <3>2. CASE Adding(c)
      <4>1. num <= idx[c] /\ idx[c] \in Slots
        BY <1>1, <3>2 DEF TableInv, Filling, IInv, TypeOK
      <4>2. i # idx[c]
        BY <1>1, <2>1, <4>1 DEF Slots
      <4> QED BY <1>1, <4>2
    <3> QED BY <1>2, <3>1, <3>2
  <2> QED BY <1>1, <2>1 DEF Killable, InUse, Slots
<1>4. Fresh' = Fresh /\ Condemned' = Condemned
  BY <1>1, <1>2, <1>3, Views
<1>5. Lost' = Lost
  BY <1>1, <1>3 DEF Lost
<1>6. Shrunk' = Shrunk
  <2>1. {d \in Callers : Adding(d)'} = {c}
    BY <1>1, <1>2, Alone DEF TableInv, OthersStay, Adding, Creating
  <2>2. (CHOOSE d \in {c} : TRUE) = c
    OBVIOUS
  <2>3. Shrunk' = idx'[c] - num'
    BY <2>1, <2>2 DEF Shrunk
  <2>4. /\ Adding(c) => Shrunk = idx[c] - num
        /\ ~Adding(c) => Shrunk = 0
    BY ShrunkValue DEF TableInv
  <2> QED BY <1>1, <1>2, <2>3, <2>4
<1> QED BY <1>3, <1>4, <1>5, <1>6 DEF view

\* kill_task claims a task of the table, and puts a place at risk when the
\* creator is filling a slot.
LEMMA RefineClaim ==
  ASSUME SoleCreator, IInv, IInv', TableInv, TableInv', NEW c \in Killers, NEW h \in Handles, TaskDelete(h),
         pc[c] \in {"idle", "reap"}, pc'[c] \in {"vdel", "reap_vdel"}, hdl'[c] = h, OthersStay(c)
  PROVE  Lifecycle!Condemn(h)
<1>1. /\ c \in Callers /\ pc[c] \notin Creating /\ pc[c] \notin Deleting
      /\ pc'[c] \notin Creating /\ pc'[c] \in Deleting
  BY RegistryAssumption DEF Creating, Deleting
<1>2. num' = num - 1 /\ num \in Nat /\ Killable' = Killable \ {h} /\ h \in Killable
  BY Shifted
<1>3. \A d \in Callers \ {c} : pc'[d] = pc[d] /\ hdl'[d] = hdl[d] /\ idx'[d] = idx[d]
  BY DEF OthersStay
<1>4. \A d \in Callers : pc[d] \in Creating \ {"full"} => hdl[d] \notin Killable
  <2> SUFFICES ASSUME NEW d \in Callers, pc[d] \in Creating \ {"full"},
                      NEW i \in Slots, i < num, list[i].handle = hdl[d], hdl[d] # NoHandle
               PROVE  FALSE
    BY DEF Killable, InUse
  <2>1. pc[d] \in {"add_subsys", "add_num"}
    BY DEF IInv, Ownership, HeldOutside, Exclusive, Creating
  <2>2. num <= idx[d] /\ list[idx[d]].handle = hdl[d] /\ idx[d] \in Slots
    BY <2>1 DEF TableInv, Filling, Adding, IInv, TypeOK
  <2>3. i = idx[d]
    BY <2>2 DEF IInv, Ownership, OneSlotEach
  <2> QED BY <1>2, <2>2, <2>3 DEF Slots
<1>5. Fresh' = Fresh
  <2>1. \A g \in Handles : g \in Fresh <=> \E d \in Callers : hdl[d] = g /\ pc[d] \in Creating \ {"full"}
    BY <1>4, Holders
  <2>2. \A g \in Handles : g \in Fresh' <=> \E d \in Callers : hdl'[d] = g /\ pc'[d] \in Creating \ {"full"}
    BY <1>1, <1>2, <1>3, <1>4, HoldersNext
  <2>3. \A g \in Handles : g \in Fresh' <=> g \in Fresh
    BY <1>1, <1>3, <2>1, <2>2
  <2> QED BY <2>3, Holders, HoldersNext
<1>6. Condemned' = Condemned \cup {h}
  <2>1. \A g \in Handles : g \in Condemned' <=> g \in Condemned \/ g = h
    BY <1>1, <1>3, Holders, HoldersNext
  <2> QED BY <2>1, Holders, HoldersNext
<1>7. Lost' = Lost
  <2> DEFINE k == Cardinality(Killable)  kn == Cardinality(Killable')
  <2>1. IsFiniteSet(Killable) /\ k \in Nat
    BY KillableFinite
  <2>2. kn = k - 1
    BY <1>2, <2>1, FS_RemoveElement
  <2>3. Lost = num - k /\ Lost' = num' - kn
    BY DEF Lost
  <2> HIDE DEF k, kn
  <2> QED BY <1>2, <2>1, <2>2, <2>3
<1>8. Shrunk' = Shrunk \/ (Fresh # {} /\ Shrunk' = Shrunk + 1)
  <2>1. CASE \E d \in Callers : Adding(d)
    <3>1. PICK d \in Callers : Adding(d)
      BY <2>1
    <3>2. d # c /\ d \in Creators /\ idx[d] \in Nat
      BY <1>1, <3>1 DEF TableInv, Roles, Adding, Creating, IInv, TypeOK, Slots
    <3>3. \A e \in Callers : Adding(e)' <=> e = d
      BY <1>1, <1>3, <3>1, <3>2, Alone DEF TableInv, Adding, Creating
    <3>4. {e \in Callers : Adding(e)'} = {d} /\ (CHOOSE e \in {d} : TRUE) = d
      BY <3>3
    <3>5. Shrunk' = idx'[d] - num'
      BY <3>4 DEF Shrunk
    <3>6. Shrunk = idx[d] - num
      BY <3>1, <3>2, ShrunkValue DEF TableInv
    <3>7. hdl[d] \in Fresh
      <4>1. pc[d] \in Creating \ {"full"} /\ hdl[d] \in Handles
        BY <3>1 DEF Adding, Creating, TableInv, Filling, IInv, TypeOK
      <4> QED BY <1>4, <4>1, Holders
    <3> QED BY <1>2, <1>3, <3>2, <3>5, <3>6, <3>7
  <2>2. CASE \A d \in Callers : ~Adding(d)
    <3>1. \A d \in Callers : ~Adding(d)'
      BY <1>1, <1>3, <2>2 DEF Adding, Creating
    <3>2. {d \in Callers : Adding(d)} = {} /\ {d \in Callers : Adding(d)'} = {}
      BY <2>2, <3>1
    <3> QED BY <3>2 DEF Shrunk
  <2> QED BY <2>1, <2>2
<1> QED BY <1>2, <1>5, <1>6, <1>7, <1>8 DEF Lifecycle!Condemn, Fresh, Condemned, Lost

\* vTaskDelete frees it.
LEMMA RefineFree ==
  ASSUME IInv, TableInv, TableInv', NEW c \in Callers,
         NEW from \in Deleting, NEW to \in {"idle", "reap"}, VTaskDelete(c, from, to)
  PROVE  hdl[c] \in Handles /\ Lifecycle!Free(hdl[c])
<1>1. /\ pc[c] \in Deleting /\ pc'[c] = to /\ OthersStay(c) /\ UNCHANGED <<list, num, idx>>
  BY DEF VTaskDelete, Goto, IInv, TypeOK, OthersStay
<1>2. pc[c] \notin Creating \ {"full"} /\ pc'[c] \notin Creating /\ pc'[c] \notin Deleting
  BY <1>1 DEF Creating, Deleting
<1>3. Killable' = Killable
  BY <1>1 DEF Killable, InUse, Slots
<1>4. hdl[c] \in Handles
  BY <1>1 DEF IInv, TypeOK, Ownership, HeldOutside, Exclusive
<1>5. \A d \in Callers \ {c} : pc'[d] = pc[d] /\ hdl'[d] = hdl[d] /\ (pc[d] \in Deleting => hdl[d] # hdl[c])
  BY <1>1 DEF IInv, Ownership, HeldOnce, Exclusive, OthersStay
<1>6. Fresh' = Fresh
  BY <1>1, <1>2, <1>3, Views
<1>7. hdl[c] \in Condemned /\ Condemned' = Condemned \ {hdl[c]}
  <2>1. \A g \in Handles : g \in Condemned' <=> g \in Condemned /\ g # hdl[c]
    BY <1>1, <1>2, <1>5, Holders, HoldersNext
  <2> QED BY <1>1, <1>4, <2>1, Holders, HoldersNext
<1>8. Lost' = Lost
  BY <1>1, <1>3 DEF Lost
<1>9. Shrunk' = Shrunk
  <2>1. \A d \in Callers : Adding(d)' <=> Adding(d)
    BY <1>1, <1>2, <1>5 DEF Adding, Creating, Deleting
  <2>2. {d \in Callers : Adding(d)'} = {d \in Callers : Adding(d)}
    BY <2>1
  <2>3. CASE {d \in Callers : Adding(d)} = {}
    BY <2>2, <2>3 DEF Shrunk
  <2>4. CASE {d \in Callers : Adding(d)} # {}
    <3>1. PICK e \in Callers : Adding(e) /\ e = CHOOSE d \in {d \in Callers : Adding(d)} : TRUE
      BY <2>4
    <3>2. Shrunk = idx[e] - num
      BY <2>4, <3>1 DEF Shrunk
    <3>3. Shrunk' = idx'[e] - num'
      BY <2>2, <2>4, <3>1 DEF Shrunk
    <3> QED BY <1>1, <3>2, <3>3
  <2> QED BY <2>3, <2>4
<1> QED BY <1>3, <1>4, <1>6, <1>7, <1>8, <1>9 DEF Lifecycle!Free, Fresh, Condemned, Lost

\* The other steps of kill_subsystem show nothing.
LEMMA RefineQuiet ==
  ASSUME IInv, NEW c \in Killers,
         (\E s \in Subsys : KillSubsystem(c, s)) \/ ScanEmpty(c) \/ ScanHandle(c) \/ SkipSubsys(c)
           \/ ScanSubsys(c) \/ ScanCopy(c) \/ SkipTarget(c) \/ KillSubsystemReturns(c)
  PROVE  UNCHANGED view
<1>1. /\ c \in Callers /\ pc[c] \notin Creating /\ pc[c] \notin Deleting
      /\ pc'[c] \notin Creating /\ pc'[c] \notin Deleting
      /\ UNCHANGED <<list, num>> /\ OthersStay(c)
  BY KillerQuiet, RegistryAssumption
<1>2. Killable' = Killable
  BY <1>1 DEF Killable, InUse, Slots
<1>3. Fresh' = Fresh /\ Condemned' = Condemned
  BY <1>1, <1>2, Views
<1>4. Lost' = Lost
  BY <1>1, <1>2 DEF Lost
<1>5. Shrunk' = Shrunk
  <2>1. \A d \in Callers : (Adding(d)' <=> Adding(d)) /\ (Adding(d) => idx'[d] = idx[d])
    BY <1>1 DEF Adding, Creating, OthersStay
  <2>2. {d \in Callers : Adding(d)'} = {d \in Callers : Adding(d)}
    BY <2>1
  <2>3. CASE {d \in Callers : Adding(d)} = {}
    BY <2>2, <2>3 DEF Shrunk
  <2>4. CASE {d \in Callers : Adding(d)} # {}
    <3>1. PICK e \in Callers : Adding(e) /\ e = CHOOSE d \in {d \in Callers : Adding(d)} : TRUE
      BY <2>4
    <3>2. Shrunk = idx[e] - num
      BY <2>4, <3>1 DEF Shrunk
    <3>3. Shrunk' = idx'[e] - num'
      BY <2>2, <2>4, <3>1 DEF Shrunk
    <3> QED BY <1>1, <2>1, <3>1, <3>2, <3>3
  <2> QED BY <2>3, <2>4
<1> QED BY <1>2, <1>3, <1>4, <1>5 DEF view

LEMMA RefineInit == Init => Lifecycle!Init
<1> SUFFICES ASSUME Init PROVE Lifecycle!Init
  OBVIOUS
<1>1. \A c \in Callers, h \in Handles : ~Holds(c, h)
  BY DEF Init, Holds, Adding, Deleting
<1>2. Killable = {}
  BY DEF Init, Killable, InUse, Slots
<1>3. num - Cardinality(Killable) = 0
  BY <1>2, FS_EmptySet DEF Init
<1>4. Shrunk = 0
  BY NothingShrunk DEF Init, Adding
<1> QED BY <1>1, <1>2, <1>3, <1>4 DEF Lifecycle!Init, Held

LEMMA RefineStep ==
  ASSUME SoleCreator, IInv, IInv', TableInv, TableInv', [Next]_vars
  PROVE  [Lifecycle!Next]_view
<1>1. CASE UNCHANGED vars
  <2>1. UNCHANGED <<list, num, pc, hdl, idx>>
    BY <1>1 DEF vars, locals
  <2>2. Killable' = Killable /\ Fresh' = Fresh /\ Condemned' = Condemned /\ Shrunk' = Shrunk
    BY <2>1 DEF Fresh, Condemned, Held, Holds, Adding, Killable, InUse, Slots, Shrunk
  <2>3. Lost' = Lost
    BY <2>1, <2>2 DEF Lost
  <2> QED BY <2>2, <2>3 DEF view
<1>2. ASSUME NEW c \in Creators, Create(c)
      PROVE  [Lifecycle!Next]_view
  <2>1. ASSUME DeleteUnregistered(c) PROVE Lifecycle!Next
    <3>1. c \in Callers /\ "full" \in Deleting
      BY RegistryAssumption DEF Deleting
    <3> QED BY <2>1, <3>1, RefineFree DEF DeleteUnregistered, Lifecycle!Next
  <2> QED BY <1>2, <2>1, RefineCreateTask, RefineFull, RefineStore, RefineAdd DEF Create, Lifecycle!Next
<1>3. ASSUME NEW c \in Killers, Kill(c)
      PROVE  [Lifecycle!Next]_view
  <2>1. ASSUME DeleteKilled(c) \/ DeleteReaped(c) PROVE Lifecycle!Next
    <3>1. c \in Callers /\ "vdel" \in Deleting /\ "reap_vdel" \in Deleting
      BY RegistryAssumption DEF Deleting
    <3> QED BY <2>1, <3>1, RefineFree DEF DeleteKilled, DeleteReaped, Lifecycle!Next
  <2>2. ASSUME ReapTarget(c) \/ \E h \in Handles : KillTask(c, h) PROVE Lifecycle!Next
    BY <2>2, Claims, RefineClaim DEF Lifecycle!Next
  <2>3. ASSUME (\E s \in Subsys : KillSubsystem(c, s)) \/ ScanEmpty(c) \/ ScanHandle(c) \/ SkipSubsys(c)
                 \/ ScanSubsys(c) \/ ScanCopy(c) \/ SkipTarget(c) \/ KillSubsystemReturns(c)
        PROVE  UNCHANGED view
    BY <2>3, RefineQuiet
  <2> QED BY <1>3, <2>1, <2>2, <2>3 DEF Kill
<1> QED BY <1>1, <1>2, <1>3 DEF Next

(* With one creator, and any number of killers that interrupt it, the kernel *)
(* calls implement TaskLifecycle: a task enters the registry unless no place *)
(* is left, is condemned by one caller, and freed once; a place is lost only *)
(* to a kill in the middle of create_task.                                   *)
THEOREM Implements == SoleCreator => (Spec => ImplementsLifecycle)
<1>1. ASSUME SoleCreator PROVE Spec => ImplementsLifecycle
  <2>1. IInv /\ TableInv /\ (IInv /\ TableInv)' /\ [Next]_vars => [Lifecycle!Next]_view
    BY <1>1, RefineStep
  <2>2. Spec => [](IInv /\ TableInv)
    BY <1>1, TableInductive
  <2>3. [Lifecycle!Next]_view => [Lifecycle!Next]_(Lifecycle!lifecycle)
    BY DEF view, Fresh, Condemned, Lost, Lifecycle!lifecycle
  <2> QED BY RefineInit, <2>1, <2>2, <2>3, PTL DEF Spec, ImplementsLifecycle, Lifecycle!Spec
<1> QED BY <1>1
=============================================================================
