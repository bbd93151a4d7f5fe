---------------------------- MODULE TaskRegistry ----------------------------
(***************************************************************************)
(* The task table of src/src/list.c and the task lifecycle calls of        *)
(* src/src/kernel.c that work on it: create_task, kill_task and            *)
(* kill_subsystem, called by several FreeRTOS tasks at once.               *)
(*                                                                         *)
(* The build is single core (CONFIG_FREERTOS_UNICORE), so                  *)
(* portENTER_CRITICAL masks interrupts and the body of task_delete is one  *)
(* step.  task_add and the scan of kill_subsystem take no lock: a caller   *)
(* may be preempted between any two of their accesses, and each access is  *)
(* a step of its own.  start() gives priority 1, so callers are            *)
(* time-sliced; every other choice of priorities has fewer interleavings.  *)
(*                                                                         *)
(* num is loaded once by task_add: it is static and not volatile, no store *)
(* to list[] can alias it, and the firmware is built with -Og.             *)
(*                                                                         *)
(* Locals are reset when their call returns: no value outlives its call.   *)
(*                                                                         *)
(* Callers are tasks that are not in the table themselves (app_main, the   *)
(* supervisor), so no call is cut short by the death of its caller.        *)
(***************************************************************************)
EXTENDS Integers, Sequences, FiniteSets

CONSTANTS
  Callers,   \* the tasks that call the kernel
  Creators,  \* those of them that call create_task
  Killers,   \* those of them that call kill_task and kill_subsystem
  Handles,   \* addresses xTaskCreate can return; the heap may reuse them
  Subsys,    \* subsys_id_t
  Core,      \* SUBSYS_CORE, which is 0: also what memset leaves in a slot
  NoHandle,  \* NULL
  TasksMax   \* TASKS_MAX

ASSUME RegistryAssumption ==
  /\ Creators \subseteq Callers /\ Killers \subseteq Callers
  /\ NoHandle \notin Handles
  /\ Core \in Subsys
  /\ TasksMax \in Nat \ {0}

VARIABLES
  list,      \* list[TASKS_MAX]: handle and subsys_id of every slot
  num,       \* number of tasks the table believes it holds
  live,      \* tasks that exist in FreeRTOS
  owner,     \* the subsystem each live task was created for
  pc,        \* where each caller is
  hdl,       \* caller's local: the handle it is creating or deleting
  sub,       \* caller's local: the subsystem argument of its call
  idx,       \* caller's local: the slot it writes or scans
  targets,   \* caller's local: targets[0 .. count-1] of kill_subsystem
  doomed     \* history: what a kill_subsystem in progress has promised to stop

locals == <<pc, hdl, sub, idx, targets>>
vars == <<list, num, live, owner, locals, doomed>>

Slots == 0 .. TasksMax - 1
EmptySlot == [handle |-> NoHandle, subsys |-> Core]

\* Callers inside a call that ends in vTaskDelete of the handle they hold.
Deleting == {"full", "vdel", "reap_vdel"}
Labels == {"idle", "add_load", "add_handle", "add_subsys", "add_num",
           "scan", "scan_subsys", "scan_copy", "reap"} \cup Deleting

\* The tasks that task_delete finds: those in the slots below num.
InUse == {i \in Slots : i < num}
Killable == {list[i].handle : i \in InUse} \ {NoHandle}

-----------------------------------------------------------------------------

Init ==
  /\ list = [i \in Slots |-> EmptySlot]
  /\ num = 0
  /\ live = {}
  /\ owner = [h \in Handles |-> Core]
  /\ pc = [c \in Callers |-> "idle"]
  /\ hdl = [c \in Callers |-> NoHandle]
  /\ sub = [c \in Callers |-> Core]
  /\ idx = [c \in Callers |-> 0]
  /\ targets = [c \in Callers |-> << >>]
  /\ doomed = [c \in Callers |-> {}]

Goto(c, from, to) ==
  /\ pc[c] = from
  /\ pc' = [pc EXCEPT ![c] = to]

-----------------------------------------------------------------------------
(* create_task                                                             *)

\* xTaskCreate succeeds: the new task exists, the table does not know it yet.
\* (When it fails create_task returns -1 and nothing has changed.)
CreateTask(c, h, s) ==
  /\ h \in Handles \ live
  /\ Goto(c, "idle", "add_load")
  /\ live' = live \cup {h}
  /\ owner' = [owner EXCEPT ![h] = s]
  /\ hdl' = [hdl EXCEPT ![c] = h]
  /\ sub' = [sub EXCEPT ![c] = s]
  /\ UNCHANGED <<list, num, idx, targets, doomed>>

\* Mutant: the last slot is never used.
TableFullEarly(c) ==
  /\ num >= TasksMax - 1
  /\ Goto(c, "add_load", "full")
  /\ UNCHANGED <<list, num, live, owner, hdl, sub, idx, targets, doomed>>

\* task_add returns -1 on a full table; create_task then deletes the task.
TableFull(c) ==
  /\ num >= TasksMax
  /\ Goto(c, "add_load", "full")
  /\ UNCHANGED <<list, num, live, owner, hdl, sub, idx, targets, doomed>>

\* Mutant: num is compared with > instead of >=.
LoadNumLate(c) ==
  /\ num <= TasksMax
  /\ Goto(c, "add_load", "add_handle")
  /\ idx' = [idx EXCEPT ![c] = num]
  /\ UNCHANGED <<list, num, live, owner, hdl, sub, targets, doomed>>

LoadNum(c) ==
  /\ num < TasksMax
  /\ Goto(c, "add_load", "add_handle")
  /\ idx' = [idx EXCEPT ![c] = num]
  /\ UNCHANGED <<list, num, live, owner, hdl, sub, targets, doomed>>

WriteHandle(c) ==
  /\ Goto(c, "add_handle", "add_subsys")
  /\ list' = [list EXCEPT ![idx[c]].handle = hdl[c]]
  /\ UNCHANGED <<num, live, owner, hdl, sub, idx, targets, doomed>>

WriteSubsys(c) ==
  /\ Goto(c, "add_subsys", "add_num")
  /\ list' = [list EXCEPT ![idx[c]].subsys = sub[c]]
  /\ UNCHANGED <<num, live, owner, hdl, sub, idx, targets, doomed>>

\* Mutant: num is loaded again for num++.
StoreNumReloaded(c) ==
  /\ Goto(c, "add_num", "idle")
  /\ num' = num + 1
  /\ hdl' = [hdl EXCEPT ![c] = NoHandle]
  /\ sub' = [sub EXCEPT ![c] = Core]
  /\ idx' = [idx EXCEPT ![c] = 0]
  /\ UNCHANGED <<list, live, owner, targets, doomed>>

\* num++ on the value loaded before; create_task returns 1.
StoreNum(c) ==
  /\ Goto(c, "add_num", "idle")
  /\ num' = idx[c] + 1
  /\ hdl' = [hdl EXCEPT ![c] = NoHandle]
  /\ sub' = [sub EXCEPT ![c] = Core]
  /\ idx' = [idx EXCEPT ![c] = 0]
  /\ UNCHANGED <<list, live, owner, targets, doomed>>

-----------------------------------------------------------------------------
(* task_delete, the critical section of list.c                             *)

\* The first slot below num that holds h: found_idx.
FoundAt(h, k) ==
  /\ k \in Slots /\ k < num
  /\ list[k].handle = h
  /\ \A j \in Slots : j < k => list[j].handle # h

\* Mutant: the slot that the shift leaves behind is not cleared.
WithoutClearing(k) ==
  [i \in Slots |-> IF k <= i /\ i < num - 1 THEN list[i + 1] ELSE list[i]]

\* Shift the slots above k down by one and clear the last one in use.
Without(k) ==
  [i \in Slots |->
     IF i = num - 1 THEN EmptySlot
     ELSE IF k <= i /\ i < num - 1 THEN list[i + 1]
     ELSE list[i]]

TaskDelete(h) ==
  /\ h # NoHandle
  /\ \E k \in Slots : /\ FoundAt(h, k)
                      /\ list' = Without(k)
                      /\ num' = num - 1

\* kill_task or task_delete returns -1: the handle is NULL, or in no slot below
\* num.
NotFound(h) == h = NoHandle \/ \A k \in Slots : ~FoundAt(h, k)

\* vTaskDelete frees the task; its address may be handed out again.
VTaskDelete(c, from, to) ==
  /\ Goto(c, from, to)
  /\ live' = live \ {hdl[c]}
  /\ owner' = [owner EXCEPT ![hdl[c]] = Core]
  /\ hdl' = [hdl EXCEPT ![c] = NoHandle]
  /\ sub' = [sub EXCEPT ![c] = IF to = "idle" THEN Core ELSE @]
  /\ doomed' = [d \in Callers |-> doomed[d] \ {hdl[c]}]
  /\ UNCHANGED <<list, num, idx, targets>>

-----------------------------------------------------------------------------
(* kill_task                                                               *)

\* Mutant: the status of task_delete is not looked at.
KillTaskUnchecked(c, h) ==
  /\ \/ TaskDelete(h)
     \/ NotFound(h) /\ UNCHANGED <<list, num>>
  /\ Goto(c, "idle", "vdel")
  /\ hdl' = [hdl EXCEPT ![c] = h]
  /\ UNCHANGED <<live, owner, sub, idx, targets, doomed>>

\* The handle may be stale: it is whatever an earlier create_task returned.
KillTask(c, h) ==
  /\ TaskDelete(h)
  /\ Goto(c, "idle", "vdel")
  /\ hdl' = [hdl EXCEPT ![c] = h]
  /\ UNCHANGED <<live, owner, sub, idx, targets, doomed>>

DeleteKilled(c) == VTaskDelete(c, "vdel", "idle")

DeleteUnregistered(c) == VTaskDelete(c, "full", "idle")

-----------------------------------------------------------------------------
(* kill_subsystem                                                          *)

\* kill_subsystem(SUBSYS_CORE) returns -1 at once.
KillSubsystem(c, s) ==
  /\ s # Core
  /\ Goto(c, "idle", "scan")
  /\ sub' = [sub EXCEPT ![c] = s]
  /\ doomed' = [doomed EXCEPT ![c] = {h \in Killable : owner[h] = s}]
  /\ UNCHANGED <<list, num, live, owner, hdl, idx, targets>>

\* Mutant: the loop ends one slot early.
NextSlotShort(c, from) ==
  /\ Goto(c, from, IF idx[c] = TasksMax - 2 THEN "reap" ELSE "scan")
  /\ idx' = [idx EXCEPT ![c] = IF @ = TasksMax - 2 THEN 0 ELSE @ + 1]

\* The loop goes to the next slot, or past the last of the TASKS_MAX slots.
NextSlot(c, from) ==
  /\ Goto(c, from, IF idx[c] = TasksMax - 1 THEN "reap" ELSE "scan")
  /\ idx' = [idx EXCEPT ![c] = IF @ = TasksMax - 1 THEN 0 ELSE @ + 1]

\* tasks[i].handle is NULL: the slot is skipped ...
ScanEmpty(c) ==
  /\ list[idx[c]].handle = NoHandle
  /\ NextSlot(c, "scan")
  /\ UNCHANGED <<list, num, live, owner, hdl, sub, targets, doomed>>

\* ... or it is not, and its subsys_id is read next, without the lock.
ScanHandle(c) ==
  /\ list[idx[c]].handle # NoHandle
  /\ Goto(c, "scan", "scan_subsys")
  /\ hdl' = [hdl EXCEPT ![c] = list[idx[c]].handle]
  /\ UNCHANGED <<list, num, live, owner, sub, idx, targets, doomed>>

IsTarget(slot, s) == slot.subsys = s

SkipSubsys(c) ==
  /\ ~IsTarget(list[idx[c]], sub[c])
  /\ NextSlot(c, "scan_subsys")
  /\ hdl' = [hdl EXCEPT ![c] = NoHandle]
  /\ UNCHANGED <<list, num, live, owner, sub, targets, doomed>>

ScanSubsys(c) ==
  /\ IsTarget(list[idx[c]], sub[c])
  /\ Goto(c, "scan_subsys", "scan_copy")
  /\ UNCHANGED <<list, num, live, owner, hdl, sub, idx, targets, doomed>>

\* targets[count++] = tasks[i].handle reads the slot a third time, unless the
\* compiler has kept what the first read returned.
ScanCopy(c) ==
  /\ NextSlot(c, "scan_copy")
  /\ \E h \in {hdl[c], list[idx[c]].handle} :
       targets' = [targets EXCEPT ![c] = Append(@, h)]
  /\ hdl' = [hdl EXCEPT ![c] = NoHandle]
  /\ UNCHANGED <<list, num, live, owner, sub, doomed>>

\* kill_task(targets[i]) finds the handle and takes it out of the table ...
ReapTarget(c) ==
  /\ targets[c] # << >>
  /\ TaskDelete(Head(targets[c]))
  /\ Goto(c, "reap", "reap_vdel")
  /\ hdl' = [hdl EXCEPT ![c] = Head(targets[c])]
  /\ targets' = [targets EXCEPT ![c] = Tail(@)]
  /\ UNCHANGED <<live, owner, sub, idx, doomed>>

DeleteReaped(c) == VTaskDelete(c, "reap_vdel", "reap")

\* ... or returns -1: it is NULL, or not, or no longer, below num.
SkipTarget(c) ==
  /\ targets[c] # << >>
  /\ NotFound(Head(targets[c]))
  /\ Goto(c, "reap", "reap")
  /\ targets' = [targets EXCEPT ![c] = Tail(@)]
  /\ UNCHANGED <<list, num, live, owner, hdl, sub, idx, doomed>>

KillSubsystemReturns(c) ==
  /\ targets[c] = << >>
  /\ Goto(c, "reap", "idle")
  /\ sub' = [sub EXCEPT ![c] = Core]
  /\ doomed' = [doomed EXCEPT ![c] = {}]
  /\ UNCHANGED <<list, num, live, owner, hdl, idx, targets>>

-----------------------------------------------------------------------------

Create(c) ==
  \/ \E h \in Handles, s \in Subsys : CreateTask(c, h, s)
  \/ TableFull(c) \/ LoadNum(c) \/ WriteHandle(c) \/ WriteSubsys(c)
  \/ StoreNum(c) \/ DeleteUnregistered(c)

Kill(c) ==
  \/ \E h \in Handles : KillTask(c, h)
  \/ DeleteKilled(c)
  \/ \E s \in Subsys : KillSubsystem(c, s)
  \/ ScanEmpty(c) \/ ScanHandle(c) \/ SkipSubsys(c) \/ ScanSubsys(c)
  \/ ScanCopy(c) \/ ReapTarget(c)
  \/ DeleteReaped(c) \/ SkipTarget(c) \/ KillSubsystemReturns(c)

Next == (\E c \in Creators : Create(c)) \/ (\E c \in Killers : Kill(c))

Spec == Init /\ [][Next]_vars

-----------------------------------------------------------------------------
(* Properties                                                              *)

Adding(c) == pc[c] \in {"add_handle", "add_subsys", "add_num"}
Holds(c, h) == hdl[c] = h /\ (Adding(c) \/ pc[c] \in {"add_load"} \cup Deleting)

TypeOK ==
  /\ list \in [Slots -> [handle : Handles \cup {NoHandle}, subsys : Subsys]]
  /\ num \in 0 .. TasksMax
  /\ live \subseteq Handles
  /\ owner \in [Handles -> Subsys]
  /\ pc \in [Callers -> Labels]
  /\ hdl \in [Callers -> Handles \cup {NoHandle}]
  /\ sub \in [Callers -> Subsys]
  /\ idx \in [Callers -> Slots]
  /\ targets \in [Callers -> Seq(Handles \cup {NoHandle})]
  /\ doomed \in [Callers -> SUBSET Handles]

(* vTaskDelete is called once for each task: a caller about to call it     *)
(* holds a task that still exists, and no other caller is about to delete  *)
(* the same one.  Only the caller whose task_delete took the handle out of *)
(* the table goes on to vTaskDelete.                                       *)
DeleteOnce ==
  \A c \in Callers : pc[c] \in Deleting =>
    /\ hdl[c] \in live
    /\ \A d \in Callers \ {c} : pc[d] \in Deleting => hdl[d] # hdl[c]

(* What docs/architecture.md:89 and :122-123 say of the table, that its    *)
(* accesses are synchronised: between two calls of create_task num is the  *)
(* number of its entries, each an existing task with its own subsystem.    *)
(* The code breaks this: a task_delete between the accesses of task_add    *)
(* moves num, and task_add leaves an empty slot below it for good.         *)
TableExact ==
  (\A c \in Callers : ~Adding(c)) =>
    \A i \in InUse : /\ list[i].handle \in live
                      /\ list[i].subsys = owner[list[i].handle]

(* Every task that exists can be killed through the kernel, or a caller is *)
(* still registering or deleting it.  With one creator this holds although *)
(* the others shift the table and move num between the accesses of         *)
(* task_add, and although create_task has to clean up after a full table.  *)
(* Two callers inside task_add at once do lose a task.                     *)
NoOrphan == \A h \in live : h \in Killable \/ \E c \in Callers : Holds(c, h)

(* kill_subsystem deletes tasks of that subsystem only, although it reads  *)
(* without the lock slots that a create_task is filling or has just        *)
(* refilled, and acts later on the handles it copied, which the heap may   *)
(* hand out again.  This is for one killer, as the supervisor is in the    *)
(* code: a second one can shift the table between the reads of a slot.     *)
KillIsolation ==
  \A c \in Callers : pc[c] = "reap_vdel" => owner[hdl[c]] = sub[c]

(* When kill_subsystem returns, none of the subsystem's tasks that were    *)
(* registered when it was called still is, whatever create_task does to    *)
(* the table meanwhile.  Again for one killer.                             *)
WholeSubsystemStopped ==
  \A c \in Callers :
    pc[c] = "reap" /\ targets[c] = << >> => doomed[c] \cap Killable = {}

-----------------------------------------------------------------------------
(* The kernel as its callers see it: a task is in the registry from the    *)
(* moment num covers its slot, and condemned while a caller is about to    *)
(* pass it to vTaskDelete.  The slots below num that hold no task are      *)
(* lost, and those by which num has shrunk below the slot that task_add is *)
(* filling are at risk.                                                    *)

Held(labels) == {h \in Handles : \E c \in Callers : Holds(c, h) /\ pc[c] \in labels}

Shrunk == LET adding == {c \in Callers : Adding(c)}
          IN  IF adding = {} THEN 0 ELSE idx[CHOOSE c \in adding : TRUE] - num

Lifecycle == INSTANCE TaskLifecycle WITH
  fresh <- Held(Labels \ Deleting) \ Killable,
  registered <- Killable,
  condemned <- Held(Deleting),
  lost <- num - Cardinality(Killable),
  risk <- Shrunk

(* With one creator the kernel calls implement TaskLifecycle: every step   *)
(* of them creates, registers, rejects, condemns or frees one task, or     *)
(* does none of these; a task is rejected only when no place is left, and  *)
(* a place is lost only to a kill that a create_task was interrupted by.   *)
ImplementsLifecycle == Lifecycle!Spec
=============================================================================
