---------------------------- MODULE TaskLifecycle ---------------------------
(***************************************************************************)
(* What the kernel promises about tasks, with no table and no steps inside *)
(* a call: a task is created, enters the registry unless no place is left, *)
(* leaves it once, and is deleted once.  The registry has TasksMax places. *)
(* A kill frees one; but each kill during a create_task can cost one, and  *)
(* a place that is lost stays lost.                                        *)
(***************************************************************************)
EXTENDS Integers, FiniteSets

CONSTANTS Handles, TasksMax

VARIABLES
  fresh, registered, condemned,
  lost,  \* places that hold no task and will hold none again
  risk   \* places that the create_task in progress loses when it succeeds

lifecycle == <<fresh, registered, condemned, lost, risk>>

Exists(h) == h \in fresh \cup registered \cup condemned

Init ==
  /\ fresh = {} /\ registered = {} /\ condemned = {}
  /\ lost = 0 /\ risk = 0

\* create_task obtains a task from FreeRTOS.
Create(h) ==
  /\ ~Exists(h)
  /\ fresh' = fresh \cup {h}
  /\ UNCHANGED <<registered, condemned, lost, risk>>

\* create_task succeeds.
Register(h) ==
  /\ h \in fresh
  /\ Cardinality(registered) + lost + risk < TasksMax
  /\ fresh' = fresh \ {h}
  /\ registered' = registered \cup {h}
  /\ lost' = lost + risk
  /\ risk' = 0
  /\ UNCHANGED condemned

\* create_task fails, and only because no place is left.
Reject(h) ==
  /\ h \in fresh
  /\ Cardinality(registered) + lost = TasksMax
  /\ fresh' = fresh \ {h}
  /\ condemned' = condemned \cup {h}
  /\ UNCHANGED <<registered, lost, risk>>

\* kill_task, alone or inside kill_subsystem, claims a registered task.
Condemn(h) ==
  /\ h \in registered
  /\ registered' = registered \ {h}
  /\ condemned' = condemned \cup {h}
  /\ risk' = risk \/ (fresh # {} /\ risk' = risk + 1)
  /\ UNCHANGED <<fresh, lost>>

\* vTaskDelete.
Free(h) ==
  /\ h \in condemned
  /\ condemned' = condemned \ {h}
  /\ UNCHANGED <<fresh, registered, lost, risk>>

Next == \E h \in Handles :
          Create(h) \/ Register(h) \/ Reject(h) \/ Condemn(h) \/ Free(h)

Spec == Init /\ [][Next]_lifecycle
=============================================================================
