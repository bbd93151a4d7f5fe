----------------------------- MODULE Supervisor -----------------------------
(***************************************************************************)
(* The heartbeat watchdog of src/src/kernel.c: sys_heartbeat, called by    *)
(* the tasks of the subsystems, and the supervisor task, which kills the   *)
(* subsystems whose last heartbeat is older than HEARTBEAT_TIMEOUT_MS.     *)
(*                                                                         *)
(* Every instant is kept as its age, so that time can go on forever: an    *)
(* age grows by one with each Tick, up to AgeCap.  now_ms - last_seen_ms   *)
(* is then the age of last_seen_ms minus the age of now_ms, and like the   *)
(* uint64_t of the code it wraps when it is negative.                      *)
(*                                                                         *)
(* The sections between portENTER_CRITICAL and portEXIT_CRITICAL are one   *)
(* step each; everything else can be interleaved.  kill_subsystem is one   *)
(* step here: TaskRegistry has its details.                                *)
(*                                                                         *)
(* The tasks of one priority share the processor (start() gives 1 to all), *)
(* and those above the supervisor leave it the rest.  How long its delay,  *)
(* a pass and a call of sys_heartbeat then take is bounded by constants,   *)
(* which stand for the load.  There is no such bound when a task above the *)
(* supervisor loops (Starved): on the one core it keeps the supervisor and *)
(* all below it out for good.                                              *)
(***************************************************************************)
EXTENDS Integers

CONSTANTS
  SubsysCount,   \* SUBSYS_COUNT
  Tasks,         \* the tasks that report for a subsystem
  SubsysOf,      \* the subsystem each was created for
  Timeout,       \* HEARTBEAT_TIMEOUT_MS
  Above,         \* the tasks with a higher priority than the supervisor
  Period,        \* the vTaskDelay of the supervisor, at least
  DelayMax,      \* longest delay, with the wait for the processor after it
  PassMax,       \* longest pass of the supervisor over subsys_health
  BeatMax,       \* longest call of sys_heartbeat
  Wrap           \* 2^64

Subsystems == 1 .. SubsysCount - 1
HungBound == Timeout + DelayMax + 2 * PassMax
AgeCap == HungBound + 1

ASSUME SupervisorAssumption ==
  /\ SubsysCount \in Nat \ {0, 1}
  /\ SubsysOf \in [Tasks -> Subsystems]
  /\ Above \subseteq Tasks
  /\ Timeout \in Nat /\ Period \in Nat \ {0}
  /\ DelayMax \in Nat /\ Period <= DelayMax
  /\ PassMax \in Nat /\ BeatMax \in 0 .. Timeout
  /\ Wrap \in Nat /\ Wrap > AgeCap + Timeout + PassMax

VARIABLES
  seen,       \* age of subsys_health[s].last_seen_ms
  monitored,  \* subsys_health[s].is_monitored
  task,       \* each task: "run", "beat" (inside sys_heartbeat), "hung",
              \* "loops" (hung, and never leaves the processor) or "dead"
  beat,       \* age of now_ms in the task's sys_heartbeat
  sup,        \* supervisor: "delay", "check", "clear" or "kill"
  cur,        \* supervisor: i
  age,        \* supervisor: age of now_ms in a pass, time slept in the delay
  called,     \* history: time since a sys_heartbeat of s last returned
  empty       \* history: kills of s in a row that found none of its tasks

vars == <<seen, monitored, task, beat, sup, cur, age, called, empty>>

Alive(s) == \E t \in Tasks : SubsysOf[t] = s /\ task[t] # "dead"

-----------------------------------------------------------------------------

\* Static memory is zero: nothing is monitored before its first heartbeat.
Init ==
  /\ seen = [s \in Subsystems |-> AgeCap]
  /\ monitored = [s \in Subsystems |-> FALSE]
  /\ task = [t \in Tasks |-> "run"]
  /\ beat = [t \in Tasks |-> 0]
  /\ sup = "delay"
  /\ cur = 1
  /\ age = 0
  /\ called = [s \in Subsystems |-> AgeCap]
  /\ empty = [s \in Subsystems |-> 0]

-----------------------------------------------------------------------------
(* Tasks                                                                   *)

\* The supervisor and all below the looping task never run again.
Starved == \E t \in Above : task[t] = "loops"

TaskRuns(t) == Starved => t \in Above

\* sys_heartbeat reads the clock before it takes the lock.
BeatStarts(t) ==
  /\ TaskRuns(t)
  /\ task[t] = "run"
  /\ task' = [task EXCEPT ![t] = "beat"]
  /\ beat' = [beat EXCEPT ![t] = 0]
  /\ UNCHANGED <<seen, monitored, sup, cur, age, called, empty>>

\* The critical section of sys_heartbeat.
Heartbeat(t) ==
  /\ TaskRuns(t)
  /\ task[t] = "beat"
  /\ task' = [task EXCEPT ![t] = "run"]
  /\ seen' = [seen EXCEPT ![SubsysOf[t]] = beat[t]]
  /\ monitored' = [monitored EXCEPT ![SubsysOf[t]] = TRUE]
  /\ called' = [called EXCEPT ![SubsysOf[t]] = 0]
  /\ beat' = [beat EXCEPT ![t] = 0]
  /\ UNCHANGED <<sup, cur, age, empty>>

\* The task never reports again: it blocks, or loops without keeping the
\* supervisor out.
Hang(t) ==
  /\ TaskRuns(t)
  /\ task[t] = "run"
  /\ task' = [task EXCEPT ![t] = "hung"]
  /\ UNCHANGED <<seen, monitored, beat, sup, cur, age, called, empty>>

\* The task loops, and the supervisor is below it.
Loop(t) ==
  /\ t \in Above
  /\ TaskRuns(t)
  /\ task[t] = "run"
  /\ task' = [task EXCEPT ![t] = "loops"]
  /\ UNCHANGED <<seen, monitored, beat, sup, cur, age, called, empty>>

\* Somebody calls create_task again for a subsystem that was killed.
Restart(t) ==
  /\ TaskRuns(t)
  /\ task[t] = "dead"
  /\ task' = [task EXCEPT ![t] = "run"]
  /\ UNCHANGED <<seen, monitored, beat, sup, cur, age, called, empty>>

-----------------------------------------------------------------------------
(* The supervisor                                                          *)

\* vTaskDelay returns and now_ms is read, once for the whole pass.
PassStarts ==
  /\ ~Starved
  /\ sup = "delay" /\ age >= Period
  /\ sup' = "check"
  /\ cur' = 1
  /\ age' = 0
  /\ UNCHANGED <<seen, monitored, task, beat, called, empty>>

\* now_ms - last_seen_ms in uint64_t.
Elapsed(s) == (seen[s] - age) % Wrap

\* Mutant: >= for >.
ExpiredEarly(s) == monitored[s] /\ Elapsed(s) >= Timeout

\* Mutant: the timeout is counted from the pass before.
ExpiredLate(s) == monitored[s] /\ Elapsed(s) > Timeout + Period

Expired(s) == monitored[s] /\ Elapsed(s) > Timeout

\* Mutant: the loop leaves out the last subsystem.
NextSubsystemShort ==
  IF cur = SubsysCount - 2
  THEN sup' = "delay" /\ cur' = 1 /\ age' = 0
  ELSE sup' = "check" /\ cur' = cur + 1 /\ age' = age

\* Mutant: <= for < in the loop's condition.
NextSubsystemLong ==
  IF cur = SubsysCount
  THEN sup' = "delay" /\ cur' = 1 /\ age' = 0
  ELSE sup' = "check" /\ cur' = cur + 1 /\ age' = age

\* The loop goes on with the next subsystem, or back to vTaskDelay.
NextSubsystem ==
  IF cur = SubsysCount - 1
  THEN sup' = "delay" /\ cur' = 1 /\ age' = 0
  ELSE sup' = "check" /\ cur' = cur + 1 /\ age' = age

\* Both fields are copied under the lock and compared after it is released.
Healthy ==
  /\ ~Starved
  /\ sup = "check"
  /\ ~Expired(cur)
  /\ NextSubsystem
  /\ UNCHANGED <<seen, monitored, task, beat, called, empty>>

HasExpired ==
  /\ ~Starved
  /\ sup = "check"
  /\ Expired(cur)
  /\ sup' = "clear"
  /\ UNCHANGED <<seen, monitored, task, beat, cur, age, called, empty>>

\* Mutant: monitoring stays on.
StopMonitoringSkipped ==
  /\ ~Starved
  /\ sup = "clear"
  /\ sup' = "kill"
  /\ UNCHANGED <<seen, monitored, task, beat, cur, age, called, empty>>

StopMonitoring ==
  /\ ~Starved
  /\ sup = "clear"
  /\ monitored' = [monitored EXCEPT ![cur] = FALSE]
  /\ sup' = "kill"
  /\ UNCHANGED <<seen, task, beat, cur, age, called, empty>>

\* kill_subsystem(i)
Kill ==
  /\ ~Starved
  /\ sup = "kill"
  /\ task' = [t \in Tasks |-> IF SubsysOf[t] = cur THEN "dead" ELSE task[t]]
  /\ beat' = [t \in Tasks |-> IF SubsysOf[t] = cur THEN 0 ELSE beat[t]]
  /\ empty' = [empty EXCEPT ![cur] = IF Alive(cur) THEN 0 ELSE @ + 1]
  /\ NextSubsystem
  /\ UNCHANGED <<seen, monitored, called>>

-----------------------------------------------------------------------------

Older(a) == IF a < AgeCap THEN a + 1 ELSE a

\* Time passes, but not beyond what the load lets a delay, a pass or a call
\* take.  Nothing bounds it once the supervisor is starved.
Tick ==
  /\ \/ Starved
     \/ /\ age < IF sup = "delay" THEN DelayMax ELSE PassMax
        /\ \A t \in Tasks : task[t] = "beat" => beat[t] < BeatMax
  /\ age' = Older(age)
  /\ seen' = [s \in Subsystems |-> Older(seen[s])]
  /\ called' = [s \in Subsystems |-> Older(called[s])]
  /\ beat' = [t \in Tasks |-> IF task[t] = "beat" THEN Older(beat[t]) ELSE 0]
  /\ UNCHANGED <<monitored, task, sup, cur, empty>>

Pass == PassStarts \/ Healthy \/ HasExpired \/ StopMonitoring \/ Kill

Next ==
  \/ \E t \in Tasks : BeatStarts(t) \/ Heartbeat(t) \/ Hang(t) \/ Loop(t) \/ Restart(t)
  \/ Pass
  \/ Tick

\* Time goes on.  The supervisor is scheduled unless it is starved, and so is
\* a task in a call.
Fairness ==
  /\ WF_vars(Tick)
  /\ WF_vars(Pass)
  /\ \A t \in Tasks : WF_vars(Heartbeat(t))

Spec == Init /\ [][Next]_vars
FairSpec == Spec /\ Fairness

-----------------------------------------------------------------------------
(* Properties                                                              *)

TypeOK ==
  /\ seen \in [Subsystems -> 0 .. AgeCap]
  /\ monitored \in [Subsystems -> BOOLEAN]
  /\ task \in [Tasks -> {"run", "beat", "hung", "loops", "dead"}]
  /\ beat \in [Tasks -> 0 .. AgeCap]
  /\ sup \in {"delay", "check", "clear", "kill"}
  /\ cur \in Subsystems
  /\ age \in 0 .. AgeCap
  /\ called \in [Subsystems -> 0 .. AgeCap]
  /\ empty \in [Subsystems -> Nat]

(* A subsystem that is about to be killed has let HEARTBEAT_TIMEOUT_MS      *)
(* pass without a sys_heartbeat, up to the duration of one call, although   *)
(* now_ms, is_monitored and last_seen_ms are read at three different times; *)
(* or a sys_heartbeat of it has returned during this very pass, which comes *)
(* too late, or makes now_ms - last_seen_ms wrap: then the code does kill a *)
(* subsystem that has just reported.                                        *)
SilentBeforeKill ==
  sup = "kill" => called[cur] + BeatMax > Timeout \/ called[cur] <= age

(* The code switches monitoring off so as not to go on killing (kernel.c:   *)
(* 113).  A heartbeat between that and the kill switches it on again, and   *)
(* the subsystem that has just lost its tasks is killed a second time: but  *)
(* never a third, until it has tasks again.                                 *)
NoKillSpam == \A s \in Subsystems : empty[s] <= 1

(* A monitored subsystem with tasks is never silent for longer than the     *)
(* timeout, one delay and two passes: by then it has been killed, unless a  *)
(* looping task keeps the supervisor out.                                   *)
HungKilledInTime ==
  Starved \/ \A s \in Subsystems : monitored[s] /\ Alive(s) => seen[s] <= HungBound

(* A subsystem that has reported once and whose tasks all hang is killed,   *)
(* or the supervisor starves.                                               *)
HungIsKilled ==
  \A s \in Subsystems :
    (monitored[s] /\ \A t \in Tasks : SubsysOf[t] = s => task[t] = "hung")
      ~> (~Alive(s) \/ Starved)
=============================================================================
