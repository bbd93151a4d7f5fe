-------------------------- MODULE SupervisorProofs --------------------------
(***************************************************************************)
(* For any number of tasks and subsystems, any of the tasks above the      *)
(* supervisor, and any timeout, period and load:                           *)
(*   - a monitored subsystem that falls silent is killed within            *)
(*     HungBound, unless a looping task starves the supervisor;            *)
(*   - what is killed has been silent, or has reported during the pass;    *)
(*   - a subsystem without tasks is killed once more at most.              *)
(***************************************************************************)
EXTENDS Supervisor, TLAPS

\* Time slept and time spent in a pass are bounded by the load.
AgeOK == /\ sup = "delay" => age <= DelayMax
         /\ sup # "delay" => age <= PassMax

\* How old the heartbeat of a monitored subsystem can be: before it is checked
\* in this pass, after it was found healthy, and while the supervisor sleeps.
Timely(s) ==
  monitored[s] =>
    /\ sup = "delay" => seen[s] <= Timeout + PassMax + age
    /\ sup # "delay" => seen[s] <= Timeout + PassMax + DelayMax + age
    /\ sup # "delay" /\ s < cur => seen[s] <= Timeout + age
    /\ sup = "kill" /\ s = cur => seen[s] <= Timeout + age

BeatOK == \A t \in Tasks : beat[t] <= BeatMax

HangInv == AgeOK /\ BeatOK /\ \A s \in Subsystems : Timely(s)

\* A heartbeat is stored at most BeatMax after the clock was read, and is older
\* than now_ms unless the call that stored it returned in this pass.
FreshInv ==
  \A s \in Subsystems :
    /\ seen[s] <= called[s] + BeatMax
    /\ sup # "delay" => called[s] <= age \/ seen[s] >= age

\* The verdict on a subsystem stays right until the kill.
Verdict ==
  sup \in {"clear", "kill"} => called[cur] + BeatMax > Timeout \/ called[cur] <= age

SilenceInv == Verdict /\ (Starved \/ (AgeOK /\ BeatOK /\ FreshInv))

-----------------------------------------------------------------------------

LEMMA Constants ==
  /\ SubsysCount \in Nat /\ SubsysCount > 1 /\ Subsystems = 1 .. SubsysCount - 1
  /\ Timeout \in Nat /\ Period \in Nat /\ Period > 0 /\ PassMax \in Nat
  /\ DelayMax \in Nat /\ Period <= DelayMax /\ Above \subseteq Tasks
  /\ BeatMax \in Nat /\ BeatMax <= Timeout
  /\ AgeCap = Timeout + DelayMax + 2 * PassMax + 1
  /\ Wrap \in Nat /\ Wrap > AgeCap + Timeout + PassMax
  /\ SubsysOf \in [Tasks -> Subsystems]
BY SupervisorAssumption DEF AgeCap, HungBound, Subsystems

\* The unsigned subtraction: exact when now_ms is the later of the two
\* instants, beyond any timeout when it is the earlier one.
LEMMA ElapsedValue ==
  ASSUME TypeOK, AgeOK, sup # "delay", NEW s \in Subsystems
  PROVE  /\ age <= seen[s] => Elapsed(s) = seen[s] - age
         /\ age > seen[s] => Elapsed(s) > Timeout
<1>1. seen[s] \in 0 .. AgeCap /\ age \in Nat /\ age <= PassMax
  BY Constants DEF TypeOK, AgeOK
<1>2. seen[s] - age \in Int /\ seen[s] - age < Wrap /\ -Wrap <= seen[s] - age
  BY <1>1, Constants
<1>3. ASSUME NEW x \in Int, 0 <= x, x < Wrap PROVE x % Wrap = x
  BY <1>3, Constants
<1>4. ASSUME NEW x \in Int, -Wrap <= x, x < 0 PROVE x % Wrap = x + Wrap
  BY <1>4, Constants
<1>5. CASE age <= seen[s]
  BY <1>1, <1>2, <1>3, <1>5 DEF Elapsed
<1>6. CASE age > seen[s]
  BY <1>1, <1>2, <1>4, <1>6, Constants DEF Elapsed
<1> QED BY <1>1, <1>5, <1>6, Constants

LEMMA TypeInit == Init => TypeOK
BY Constants DEF Init, TypeOK

LEMMA OlderType ==
  \A a \in 0 .. AgeCap : Older(a) \in 0 .. AgeCap /\ Older(a) <= a + 1 /\ a <= Older(a)
BY Constants DEF Older

LEMMA TypeStep == TypeOK /\ [Next]_vars => TypeOK'
<1> SUFFICES ASSUME TypeOK, [Next]_vars PROVE TypeOK'
  OBVIOUS
<1> USE Constants
<1>0. CASE UNCHANGED vars
  BY <1>0 DEF vars, TypeOK
<1>1. ASSUME NEW t \in Tasks, BeatStarts(t) \/ Hang(t) \/ Loop(t) \/ Restart(t)
      PROVE  TypeOK'
  <2>1. /\ task' \in [Tasks -> {"run", "beat", "hung", "loops", "dead"}]
        /\ beat' \in [Tasks -> 0 .. AgeCap]
    <3>1. CASE BeatStarts(t)
      BY <3>1 DEF BeatStarts, TypeOK
    <3>2. CASE Hang(t) \/ Loop(t) \/ Restart(t)
      BY <3>2 DEF Hang, Loop, Restart, TypeOK
    <3> QED BY <1>1, <3>1, <3>2
  <2>2. UNCHANGED <<seen, monitored, sup, cur, age, called, empty>>
    BY <1>1 DEF BeatStarts, Hang, Loop, Restart
  <2> QED BY <2>1, <2>2 DEF TypeOK
<1>2. ASSUME NEW t \in Tasks, Heartbeat(t)
      PROVE  TypeOK'
  BY <1>2 DEF Heartbeat, TypeOK
<1>3. CASE PassStarts
  <2>1. 1 \in Subsystems /\ 0 \in 0 .. AgeCap
    OBVIOUS
  <2> QED BY <1>3, <2>1 DEF PassStarts, TypeOK
<1>4. ASSUME NextSubsystem
      PROVE  sup' \in {"delay", "check"} /\ cur' \in Subsystems /\ age' \in 0 .. AgeCap
  BY <1>4 DEF NextSubsystem, TypeOK
<1>5. CASE Healthy
  BY <1>4, <1>5 DEF Healthy, TypeOK
<1>6. CASE HasExpired \/ StopMonitoring
  BY <1>6 DEF HasExpired, StopMonitoring, TypeOK
<1>7. CASE Kill
  <2>1. NextSubsystem /\ UNCHANGED <<seen, monitored, called>>
    BY <1>7 DEF Kill
  <2>2. beat' \in [Tasks -> 0 .. AgeCap]
    BY <1>7 DEF Kill, TypeOK
  <2>3. task' \in [Tasks -> {"run", "beat", "hung", "loops", "dead"}]
    BY <1>7 DEF Kill, TypeOK
  <2>4. empty' \in [Subsystems -> Nat]
    BY <1>7 DEF Kill, TypeOK
  <2> QED BY <1>4, <2>1, <2>2, <2>3, <2>4 DEF TypeOK
<1>8. CASE Tick
  <2>1. ASSUME NEW t \in Tasks
        PROVE  (IF task[t] = "beat" THEN Older(beat[t]) ELSE 0) \in 0 .. AgeCap
    <3>1. beat[t] \in 0 .. AgeCap
      BY DEF TypeOK
    <3>2. Older(beat[t]) \in 0 .. AgeCap
      BY <3>1, OlderType, Zenon
    <3>3. 0 \in 0 .. AgeCap
      OBVIOUS
    <3> QED BY <3>2, <3>3
  <2> QED BY <1>8, <2>1, OlderType DEF Tick, TypeOK
<1> QED BY <1>0, <1>1, <1>2, <1>3, <1>5, <1>6, <1>7, <1>8 DEF Next, Pass

LEMMA Typed == Spec => []TypeOK
BY TypeInit, TypeStep, PTL DEF Spec

(* Every age, index and flag of the watchdog stays in range.                *)
THEOREM TypeCorrect == Spec => []TypeOK
BY Typed

\* A looping task above the supervisor is there to stay.
LEMMA StarvedForGood == TypeOK /\ [Next]_vars /\ Starved => Starved'
<1> SUFFICES ASSUME TypeOK, [Next]_vars, NEW u \in Above, task[u] = "loops"
             PROVE  task'[u] = "loops"
  BY DEF Starved
<1>1. u \in Tasks /\ Starved
  BY Constants DEF Starved
<1>2. ASSUME NEW t \in Tasks,
             BeatStarts(t) \/ Heartbeat(t) \/ Hang(t) \/ Loop(t) \/ Restart(t)
      PROVE  task'[u] = "loops"
  BY <1>1, <1>2 DEF BeatStarts, Heartbeat, Hang, Loop, Restart, TypeOK
<1>3. CASE Pass
  BY <1>1, <1>3 DEF Pass, PassStarts, Healthy, HasExpired, StopMonitoring, Kill
<1>4. CASE Tick \/ UNCHANGED vars
  BY <1>4 DEF Tick, vars
<1> QED BY <1>2, <1>3, <1>4 DEF Next

LEMMA LoadStep ==
  ASSUME TypeOK, AgeOK, BeatOK, ~Starved, [Next]_vars
  PROVE  AgeOK' /\ BeatOK'
<1> USE Constants
<1>0. CASE UNCHANGED vars
  BY <1>0 DEF vars, AgeOK, BeatOK
<1>1. ASSUME NEW t \in Tasks,
             BeatStarts(t) \/ Heartbeat(t) \/ Hang(t) \/ Loop(t) \/ Restart(t)
      PROVE  AgeOK' /\ BeatOK'
  <2>1. UNCHANGED <<sup, age>>
    BY <1>1 DEF BeatStarts, Heartbeat, Hang, Loop, Restart
  <2>2. \A u \in Tasks : beat'[u] = beat[u] \/ beat'[u] = 0
    BY <1>1 DEF BeatStarts, Heartbeat, Hang, Loop, Restart, TypeOK
  <2> QED BY <2>1, <2>2 DEF AgeOK, BeatOK
<1>2. CASE PassStarts
  BY <1>2 DEF PassStarts, AgeOK, BeatOK
<1>3. ASSUME NextSubsystem, sup # "delay"
      PROVE  AgeOK'
  BY <1>3 DEF NextSubsystem, AgeOK
<1>4. CASE Healthy
  BY <1>3, <1>4 DEF Healthy, BeatOK
<1>5. CASE HasExpired \/ StopMonitoring
  BY <1>5 DEF HasExpired, StopMonitoring, AgeOK, BeatOK
<1>6. CASE Kill
  <2>1. AgeOK'
    BY <1>3, <1>6 DEF Kill
  <2>2. \A u \in Tasks : beat'[u] = beat[u] \/ beat'[u] = 0
    BY <1>6 DEF Kill
  <2> QED BY <2>1, <2>2 DEF BeatOK
<1>7. CASE Tick
  <2>1. age' = Older(age) /\ age \in 0 .. AgeCap /\ sup' = sup
        /\ age < (IF sup = "delay" THEN DelayMax ELSE PassMax)
    BY <1>7 DEF Tick, TypeOK
  <2>2. age' \in Int /\ age' <= age + 1
    BY <2>1, OlderType
  <2>3. AgeOK'
    BY <2>1, <2>2 DEF AgeOK
  <2>4. ASSUME NEW u \in Tasks PROVE beat'[u] <= BeatMax
    <3>1. CASE task[u] = "beat"
      <4>1. beat'[u] = Older(beat[u]) /\ beat[u] \in 0 .. AgeCap /\ beat[u] < BeatMax
        BY <1>7, <3>1 DEF Tick, TypeOK
      <4>2. Older(beat[u]) \in Int /\ Older(beat[u]) <= beat[u] + 1
        BY <4>1, OlderType
      <4> QED BY <4>1, <4>2
    <3>2. CASE task[u] # "beat"
      BY <1>7, <3>2 DEF Tick
    <3> QED BY <3>1, <3>2
  <2> QED BY <2>3, <2>4 DEF BeatOK
<1> QED BY <1>0, <1>1, <1>2, <1>4, <1>5, <1>6, <1>7 DEF Next, Pass

-----------------------------------------------------------------------------

LEMMA HangStep ==
  ASSUME TypeOK, HangInv, ~Starved, [Next]_vars
  PROVE  HangInv'
<1> SUFFICES ASSUME NEW s \in Subsystems PROVE Timely(s)'
  BY LoadStep DEF HangInv
<1> USE Constants DEF HangInv
<1>a. /\ Timely(s) /\ seen[s] \in 0 .. AgeCap /\ age \in Nat
      /\ cur \in 1 .. SubsysCount - 1 /\ s \in 1 .. SubsysCount - 1
  BY DEF TypeOK
<1>b. AgeOK
  OBVIOUS
<1>0. CASE UNCHANGED vars
  BY <1>0, <1>a DEF vars, Timely
<1>1. ASSUME NEW t \in Tasks, BeatStarts(t) \/ Hang(t) \/ Loop(t) \/ Restart(t)
      PROVE  Timely(s)'
  BY <1>1, <1>a DEF BeatStarts, Hang, Loop, Restart, Timely
<1>2. ASSUME NEW t \in Tasks, Heartbeat(t)
      PROVE  Timely(s)'
  <2>1. UNCHANGED <<sup, cur, age>>
    BY <1>2 DEF Heartbeat
  <2>2. CASE SubsysOf[t] = s
    <3>1. seen'[s] = beat[t] /\ beat[t] \in Nat /\ beat[t] <= BeatMax
      BY <1>2, <2>2 DEF Heartbeat, TypeOK, BeatOK
    <3>2. seen'[s] <= Timeout /\ seen'[s] \in Nat
      BY <3>1
    <3> QED BY <2>1, <3>2, <1>a DEF Timely
  <2>3. CASE SubsysOf[t] # s
    <3>1. seen'[s] = seen[s] /\ monitored'[s] = monitored[s]
      BY <1>2, <2>3 DEF Heartbeat, TypeOK
    <3> QED BY <2>1, <3>1, <1>a DEF Timely
  <2> QED BY <2>2, <2>3
<1>3. CASE PassStarts
  BY <1>3, <1>a, <1>b DEF PassStarts, AgeOK, Timely
<1>4. ASSUME sup # "delay", monitored[s] => s > cur \/ seen[s] <= Timeout + age,
             NextSubsystem, UNCHANGED <<seen, monitored>>
      PROVE  Timely(s)'
  <2>1. CASE s > cur
    BY <1>4, <1>a, <1>b, <2>1 DEF NextSubsystem, AgeOK, Timely
  <2>2. CASE s <= cur
    BY <1>4, <1>a, <1>b, <2>2 DEF NextSubsystem, AgeOK, Timely
  <2> QED BY <2>1, <2>2, <1>a
<1>5. CASE Healthy
  <2>1. s = cur /\ monitored[s] => Elapsed(s) <= Timeout
    <3>1. Elapsed(s) \in Int
      BY <1>a DEF Elapsed
    <3> QED BY <1>5, <3>1 DEF Healthy, Expired
  <2>2. s = cur /\ monitored[s] => seen[s] <= Timeout + age
    BY <1>5, <1>a, <2>1, ElapsedValue DEF Healthy
  <2>3. s < cur /\ monitored[s] => seen[s] <= Timeout + age
    BY <1>5, <1>a DEF Healthy, Timely
  <2> QED BY <1>4, <1>5, <1>a, <2>2, <2>3 DEF Healthy
<1>6. CASE HasExpired
  BY <1>6, <1>a, <1>b DEF HasExpired, AgeOK, Timely
<1>7. CASE StopMonitoring
  <2>1. s = cur => ~monitored'[s]
    BY <1>7 DEF StopMonitoring, TypeOK
  <2>2. s # cur => monitored'[s] = monitored[s]
    BY <1>7 DEF StopMonitoring, TypeOK
  <2> QED BY <1>7, <1>a, <2>1, <2>2 DEF StopMonitoring, Timely
<1>8. CASE Kill
  <2>1. s <= cur /\ monitored[s] => seen[s] <= Timeout + age
    BY <1>8, <1>a DEF Kill, Timely
  <2> QED BY <1>4, <1>8, <1>a, <2>1 DEF Kill
<1>9. CASE Tick
  <2>1. seen'[s] \in Nat /\ seen'[s] <= seen[s] + 1 /\ age' = age + 1
    <3>1. /\ seen'[s] = Older(seen[s]) /\ age' = Older(age)
          /\ age < IF sup = "delay" THEN DelayMax ELSE PassMax
      BY <1>9 DEF Tick
    <3>2. Older(seen[s]) \in Nat /\ Older(seen[s]) <= seen[s] + 1
      BY <1>a DEF Older
    <3>3. age < AgeCap
      BY <1>a, <3>1
    <3>4. age' = age + 1
      BY <3>1, <3>3 DEF Older
    <3> QED BY <3>1, <3>2, <3>4
  <2> QED BY <1>9, <1>a, <2>1 DEF Tick, Timely
<1> QED BY <1>0, <1>1, <1>2, <1>3, <1>5, <1>6, <1>7, <1>8, <1>9 DEF Next, Pass

Timeliness == TypeOK /\ (Starved \/ HangInv)

(* Although the supervisor and the tasks race for subsys_health, and        *)
(* whichever of the tasks are above the supervisor, a subsystem that has    *)
(* reported and falls silent has no task left HungBound after the heartbeat *)
(* last recorded; or the supervisor starves, and nothing is killed at all.  *)
THEOREM HungKilled == Spec => []HungKilledInTime
<1>1. Init => Timeliness
  <2>1. Init => HangInv
    BY Constants DEF Init, HangInv, AgeOK, BeatOK, Timely
  <2> QED BY <2>1, TypeInit DEF Timeliness
<1>2. Timeliness => HungKilledInTime
  <2> SUFFICES ASSUME TypeOK, HangInv, NEW s \in Subsystems, monitored[s]
               PROVE  seen[s] <= HungBound
    BY DEF HungKilledInTime, Timeliness
  <2>1. seen[s] \in Nat /\ age \in Nat /\ Timely(s)
    BY Constants DEF HangInv, TypeOK
  <2> QED BY <2>1, Constants DEF HangInv, AgeOK, Timely, HungBound
<1>3. Timeliness /\ [Next]_vars => Timeliness'
  <2> SUFFICES ASSUME Timeliness, [Next]_vars PROVE Timeliness'
    OBVIOUS
  <2>1. TypeOK'
    BY TypeStep DEF Timeliness
  <2>2. CASE Starved
    BY <2>1, <2>2, StarvedForGood DEF Timeliness
  <2>3. CASE ~Starved
    BY <2>1, <2>3, HangStep DEF Timeliness
  <2> QED BY <2>2, <2>3
<1> QED BY <1>1, <1>2, <1>3, PTL DEF Spec

-----------------------------------------------------------------------------

LEMMA FreshStep ==
  ASSUME TypeOK, AgeOK, BeatOK, FreshInv, ~Starved, [Next]_vars
  PROVE  FreshInv'
<1> USE Constants
<1>0. CASE UNCHANGED vars
  BY <1>0 DEF vars, FreshInv
<1>1. ASSUME NEW t \in Tasks, BeatStarts(t) \/ Hang(t) \/ Loop(t) \/ Restart(t)
      PROVE  FreshInv'
  BY <1>1 DEF BeatStarts, Hang, Loop, Restart, FreshInv
<1>2. ASSUME NEW t \in Tasks, Heartbeat(t)
      PROVE  FreshInv'
  <2> SUFFICES ASSUME NEW s \in Subsystems
               PROVE  /\ seen'[s] <= called'[s] + BeatMax
                      /\ sup' # "delay" => called'[s] <= age' \/ seen'[s] >= age'
    BY DEF FreshInv
  <2>1. age \in Nat /\ UNCHANGED <<sup, age>> /\ beat[t] <= BeatMax
    BY <1>2 DEF Heartbeat, TypeOK, BeatOK
  <2>2. CASE SubsysOf[t] = s
    <3>1. seen'[s] = beat[t] /\ called'[s] = 0 /\ beat[t] \in Nat
      BY <1>2, <2>2 DEF Heartbeat, TypeOK
    <3> QED BY <2>1, <3>1
  <2>3. CASE SubsysOf[t] # s
    BY <1>2, <2>1, <2>3 DEF Heartbeat, TypeOK, FreshInv
  <2> QED BY <2>2, <2>3
<1>3. CASE PassStarts
  BY <1>3 DEF PassStarts, FreshInv, TypeOK
<1>4. CASE Healthy \/ Kill
  BY <1>4 DEF Healthy, Kill, NextSubsystem, FreshInv
<1>5. CASE HasExpired \/ StopMonitoring
  BY <1>5 DEF HasExpired, StopMonitoring, FreshInv
<1>6. CASE Tick
  <2> SUFFICES ASSUME NEW s \in Subsystems
               PROVE  /\ seen'[s] <= called'[s] + BeatMax
                      /\ sup' # "delay" => called'[s] <= age' \/ seen'[s] >= age'
    BY DEF FreshInv
  <2>1. /\ seen'[s] = Older(seen[s]) /\ called'[s] = Older(called[s])
        /\ seen[s] \in 0 .. AgeCap /\ called[s] \in 0 .. AgeCap
        /\ age \in 0 .. AgeCap /\ age' = Older(age) /\ sup' = sup
    BY <1>6 DEF Tick, TypeOK
  <2>2. /\ seen[s] <= called[s] + BeatMax
        /\ sup # "delay" => called[s] <= age \/ seen[s] >= age
    BY DEF FreshInv
  <2>3. seen'[s] <= called'[s] + BeatMax
    BY <2>1, <2>2 DEF Older
  <2>4. CASE called[s] <= age
    <3>1. called'[s] <= age'
      BY <2>1, <2>4 DEF Older
    <3> QED BY <2>3, <3>1
  <2>5. CASE seen[s] >= age
    <3>1. seen'[s] >= age'
      BY <2>1, <2>5 DEF Older
    <3> QED BY <2>3, <3>1
  <2> QED BY <2>1, <2>2, <2>3, <2>4, <2>5
<1> QED BY <1>0, <1>1, <1>2, <1>3, <1>4, <1>5, <1>6 DEF Next, Pass

LEMMA VerdictStep ==
  ASSUME TypeOK, Verdict, Starved \/ (AgeOK /\ FreshInv), [Next]_vars
  PROVE  Verdict'
<1> USE Constants
<1>0. CASE UNCHANGED vars
  BY <1>0 DEF vars, Verdict
<1>1. ASSUME NEW t \in Tasks, BeatStarts(t) \/ Hang(t) \/ Loop(t) \/ Restart(t)
      PROVE  Verdict'
  BY <1>1 DEF BeatStarts, Hang, Loop, Restart, Verdict
<1>2. ASSUME NEW t \in Tasks, Heartbeat(t)
      PROVE  Verdict'
  <2>1. UNCHANGED <<sup, cur, age>> /\ age \in Nat /\ cur \in Subsystems
    BY <1>2 DEF Heartbeat, TypeOK
  <2>2. called'[cur] = called[cur] \/ called'[cur] = 0
    BY <1>2, <2>1 DEF Heartbeat, TypeOK
  <2> QED BY <2>1, <2>2 DEF Verdict
<1>3. CASE PassStarts \/ Healthy \/ Kill
  <2>1. sup' \notin {"clear", "kill"}
    BY <1>3 DEF PassStarts, Healthy, Kill, NextSubsystem
  <2> QED BY <2>1 DEF Verdict
<1>4. CASE HasExpired
  <2>1. /\ ~Starved /\ cur \in Subsystems /\ seen[cur] \in Nat /\ age \in Nat
        /\ called[cur] \in Nat /\ UNCHANGED <<called, cur, age>>
    BY <1>4 DEF HasExpired, TypeOK
  <2>2. AgeOK /\ seen[cur] <= called[cur] + BeatMax
        /\ (called[cur] <= age \/ seen[cur] >= age)
    BY <1>4, <2>1 DEF HasExpired, FreshInv
  <2>3. CASE called[cur] <= age
    BY <2>1, <2>3 DEF Verdict
  <2>4. CASE seen[cur] >= age
    <3>1. Elapsed(cur) = seen[cur] - age
      BY <1>4, <2>1, <2>2, <2>4, ElapsedValue DEF HasExpired
    <3>2. seen[cur] > Timeout
      BY <1>4, <2>1, <3>1 DEF HasExpired, Expired
    <3>3. called[cur] + BeatMax > Timeout
      BY <2>1, <2>2, <3>2
    <3> QED BY <2>1, <3>3 DEF Verdict
  <2> QED BY <2>2, <2>3, <2>4
<1>5. CASE StopMonitoring
  BY <1>5 DEF StopMonitoring, Verdict
<1>6. CASE Tick
  <2>1. /\ called'[cur] = Older(called[cur]) /\ called[cur] \in 0 .. AgeCap
        /\ age \in 0 .. AgeCap /\ age' = Older(age) /\ UNCHANGED <<sup, cur>>
    BY <1>6 DEF Tick, TypeOK
  <2> QED BY <2>1 DEF Verdict, Older
<1> QED BY <1>0, <1>1, <1>2, <1>3, <1>4, <1>5, <1>6 DEF Next, Pass

Silence == TypeOK /\ SilenceInv

(* With no assumption on the priorities, a subsystem that is killed has let *)
(* the timeout pass, but for the duration of one call; or one of its calls  *)
(* of sys_heartbeat returned after the pass had begun.                      *)
THEOREM OnlySilentKilled == Spec => []SilentBeforeKill
<1>1. Init => Silence
  <2>1. Init => AgeOK /\ BeatOK /\ FreshInv /\ Verdict
    BY Constants DEF Init, AgeOK, BeatOK, FreshInv, Verdict
  <2> QED BY <2>1, TypeInit DEF Silence, SilenceInv
<1>2. Silence => SilentBeforeKill
  BY DEF Silence, SilenceInv, Verdict, SilentBeforeKill
<1>3. Silence /\ [Next]_vars => Silence'
  <2> SUFFICES ASSUME Silence, [Next]_vars PROVE Silence'
    OBVIOUS
  <2>1. TypeOK'
    BY TypeStep DEF Silence
  <2>2. Verdict'
    BY VerdictStep DEF Silence, SilenceInv
  <2>3. CASE Starved
    BY <2>1, <2>2, <2>3, StarvedForGood DEF Silence, SilenceInv
  <2>4. CASE ~Starved
    <3>1. AgeOK' /\ BeatOK'
      BY <2>4, LoadStep DEF Silence, SilenceInv
    <3>2. FreshInv'
      BY <2>4, FreshStep DEF Silence, SilenceInv
    <3> QED BY <2>1, <2>2, <3>1, <3>2 DEF Silence, SilenceInv
  <2> QED BY <2>3, <2>4
<1> QED BY <1>1, <1>2, <1>3, PTL DEF Spec

-----------------------------------------------------------------------------

\* A subsystem without tasks cannot report: it is monitored only if a heartbeat
\* came between the last StopMonitoring and the kill, and is not monitored any
\* more when it has been killed for that.
OnceInv ==
  /\ \A s \in Subsystems : /\ empty[s] <= 1
                           /\ ~Alive(s) /\ monitored[s] => empty[s] = 0
  /\ sup \in {"clear", "kill"} /\ ~Alive(cur) => empty[cur] = 0
  /\ sup = "kill" /\ ~Alive(cur) => ~monitored[cur]

LEMMA OnceStep == TypeOK /\ OnceInv /\ [Next]_vars => OnceInv'
<1> SUFFICES ASSUME TypeOK, OnceInv, [Next]_vars PROVE OnceInv'
  OBVIOUS
<1> USE Constants
<1>0. CASE UNCHANGED vars
  BY <1>0 DEF vars, OnceInv, Alive
<1>1. ASSUME NEW t \in Tasks, BeatStarts(t) \/ Hang(t) \/ Loop(t) \/ Restart(t)
      PROVE  OnceInv'
  <2>1. \A u \in Tasks : task[u] # "dead" => task'[u] # "dead"
    BY <1>1 DEF BeatStarts, Hang, Loop, Restart, TypeOK
  <2>2. \A s \in Subsystems : Alive(s) => Alive(s)'
    BY <2>1 DEF Alive
  <2>3. UNCHANGED <<monitored, sup, cur, empty>> /\ cur \in Subsystems
    BY <1>1 DEF BeatStarts, Hang, Loop, Restart, TypeOK
  <2>4. Alive(cur) => Alive(cur)'
    BY <2>2, <2>3
  <2> QED BY <2>2, <2>3, <2>4 DEF OnceInv
<1>2. ASSUME NEW t \in Tasks, Heartbeat(t)
      PROVE  OnceInv'
  <2>1. \A s \in Subsystems : Alive(s)' <=> Alive(s)
    BY <1>2 DEF Heartbeat, TypeOK, Alive
  <2>2. Alive(SubsysOf[t])
    BY <1>2 DEF Heartbeat, Alive
  <2>3. /\ UNCHANGED <<sup, cur, empty>> /\ cur \in Subsystems
        /\ \A s \in Subsystems \ {SubsysOf[t]} : monitored'[s] = monitored[s]
    BY <1>2 DEF Heartbeat, TypeOK
  <2>4. Alive(cur)' <=> Alive(cur)
    BY <2>1, <2>3
  <2> QED BY <2>1, <2>2, <2>3, <2>4 DEF OnceInv
<1>3. CASE PassStarts \/ Healthy
  <2>1. sup' \notin {"clear", "kill"} /\ UNCHANGED <<monitored, task, empty>>
    BY <1>3 DEF PassStarts, Healthy, NextSubsystem
  <2>2. \A s \in Subsystems : Alive(s)' <=> Alive(s)
    BY <2>1 DEF Alive
  <2> QED BY <2>1, <2>2 DEF OnceInv
<1>4. CASE HasExpired
  <2>1. /\ sup' = "clear" /\ UNCHANGED <<monitored, task, cur, empty>>
        /\ monitored[cur] /\ cur \in Subsystems
        /\ ~Alive(cur) => empty[cur] = 0
    BY <1>4 DEF HasExpired, Expired, TypeOK, OnceInv
  <2>2. /\ \A s \in Subsystems : Alive(s)' <=> Alive(s)
        /\ Alive(cur)' <=> Alive(cur)
    BY <2>1 DEF Alive
  <2> QED BY <2>1, <2>2 DEF OnceInv
<1>5. CASE StopMonitoring
  <2>1. /\ sup = "clear" /\ UNCHANGED <<task, cur, empty>> /\ cur \in Subsystems
        /\ ~monitored'[cur]
        /\ \A s \in Subsystems \ {cur} : monitored'[s] = monitored[s]
    BY <1>5 DEF StopMonitoring, TypeOK
  <2>2. /\ \A s \in Subsystems : Alive(s)' <=> Alive(s)
        /\ Alive(cur)' <=> Alive(cur)
    BY <2>1 DEF Alive
  <2> QED BY <2>1, <2>2 DEF OnceInv
<1>6. CASE Kill
  <2>1. /\ sup = "kill" /\ sup' \notin {"clear", "kill"} /\ monitored' = monitored
        /\ cur \in Subsystems
    BY <1>6 DEF Kill, NextSubsystem, TypeOK
  <2>2. /\ empty'[cur] = IF Alive(cur) THEN 0 ELSE empty[cur] + 1
        /\ \A s \in Subsystems \ {cur} : empty'[s] = empty[s]
    BY <1>6, <2>1 DEF Kill, TypeOK
  <2>3. \A s \in Subsystems \ {cur} : Alive(s)' <=> Alive(s)
    BY <1>6 DEF Kill, Alive
  <2>4. empty'[cur] <= 1 /\ (monitored[cur] => empty'[cur] = 0)
    BY <2>1, <2>2 DEF OnceInv
  <2> QED BY <2>1, <2>2, <2>3, <2>4 DEF OnceInv
<1>7. CASE Tick
  BY <1>7 DEF Tick, OnceInv, Alive
<1> QED BY <1>0, <1>1, <1>2, <1>3, <1>4, <1>5, <1>6, <1>7 DEF Next, Pass

(* Switching the monitoring off before the kill keeps the supervisor from    *)
(* killing again and again a subsystem that has no task, although a          *)
(* heartbeat before the kill switches it back on.                            *)
THEOREM NotKilledOnAndOn == Spec => []NoKillSpam
<1>1. Init => OnceInv
  BY DEF Init, OnceInv
<1>2. OnceInv => NoKillSpam
  <2> SUFFICES ASSUME OnceInv, NEW s \in Subsystems PROVE empty[s] <= 1
    BY DEF NoKillSpam
  <2> QED BY DEF OnceInv
<1> QED BY <1>1, <1>2, OnceStep, Typed, PTL DEF Spec
=============================================================================
