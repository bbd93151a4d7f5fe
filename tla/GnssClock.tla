------------------------------ MODULE GnssClock ------------------------------
(***************************************************************************)
(* The time that src/src/drivers/atgm336h.c derives from two sources: the  *)
(* sentences, which name the second but come late in it, and the pulse on  *)
(* the PPS pin, which marks the second but does not name it.               *)
(*                                                                         *)
(* Time is discrete, Sec units to the second.  Every instant the driver    *)
(* keeps is modelled by its age, and unix_epoch by how many seconds it is  *)
(* behind the true second.  The receiver is external: at each second it    *)
(* gives a pulse or misses it, and then sends, between First and Latest    *)
(* units into the second, sentences of which any may be lost; RMC and ZDA  *)
(* (TimeSentence) carry time and date, the others only time or none.       *)
(*                                                                         *)
(* The callers are a task that waits for the pulse and reads the time, as  *)
(* gps_manager_task does, or reads it at any other moment.  It may be      *)
(* preempted between the accesses of a call, for Delay units in all.       *)
(*                                                                         *)
(* The local oscillator is exact, so drift_ppm is zero and corr_us too.    *)
(***************************************************************************)
EXTENDS Integers

CONSTANTS
  Sec,          \* units in a second
  MinPeriod,    \* 950000 us
  MaxPeriod,    \* 1050000 us
  Threshold,    \* 150000 us
  Timeout,      \* ATGM_PPS_TIMEOUT_US
  First,        \* earliest phase of a sentence
  Latest,       \* latest phase of a sentence
  Delay,        \* longest duration of a call
  MaxSilence,   \* bound: longest time without a sentence
  MaxLag        \* bound: seconds without a sentence that has the date

ASSUME ClockAssumption ==
  /\ {Sec, MinPeriod, MaxPeriod, Threshold, Timeout} \subseteq Nat \ {0}
  /\ {First, Latest, Delay, MaxSilence, MaxLag} \subseteq Nat
  /\ MinPeriod < Sec /\ Sec < MaxPeriod /\ MaxPeriod <= Timeout
  /\ First <= Latest /\ Latest + Threshold < Sec /\ Latest + Delay < Sec
  /\ Latest <= MaxSilence

VARIABLES
  phase,    \* units since the true second began
  pulse,    \* age of last_pps_us
  locked,   \* __pps_state.locked
  nmea,     \* age of last_update_us
  epoch,    \* seconds unix_epoch is behind, or Unset
  burst,    \* history: this second's sentences: "none", "some" or "time"
  sem,      \* __pps_sem
  pc,       \* the caller: "idle", "waits", "now" or "pps"
  newer,    \* history: a pulse came since the caller began to wait
  nav,      \* base_sec and nmea_us of the call, as epoch and nmea
  at,       \* age of now_us
  held,     \* age of the call
  clean,    \* history: the call found both sources complete
  ontime    \* history: no pulse is missing, before the call or in it

receiver == <<phase, burst>>
driver == <<pulse, locked, nmea, epoch, sem>>
call == <<nav, at, held, clean, ontime>>
vars == <<receiver, driver, pc, newer, call>>

Unset == -1
NoNav == [epoch |-> 0, nmea |-> 0]
PulseCap == Timeout + Delay + 1

-----------------------------------------------------------------------------

\* What a reset leaves: no pulse and no sentence yet.
Init ==
  /\ phase = 0 /\ burst = "none"
  /\ pulse = PulseCap /\ locked = FALSE /\ nmea = 0 /\ epoch = Unset
  /\ sem = FALSE /\ pc = "idle" /\ newer = FALSE
  /\ nav = NoNav /\ at = 0 /\ held = 0
  /\ clean = FALSE /\ ontime = FALSE

-----------------------------------------------------------------------------
(* Time                                                                    *)

Calling == pc \in {"now", "pps"}
Later(age) == IF age < PulseCap THEN age + 1 ELSE PulseCap

\* One unit passes; s seconds begin.
Passes(s) ==
  /\ Calling => held < Delay
  /\ nmea' = nmea + 1
  /\ epoch' = IF epoch = Unset THEN Unset ELSE epoch + s
  /\ nav' = IF Calling THEN [epoch |-> nav.epoch + s, nmea |-> nav.nmea + 1] ELSE nav
  /\ at' = IF pc = "pps" THEN at + 1 ELSE at
  /\ held' = IF Calling THEN held + 1 ELSE held
  /\ UNCHANGED pc

Tick ==
  /\ phase < Sec - 1
  /\ phase = Latest => nmea + Sec <= MaxSilence /\ epoch < MaxLag
  /\ Passes(0)
  /\ phase' = phase + 1
  /\ pulse' = Later(pulse)
  /\ UNCHANGED <<burst, locked, sem, newer, clean, ontime>>

\* Two pulses that are a second apart.
InPeriod(delta) == delta > MinPeriod /\ delta < MaxPeriod

\* A second begins: atgm_pps_isr.
Pulse ==
  /\ phase = Sec - 1
  /\ Passes(1)
  /\ phase' = 0 /\ burst' = "none"
  /\ locked' = (locked \/ InPeriod(Later(pulse)))
  /\ pulse' = 0
  /\ sem' = TRUE /\ newer' = (pc = "waits")
  /\ UNCHANGED <<clean, ontime>>

\* A second begins without a pulse: no fix, or no antenna.
NoPulse ==
  /\ phase = Sec - 1
  /\ Passes(1)
  /\ phase' = 0 /\ burst' = "none"
  /\ pulse' = Later(pulse)
  /\ ontime' = FALSE
  /\ clean' = FALSE
  /\ UNCHANGED <<locked, sem, newer>>

-----------------------------------------------------------------------------
(* atgm_parse_line, in atgm_rx_task                                        *)

Sending == phase \in First .. Latest

\* parse_rmc, parse_zda.
TimeSentence ==
  /\ Sending /\ burst # "time"
  /\ nmea' = 0
  /\ epoch' = 0
  /\ burst' = "time"
  /\ UNCHANGED <<phase, pulse, locked, sem, pc, newer, call>>

\* Any other: last_update_us is set before the type is looked at.
OtherSentence ==
  /\ Sending
  /\ nmea' = 0
  /\ burst' = IF burst = "none" THEN "some" ELSE burst
  /\ UNCHANGED <<phase, epoch, pulse, locked, sem, pc, newer, call>>

-----------------------------------------------------------------------------
(* atgm_wait_pps                                                           *)

\* Mutant: the pulse of before the call is not taken first.
WaitPpsAtOnce ==
  /\ pc = "idle"
  /\ newer' = FALSE
  /\ pc' = "waits"
  /\ UNCHANGED <<receiver, driver, call>>

WaitPps ==
  /\ pc = "idle"
  /\ sem' = FALSE
  /\ newer' = FALSE
  /\ pc' = "waits"
  /\ UNCHANGED <<receiver, pulse, locked, nmea, epoch, call>>

GetsEdge ==
  /\ pc = "waits" /\ sem
  /\ sem' = FALSE
  /\ newer' = FALSE
  /\ pc' = "idle"
  /\ UNCHANGED <<receiver, pulse, locked, nmea, epoch, call>>

WaitTimesOut ==
  /\ pc = "waits" /\ ~sem
  /\ pc' = "idle"
  /\ UNCHANGED <<receiver, driver, newer, call>>

\* atgm_get_pps
GetPps ==
  /\ pc = "idle"
  /\ pulse > Timeout
  /\ locked' = FALSE
  /\ UNCHANGED <<receiver, pulse, nmea, epoch, sem, pc, newer, call>>

-----------------------------------------------------------------------------
(* atgm_get_synced_unix_us                                                 *)

\* Every sentence so far was received, and every pulse.
Complete ==
  /\ pulse = phase /\ locked
  /\ \/ burst = "time" /\ epoch = 0
     \/ burst = "none" /\ epoch = 1 /\ phase <= Latest

\* Mutant: base_sec == 0 is not refused.
ReadNavUnset ==
  /\ pc = "idle"
  /\ nav' = [epoch |-> epoch, nmea |-> nmea]
  /\ held' = 0 /\ at' = 0
  /\ clean' = Complete /\ ontime' = (pulse = phase)
  /\ pc' = "now"
  /\ UNCHANGED <<receiver, driver, newer>>

\* Under the mutex; the call returns false if there is no epoch yet.
ReadNav ==
  /\ pc = "idle"
  /\ epoch # Unset
  /\ nav' = [epoch |-> epoch, nmea |-> nmea]
  /\ held' = 0 /\ at' = 0
  /\ clean' = Complete /\ ontime' = (pulse = phase)
  /\ pc' = "now"
  /\ UNCHANGED <<receiver, driver, newer>>

\* now_us = esp_timer_get_time()
ReadNow ==
  /\ pc = "now"
  /\ pc' = "pps"
  /\ UNCHANGED <<receiver, driver, newer, call>>

\* Mutant: a pulse of any age is used.
PpsOkAnyAge == locked

PpsOk == locked /\ pulse - at <= Timeout

\* Mutant: the second the sentences named is taken for that of the pulse.
NextSecondNever == FALSE
\* Mutant: it is always taken for the second before.
NextSecondAlways == TRUE

\* The pulse began the second after the one the sentences named.
NextSecond == nav.nmea > pulse /\ nav.nmea - pulse > Threshold

\* The value returned, from the beginning of the true second.
Synced ==
  IF PpsOk
  THEN Sec * ((IF NextSecond THEN 1 ELSE 0) - nav.epoch) + pulse - at
  ELSE nav.nmea - at - Sec * nav.epoch

\* The pulse's state is read under its spinlock; Synced is returned.
ReadPps ==
  /\ pc = "pps"
  /\ pc' = "idle"
  /\ nav' = NoNav /\ at' = 0 /\ held' = 0
  /\ clean' = FALSE /\ ontime' = FALSE
  /\ UNCHANGED <<receiver, driver, newer>>

-----------------------------------------------------------------------------

Next ==
  \/ Tick \/ Pulse \/ NoPulse
  \/ TimeSentence \/ OtherSentence
  \/ WaitPps \/ GetsEdge \/ WaitTimesOut \/ GetPps
  \/ ReadNav \/ ReadNow \/ ReadPps

Spec == Init /\ [][Next]_vars

-----------------------------------------------------------------------------
(* Properties                                                              *)

TypeOK ==
  /\ phase \in 0 .. Sec - 1 /\ burst \in {"none", "some", "time"}
  /\ pulse \in 0 .. PulseCap /\ nmea \in 0 .. MaxSilence
  /\ epoch \in Unset .. MaxLag
  /\ nav \in [epoch : 0 .. MaxLag, nmea : 0 .. MaxSilence + Delay]
  /\ at \in 0 .. Delay /\ held \in 0 .. Delay
  /\ pc \in {"idle", "waits", "now", "pps"}
  /\ locked \in BOOLEAN /\ sem \in BOOLEAN /\ newer \in BOOLEAN
  /\ clean \in BOOLEAN /\ ontime \in BOOLEAN

\* ReadPps may be taken in these states: what it returns now is Synced.
Returns == pc = "pps"
\* That, minus the true time at now_us.
Error == Synced - (phase - at)

(* Unless it falls between the first sentence of a second and the one with   *)
(* the date, a call that finds sentences and pulses complete returns the     *)
(* true time, wherever a pulse or a sentence interrupts it.                  *)
Accurate == Returns /\ clean => Error = 0

(* The time is never ahead of UTC while no pulse is missing, whichever       *)
(* sentences are lost: a node does not transmit before its slot.             *)
NeverAhead == Returns /\ ontime => Error <= 0

(* With a second's number at most a second old the time is wrong by at most  *)
(* a second and the age of the sentences, whatever became of the pulses: an  *)
(* old pulse is not used.                                                    *)
Bounded == Returns /\ nav.epoch <= 1 => Error \in - (Sec + Latest) .. Sec

(* The edge that atgm_wait_pps returns came after it was called, never one   *)
(* that had been waiting in the semaphore.                                   *)
FreshEdge == [][GetsEdge => newer]_vars

(* What atgm336h.c:792 calls global Unix time is within a second's fraction  *)
(* of it as long as pulses come and each second's date is received.          *)
WithinSecond ==
  Returns /\ ontime /\ locked /\ nav.epoch <= 1 /\ epoch <= 1 => Error > -Sec /\ Error < Sec
=============================================================================
