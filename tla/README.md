# LoRaAutonomy in TLA+

Specifications, model-checking configurations and machine-checked proofs for
the firmware in `src/`: a FreeRTOS/ESP-IDF program for an autonomous LoRa node.
Line numbers refer to `src/src/` unless a path says otherwise.

## 1. The system

The build (`platformio.ini`, `sdkconfig.esp32-c6-devkitc-1`) is for a
single-core ESP32-C6 (`CONFIG_FREERTOS_UNICORE=y`), 100 Hz ticks, `-Og`. A
comment in `kernel.c:18` and the top-level README also mention SMP parts.

| component | state | operations | talks to |
|---|---|---|---|
| Task registry (`list.c`, `kernel.c:36-88`) | `list[]`, `num` | `task_add`, `task_delete`, `create_task`, `kill_task`, `kill_subsystem` | FreeRTOS, every caller, supervisor |
| Supervisor (`kernel.c:11-34,95-124`) | `subsys_health[]` | `sys_heartbeat`, the supervisor's pass | tasks (heartbeats), registry (kills) |
| Radio node (`tdma.c`, `sx127x.c`) | chip registers, notification bits, `s_current_slot`, slot timer | DIO0 interrupt, slot timer, event loop | chip over SPI, timer, air |
| TDMA network | the nodes' timers and slots, the channel | slots, packets, synchronisation with node 0 | nodes over the air |
| GNSS driver (`atgm336h.c`) | UART ring and event queue, line buffer, `__nav_data`, `__pps_state`, mutex, timer, speed of the line | receiving task, PPS interrupt, getters, `atgm_init`, `atgm_set_baudrate`, `atgm_close` | receiver over UART, callers |
| Fuel gauge (`bq27441_g1.c`) | the gauge's seal, mode, block memory | unseal/seal, configuration update, snapshots, init, sleep and wakeup | I2C |
| RTC (`ds3231.c`) | the clock's time, control and status registers | set/get time, alarm flags, sleep, wakeup, close | I2C |
| I2C port | the installed driver | install, transfer, delete | both I2C drivers |
| Display, DS18B20, demo tasks, start-up | none that outlives a call | drawing, 1-Wire, printing | |

What is hard in it: the registry is shared by tasks without a lock on the
adding and scanning side; the supervisor decides on values read at three
different times; the radio task shares the chip's registers with the chip
itself, wakes on an edge-triggered pin and takes timer and radio events
together; the network has to agree on slots with nothing but packets; the GNSS
driver joins two sources of time that come at different moments, and is set up
and taken down piece by piece while both go on; the I2C drivers make multi-step
changes on chips that outlive the microcontroller's power, over a port that
either driver may delete under the other.

What makes each component correct:

* registry: no task is lost, none is deleted twice, `kill_subsystem` stops its
  subsystem and no other, no write goes beyond the table, and the table's entries
  are what `num` says (which they are not);
* supervisor: only silent subsystems are killed, every silent one is, in
  bounded time, and not again and again;
* node: no lost wake-up, never deaf, back to reception after each
  transmission, every packet read once and with its own CRC verdict;
* network: synchronised nodes agree on the slots and never collide, every node
  gets synchronised;
* GNSS: only sentences that were sent are parsed, the time is not ahead of UTC
  and exact when nothing was lost, a copy of the data has a position of one fix
  and a Unix time of one second, module and UART have one speed, nothing is used after `atgm_close`
  deleted it;
* gauge: it is left sealed and out of configuration mode; what is committed is
  a complete block;
* RTC: what is read back is what was set, a time that is not reported lost is
  the one that was set, alarms are not written away.

## 2. Modules

| module | models | used by |
|---|---|---|
| `TaskLifecycle` | abstract: a task is created, registered or rejected, condemned, freed | `TaskRegistry` (as `Lifecycle`) |
| `TaskRegistry` | `list.c` and the calls of `kernel.c`, one step per unlocked access | `MCTaskRegistry`, `TaskRegistryProofs` |
| `MCTaskRegistry` | the callers and symmetry | runs `registry*` |
| `TaskRegistryProofs` | theorems about `TaskRegistry`, for any callers, for one creator, and for one creator and one killer | |
| `Supervisor` | heartbeats, the supervisor's pass and kill, time as ages | `MCSupervisor`, `SupervisorProofs` |
| `MCSupervisor` | which task reports for which subsystem | run `supervisor` |
| `SupervisorProofs` | theorems about `Supervisor` | |
| `TdmaNode` | the event loop of `tdma.c` with the driver, at register level | run `tdma_node`, `TdmaNodeProofs` |
| `TdmaNodeProofs` | theorems about `TdmaNode` | |
| `TdmaNetwork` | several nodes on one channel in discrete time | run `network`, `TdmaNetworkProofs` |
| `TdmaNetworkProofs` | theorems about `TdmaNetwork` | |
| `GnssReceiver` | `atgm_rx_task`, the UART driver's ring and event queue | run `gnss_receiver`, `GnssProofs` |
| `GnssClock` | sentences, pulses and `atgm_get_synced_unix_us` | runs `gnss_clock*`, `GnssProofs` |
| `GnssProofs` | theorems about `GnssReceiver` and `GnssClock` | |
| `NmeaData` | the sentence handlers and `utc_to_epoch`, as functions | `GnssDriver`, `GnssDriverProofs` |
| `GnssDriver` | start, speed, parsing under the mutex, copies, close and restart | `MCGnssDriver`, `GnssDriverProofs` |
| `MCGnssDriver` | the day and the configurations | run `gnss_driver` |
| `GnssDriverProofs` | theorems about `NmeaData`, for every number in a field, and `GnssDriver` | |
| `FuelGauge` | `bq_init`, snapshots, reset, sleep, wakeup and close on a bus that fails | run `fuel_gauge`, `FuelGaugeProofs` |
| `FuelGaugeProofs` | theorems about `FuelGauge` | |
| `Rtc` | the calls of `ds3231.c` by several tasks, transfer by transfer; the I2C port | `MCRtc`, `RtcProofs` |
| `MCRtc` | the times and the registers found at first | run `rtc` |
| `RtcProofs` | theorems about `Rtc` | |

### TaskRegistry

A caller (a task outside the table, such as `app_main` or the supervisor) has a
program counter `pc` and the locals of the call it is in. `CreateTask` is
`xTaskCreate`; `LoadNum`, `WriteHandle`, `WriteSubsys`, `StoreNum` are the four
accesses of `task_add`, which takes no lock: `num` is static and not volatile,
so the compiler loads it once. `TaskDelete` is the critical section of
`task_delete`, one step because interrupts are masked on the single core; it is
the first half of `KillTask` and of `ReapTarget`, `VTaskDelete` the second.
`ScanEmpty`, `ScanHandle`, `SkipSubsys`, `ScanSubsys` and `ScanCopy` are the loop
of `kill_subsystem`, which reads the handle for the test, then the subsystem, then
the handle again for the copy; `ScanCopy` takes either handle, since the compiler
may keep the first. Nothing orders the callers: all tasks that the code starts
have priority 1 and are time-sliced, and fixed priorities only take interleavings
away. `live` and `owner` are FreeRTOS's side: which tasks exist and for whom; a
handle that was freed can be handed out again, as the heap does with addresses.
`doomed` is a history variable: what was registered for the subsystem when
`kill_subsystem` was called.

`Creators` and `Killers` say which callers call what. In the repository only
`start`, from `app_main`, calls `create_task`, and only the supervisor
(`kernel.c:119`) calls a kill.

`TaskLifecycle` is what the calls amount to: tasks are `fresh`, `registered`,
`condemned` and gone; `lost` counts the slots below `num` that hold no task and
never will, `risk` those that the interrupted `task_add` is about to lose.

### Supervisor

Instants are kept as ages, so the model needs no clock and no horizon:
`now_ms - last_seen_ms` is `seen[s] - age`, taken modulo `Wrap` as the uint64_t
of the code is. A task reads the clock (`BeatStarts`) and takes the lock later
(`Heartbeat`); it may hang (`Hang`), loop (`Loop`) or be created again
(`Restart`). A pass is `PassStarts`, then for each subsystem `Healthy`, or
`HasExpired`, `StopMonitoring`, `Kill`; tasks run between any two of these.
`Above` are the tasks with a higher priority than the supervisor: when one of
them loops, the supervisor and all tasks below it are out for good (`Starved`),
time goes on without bound, and so do the ages. Otherwise `DelayMax`, `PassMax`
and `BeatMax` bound how long the delay with the wait for the processor, a pass
and a call of `sys_heartbeat` take: they are assumptions about the load, which
nothing in the code enforces. `called` is the time since a `sys_heartbeat` of the
subsystem last returned, `empty` counts kills that found no task: history
variables. `supervisor` is not created by `start()` and no task calls
`sys_heartbeat` yet: the model is of these functions, used as they are meant to
be.

### TdmaNode

One action per access to a chip register or pin that another actor can change.
`mode`, `irq`, `dio`, `fifo` are the chip; `bits` are the task's notification
bits; `armed` says that the slot timer may fire. `PacketEnds` and
`TransmissionEnds` are the chip, `TickDue` and `SlotTick` the timer,
`Interrupt` the GPIO interrupt on a rising edge of DIO0. The rest is the loop:
`NotifyWait`, `Level`, `ReadIrq`, `TxDone`, `RxDone`, `ReceiveClear`,
`ReceiveRead`, `ReadRemaining`, `ClearRemaining`, `Slot`, and the two driver
calls `Rx*` and `Tx*`. `unread` is a history variable: an intact packet ended
while the task waited and no flag was set, and has not been read since; another
packet that ends meanwhile clears it.

### TdmaNetwork

The loop's body is one action (`Handle`) that takes no time, exactly as
`TdmaNode` has it when nothing happens during it; `wait` counts down to the
slot timer's tick and `air` to the end of a packet. A synchronised node's tick
falls on the end of node 0's packet. The node handles either first, or both in one
pass of its loop, in the code's fixed order: the packet restarts the slots, then
the tick, which the restart did not cancel, counts one slot more. Such a node is
`astray`, one slot early until it handles another packet of node 0.
Nodes start and lose power at any time. `Clash` is a packet of another node in
the air while node 0 sends its own: the receiver gets neither.

### GnssReceiver

A byte is its place in its sentence, whether bytes were lost just before it,
and whether its sentence has been complete so far; that tells a sentence that
was sent from the head of one with the tail of another without numbering the
sentences. `Arrive` and `Overrun` are the UART driver, the others the task:
`Receive` takes an event, `Read` is one `uart_read_bytes` into `buf`, `Feed` one
round of the loop over `buf`, and bytes may arrive between any two. `Flush` and
`Reset` answer an overflow. `Ends` and `Parses` say when the next `Feed` comes to
the end of a line and calls `atgm_parse_line`. History variables say what the
environment did: `gap` and `whole`, from which a byte has what it says of the
bytes before it, `stray`, that the ring holds bytes whose event was lost, and
`torn`, that bytes were lost and the notice of it too.

### GnssClock

Instants are ages, as in `Supervisor`, and `unix_epoch` is the number of seconds
it is behind. `Pulse` is the interrupt, `TimeSentence` and `OtherSentence` the
parser, `WaitPps`, `GetsEdge`, `WaitTimesOut`, `GetPps` the getters, and
`ReadNav`, `ReadNow`, `ReadPps` the three accesses of
`atgm_get_synced_unix_us`, between which time passes and pulses and sentences
come. `Error` is what the call returns minus the true time.

### NmeaData and GnssDriver

`NmeaData` has no state: `ParseGga`, `ParseRmc`, `ParseZda` are the handlers as
functions of `__nav_data` and a sentence, with the tokens as the numbers
`HHMMSS` and `DDMMYY` in the widths of the code, and `UtcToEpoch` is
`utc_to_epoch`. `GnssDriver` uses them where `atgm_rx_task` holds the mutex.
`InitBegins`, `InitPps`, `InitSlows`, `SpeedSent`, `SpeedSwitched`, `InitTunes`,
`InitStarts` are the parts of `atgm_init` between which it sleeps or the
interrupt may come; the `Close*` actions take the same things away. A reader
takes the mutex, copies (position, `utc` and Unix time), gives it back, and may be
killed at each of these places (`KillPoints`), as `kill_task` does. A line only
holds the second it tells of, what it says of it is chosen when it is parsed,
before which nothing looks at it. `Restart` is the microcontroller's,
`ModulePowerCycle` the module's: the first leaves the module at its speed, the
second sets it to the saved one. `good` is a history variable: the last
`atgm_init` found the module at a speed it tries.

### Rtc

The calls are data: `Script` gives each its transfers in order, and an action
per kind of transfer (`WriteTime`, `ReadStatus`, `WriteCtrl`, ...) does the next
one of a task, successfully or not, so that other tasks, alarms, restarts and
blackouts come between any two. `Encode` and `Decode` are the conversions with
their bit fields, century bit and 12-hour mode. `GaugeInit` and `GaugeClose` are
what `bq_init` and `bq_close` do to the port. `kept` and `torn` are history
variables: the registers hold the time last set and have counted since; a burst
was cut short after the last whole one.

### FuelGauge

One action per I2C transfer (`Write` for those whose status is ignored), with
the gauge's seal, mode, class, buffer and block on the other side. `Fails`,
`GaugeResets` and `Restart` are the environment; a `ds3231_close` that takes the
port away under the gauge's driver makes transfers fail, which `Fails` does as
often as the bound `MaxTrouble` allows.

## 3. Runs

| run | shows | states |
|---|---|---|
| `registry` | the code's callers, one that creates and one that kills: `NoOrphan`, `KillIsolation`, `WholeSubsystemStopped`, and `TaskLifecycle` implemented | 526 k |
| `registry_time_sliced` | two callers that do everything: `TypeOK`, `DeleteOnce` | 1.7 M |
| `registry_unlocked` | violation: with the code's callers a kill during `task_add` leaves an empty slot below `num` | |
| `supervisor` | a task beside the supervisor and one above it: `SilentBeforeKill`, `NoKillSpam`, `HungKilledInTime`, `HungIsKilled` | 692 k |
| `tdma_node` | `NeverDeaf`, `PacketRead`, `ReturnsToReception` | 111 k |
| `network` | three nodes: `InStep`, `NoCollision`, `Synchronises` | 42 k |
| `gnss_receiver` | `NoSplice`, `LatestParsed` | 7.4 M |
| `gnss_clock` | `Accurate`, `NeverAhead`, `Bounded`, `FreshEdge` | 1.3 M |
| `gnss_clock_behind` | violation: a second behind between GGA and RMC | |
| `gnss_driver` | `UsesLive`, `Snapshot`, `Linked` | 938 k |
| `fuel_gauge` | `SealsAgain`, `Configures`, `OneFailureContained` | 504 k |
| `rtc` | `RoundTrip`, `OsfHonest`, `AlarmSurvives` | 1.2 M |

`gnss_clock_behind` is a disagreement of the code with its own comment, and
`registry_unlocked` one with `docs/architecture.md`, which says that access to the
table is synchronised; `PROJECT.json` quotes both.

**What the code does not give.** The passing runs hold under conditions the code
does not enforce, and some of their properties allow what a reader might not
expect. Both were found by stating more:

* registry: a kill between the accesses of `task_add` costs a slot for good, so that
  the table is full before it holds `TASKS_MAX` tasks (`registry_unlocked`;
  `TaskLifecycle` counts it). The rest is for the callers that the code has.
  With two callers inside `task_add` a task is lost (`NoOrphan`). With two killers a
  scan misses a task that the other's shift moves (`WholeSubsystemStopped`), and a
  copied handle that the other one frees may be another subsystem's by the time
  it is killed (`KillIsolation`). `TypeOK` and `DeleteOnce` hold in all these cases;
* supervisor: a heartbeat stored after `now_ms` was read makes `now_ms - last` wrap,
  and the subsystem that has just reported is killed; one between decision and
  kill comes too late, or re-arms the monitoring of a subsystem without tasks,
  which is then killed once more. `SilentBeforeKill` and `NoKillSpam` say exactly
  this much. A task above the supervisor that loops keeps it from running at all:
  then nothing is killed, and `HungKilledInTime` and `HungIsKilled` except it. The
  bound of the former is one on the load, too (`DelayMax`, `PassMax`);
* node: `PacketRead` is about packets that find the node waiting and no flag
  set. A packet that ends while the flags are being cleared can be cleared with
  them, a CrcError left behind condemns the next packet, and a damaged packet
  that ends between the two reads is delivered under the good verdict of the
  one before;
* network: a tick that is pending when node 0's packet is handled makes the node
  count one slot too far. `InStep` then has it one slot early, and `NoCollision`
  allows it to transmit together with its predecessor, but never with node 0.
  `Synchronises` excludes nodes whose packets go on to meet those of
  node 0: a node whose own slot coincides with node 0's never hears it;
* GNSS reception: bytes that arrive between `uart_flush_input` and `xQueueReset`
  (also at the end of `atgm_init`) are announced by no event, and the task lags
  behind until the next overflow;
* GNSS time: sentences later than 850 ms into the second, which the rates of 5
  and 10 Hz cause, make the `+ 1` of the second fail, and a missing pulse puts
  the time up to a second ahead;
* GNSS driver (`RxAbove`): with callers above `atgm_rx_task`, `atgm_close` may
  delete it while it holds the mutex, which no later `atgm_init` gives back.
  A reader killed inside the `memcpy` (`KillPoints`) takes the mutex with it,
  too: `kill_task` knows nothing of it, and all later readers block for ever.
  `Snapshot` is about what may not be torn. The date and the time of day in `utc` may
  be of different seconds: GGA sets the time alone, RMC may have one without the
  other, and over midnight `utc` then joins one day's date to another's time. An
  RMC with status A and an empty position marks the data valid with the position
  it had, or with none;
  `Linked` is about a module that is found at 9600 or at the speed asked for; one
  that was left at a third speed is never reached;
* gauge: one failed transfer in the dump of `bq_init` erases the learned block,
  and leaves the gauge unsealed if the dump was called alone; with
  `config == NULL` a half-done configuration is not repaired;
* RTC: a burst that is cut short while OSF is clear leaves a mixed time that no
  flag reports (`torn`). Two calls that read one register and write it back
  lose a change of each other's, and an alarm that comes between is lost. Years
  are those of the comment in `ds3231.h`, 2000 to 2099: from 2100 on the two
  digits no longer say which, and before 2000 `ds3231_get_time` ignores the
  century bit it wrote.

**Bounds.** Registry: two callers, so that every pair of calls
meets; two or three slots and one more handle than slots, so that the table
overflows, shifts over more than one entry, and handles are reused. Supervisor:
two subsystems, so that a pass has a first and a last one, one with a task above
the supervisor and one without; a `Timeout` larger than a period, as 5000 is than
1000, and the least load that lets a delay last longer than the period and time
pass in a pass and in a call; `Wrap` (2^64 in the code) only has to exceed every
difference of ages. Node: six packets during one
handling, one more than the loop's `guard` of 5. Network: three nodes as in the
code, a packet of less than half a slot (four nodes were run by hand, 1.0 M
states). GNSS: sentences of four bytes, so that
two losses fit into a line; a ring and a queue that hold one sentence and two
events, so that either fills up first; units of 50 ms, the largest in which all
the constants of the driver are whole; two seconds without sentences and three
without a date; for the data, the last second of 29 February and the first of
March, so that day, month and the leap day change between a time and its date;
for the line, the factory speed, the usual one and one that `atgm_set_baudrate`
does not know; a PPS pin and none. Gauge: two failures in each call, one more than the code copes
with, and any number of calls and restarts. RTC: two tasks in any two calls,
the first and the last time of the range and one out of every range, two sets
of registers in 12-hour mode, any number of failures, restarts and blackouts.

**Fairness.** Weak fairness of a task that is ready to run, of the supervisor's
passes (which a looping task above it disables, so that fairness then says
nothing of them), of the radio's end of a transmission, of the slot timer and of time: a
ready task is scheduled, esp_timer fires, the radio finishes, time passes.
Nothing is assumed of what the environment is free not to do: packets need not
arrive, tasks need not report, nodes need not start or stay on.

## 4. Proofs

`TaskRegistryProofs` proves for every number of callers, handles and slots,
whichever of them create and kill:

* `TypeCorrect`: `num` stays within `0..TasksMax` and every index within the
  table. Type correctness is inductive only with the fact that a caller which
  is adding has an index below `TasksMax`; `StoreNum` then cannot exceed it,
  although `num` may have changed meanwhile.
* `DeletedOnce`: no task reaches `vTaskDelete` twice. The inductive invariant
  follows a handle from the caller that created it, through the slots below
  `num`, to the caller that deletes it, and says that it is in one of these
  places. It holds although two creators lose tasks: what the race destroys is
  the entry, never its uniqueness.

What the registry promises on top of that is proved for the callers of the code:
`SoleCreator`, one caller creates (`app_main`), and where it is named
`SoleKiller`, one caller kills (the supervisor). Nothing is assumed of their
priorities; either may be preempted by the other between any two accesses.

* `NoneOrphaned`, for a sole creator and any number of killers: `NoOrphan`. The
  invariant (`TableInv`) follows the slot that the creator is filling, which `num`
  may fall below but never exceed: killers only shrink the table, so no handle is
  overwritten that `num` covers, and the new one is below `num` once it is stored;
* `Implements`, for the same: `ImplementsLifecycle`, step by step. The slots below
  `num` are a bijection with the tasks and the lost slots, and what `num` has
  shrunk by during `task_add` becomes lost with `StoreNum`;
* `KillsOwnOnly` and `StopsWhole`, for a sole killer besides: `KillIsolation` and
  `WholeSubsystemStopped`. The invariant (`HuntInv`) follows the two passes of
  `kill_subsystem`: a handle it has copied is in a slot it has passed, one it has
  promised to stop is in its copy or in a slot ahead, and the creator, which may
  run between any two of its reads, only writes slots behind both. A second killer
  refutes the two, a second creator all four: the hypotheses are the
  preconditions of section 3.

`SupervisorProofs` proves for all subsystems, tasks, priorities and timing
constants:

* `TypeCorrect`;
* `HungKilled`: `HungKilledInTime`, the bound `Timeout + DelayMax + 2 * PassMax` unless
  the supervisor is starved. The invariant bounds the age of a heartbeat by where
  the supervisor is: in the delay, before or after the subsystem in a pass. A
  starved supervisor stays so (`StarvedForGood`), and nothing is claimed then;
* `OnlySilentKilled`: `SilentBeforeKill`. The invariant splits on whether a
  `sys_heartbeat` has returned since `now_ms` was read: if none has, `last_seen_ms`
  is no younger than `now_ms`, the difference does not wrap, and the silence is as
  long as it says but for the duration of one call (`FreshInv`);
* `NotKilledOnAndOn`: `NoKillSpam`. A subsystem without tasks is monitored only
  after a heartbeat that was stored between the decision and the kill; the next
  kill switches that off, and no task is left to store another.

`TdmaNodeProofs` proves for every node and any bounds on what comes meanwhile:

* `TypeCorrect`;
* `NotDeaf`: `NeverDeaf`. The invariant says at each program counter which mode
  the radio is in, or is about to be put in, and that a DIO0 that is high while
  the task is on its way to the wait has left its notification bit set, or will
  be looked at once more. The loop's `guard` may run out anywhere in it;
* `PacketNotMissed`: `PacketRead`. While a packet is `unread` the radio receives, and the
  task is at one of the six places between the wait and the read of the packet,
  with the RxDone that it waits for as the only flag.

`TdmaNetworkProofs` proves for any number of nodes, any slot and any packet of at
most half a slot:

* `TypeCorrect`;
* `StaysInStep` and `SlotsKeptApart`: `InStep` and `NoCollision`, with a tick and a
  packet handled one by one in either order or together. The invariant compares
  the timer of each synchronised node with that of node 0: its tick comes an
  airtime after node 0's, with the same number once the pending tick, and for a
  node astray one more (`Counted`), is counted. It is established by the first
  packet of node 0 that is handled, for which a packet that has been heard and not
  yet handled must be one that ended this instant, and kept because a
  transmission takes a fixed part of its own slot.

`GnssProofs` proves about `GnssReceiver`, for every length of a sentence, size of
`line`, `buf`, ring and queue, and burst:

* `RxTypeCorrect`;
* `OnlySentParsed` and `AllParsed`: `NoSplice` and `LatestParsed`. The invariant
  (`RxInv`) is about the bytes in `buf`, the ring and on the wire as one stream.
  Bytes follow each other in it as in a sentence, but where some were lost
  (`Ordered`), and the line is the beginning of what the byte at hand goes on
  with (`Continued`). `Announced` counts, for each event in the queue, the bytes
  the task will have read when it takes it: never more than are stored, all of
  them at the end of the queue if no event was lost, and an overflow event comes
  before each place where bytes are missing. The counts are a function that the
  invariant says exists, since a sum over the queue would need induction.

and about `GnssClock`, for all timing constants within `ClockAssumption`, and
without the bounds on silence and lag that the run has:

* `TypeCorrect`;

* `NotAhead` and `Exact`: `NeverAhead` and `Accurate`. The invariant relates the
  ages: the last sentence was sent in the second `unix_epoch` names or a later
  one, and not after `Latest` units of it; the same of what a call in progress
  has read, with the units it has lasted. With the pulse as old as the second,
  `Threshold` then decides the `+ 1` rightly, which is `Latest + Threshold < Sec`;
* `ErrorBounded`: `Bounded`, if `Timeout + Delay < 2 * Sec`. The code's timeout is
  1.2 s, so that a call may take up to 0.8 s: a pulse that is accepted is then of
  this second or of the last one;
* `EdgeIsFresh`: `FreshEdge`.

`GnssDriverProofs` proves first what the handlers of `NmeaData` preserve
(`ParseOk`): whatever numbers the fields of a sentence hold, the calendar stays in
its ranges and the position is of one fix. From that, for any days,
configurations and speeds:

* `TypeCorrect`;
* `NothingGone`: `UsesLive`, for `RxAbove` and readers not killed inside the copy.
  The invariant gives at each step of `atgm_init` and `atgm_close` what exists
  already or still;
* `LinkKept`: `Linked`. The invariant says, while `good`, which of the two speeds
  of the line each step of `atgm_init` and `atgm_set_baudrate` has changed, and
  that the module's are those the code can set;
* `DaysCounted`: the days that `utc_to_epoch` computes, with divisions for the leap
  years and a table for the months, are those of `DayNumber`, which counts one
  year and one month after the other, for every date from 1970 to 2100. A closed
  form satisfies the recursive definition, so that the definition has a value;
  where the value and the closed form differ there is a least year, and the
  definition itself excludes it (`Least`, from the library's `WFMin`, takes the
  place of an induction theorem);
* `SnapshotKept`: `Snapshot`, the calendar included: date and time of day are each of
  a second that has come, since the digits of a sentence are read back as what
  was sent, but the proof relates neither to the other. While a reader copies it holds the mutex, so that the
  half it has is that of `__nav_data` (`DataInv`). The sentence being parsed is of
  a second that has come, and so are the Unix times in `__nav_data` and in the copy
  (`SecondInv`): it is set only from a time and a date of one sentence, whose
  digits are read back as that second (`ClockRead`, `ShortRead`), and the second
  after the last one of a day has the next number, over the ends of months, of
  February and of years (`NextDayCounted`).
  The days are those of the calendar from 2000 on (`CalendarAssumption`): the code
  reads two digits of the year as 20xx.

`RtcProofs` proves for any number of tasks, any times and any registers found:

* `TypeCorrect`: the registers stay decimal, whatever was written;
* `ReadsBack`: `RoundTrip`, if the registers found at first say what they were
  meant to. It rests on lemmas that `Dec` undoes `Bcd`;
* `PowerLossShows`: `OsfHonest`. The invariant says that the time is kept or
  torn as long as some call may still clear OSF: a `ds3231_set_time` after its
  burst, or any other that read the status while OSF was clear. A blackout that
  sets OSF ends all of them;
* `AlarmKept`: `AlarmSurvives`, step by step from `NewStatus`.

`FuelGaugeProofs` proves for any number of failed transfers, losses of power and
restarts in a call:

* `TypeCorrect`: only blocks are stored in the gauge, never the uninitialised
  snapshot of a `bq_init` whose dump failed;
* `SealedAfterwards` and `ConfiguredAfterwards`: `SealsAgain` and `Configures`. The
  invariant follows an undisturbed call: the two keys unseal whatever number of
  keys an earlier call had left (`SealInv`), and the block goes from the memory to
  the buffer, to the snapshot and back (`ConfigInv`);
* `OneFailureKept`: `OneFailureContained`. One failure can cost the selection of
  the class, but then the gauge is sealed or not in configuration mode when the
  block comes, or the class is the one the dump had selected (`ClassInv`).

Only model-checked: the liveness properties `Synchronises`, `HungIsKilled` and
`ReturnsToReception` (fairness and ENABLED are outside the prover's reach). Every
invariant of a passing run is stated by a theorem. `WithinSecond` is the property
that the code does not have.

## 5. Not modelled

* Registry: the table's `name`, `func`, `stack_bytes` and `priority` columns, and the
  task `power` that prints them (`subsystem.c:36-50`). It reads the table through
  `list_get()` without the lock and writes nothing: what it prints may be torn, no
  modelled state depends on it.
* Radio: the register values that `lora_init` writes, the setters and getters; the
  polled `lora_send_packet`, which no task uses.
* Network: clock drift between the nodes and the capture of the stronger of two
  packets.
* GNSS: satellites, precision and antenna; speed and course; the drift correction,
  a filter on floating-point numbers that an exact oscillator leaves at zero; the
  commands without an effect on the host (filter, restart, standby); the older
  reading functions next to `atgm_get_data`, one copy each.
* Gauge and RTC: the getters, one read each, among them `ds3231_temperature`.
* The display (pixels in a fixed order, no state but the rotation), the DS18B20
  (bit-banged: its correctness is one of microseconds), the demo tasks (they
  print what the drivers return), `start` and `create_queue` (a check of arguments
  and one call each), the packet layout (no code uses it).

## 6. Plan

1. Composition: a kill that hits a task inside a driver call, with `TaskRegistry`
   for the kill and `GnssDriver` for the mutex it takes along.
2. `TdmaNode` as an implementation of one node of `TdmaNetwork` when nothing
   happens during the handling of an event: `Handle` is that, by the reading of
   the code only.
