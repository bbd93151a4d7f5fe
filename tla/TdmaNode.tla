------------------------------ MODULE TdmaNode ------------------------------
(***************************************************************************)
(* One node of the TDMA test network: the task tdma of                     *)
(* src/src/subsystems/lora_tdma/tdma.c, its two interrupt sources and the  *)
(* calls of src/src/drivers/sx127x.c it makes, one step for each access to *)
(* a register or a pin that another actor can change.                      *)
(*                                                                         *)
(* The transceiver is external.  It is modelled by what the code relies    *)
(* on: the operating mode, the interrupt flags (set by the chip, cleared   *)
(* by writing ones), the signal mapped to the pin DIO0, the packet in the  *)
(* FIFO, the return to standby when a transmission ends.  DIO0 is high     *)
(* while the mapped flag is set, and only its rising edge interrupts.      *)
(*                                                                         *)
(* Time is not counted here.  TickDue says instead that a slot is long     *)
(* enough for everything a node does for one event, its transmission       *)
(* included; During bounds the packets that end while the task works.      *)
(***************************************************************************)
EXTENDS Integers

CONSTANTS
  NumNodes,   \* NUM_NODES
  Me,         \* MY_NODE_ID
  During,     \* packets that may end while the task handles one event
  GuardMax    \* the initial value of guard

Nodes == 0 .. NumNodes - 1

ASSUME NodeAssumption ==
  /\ NumNodes \in Nat \ {0}
  /\ Me \in Nodes
  /\ During \in Nat
  /\ GuardMax \in Nat \ {0}

VARIABLES
  mode,     \* REG_OP_MODE: "sleep", "stdby", "rx" or "tx"
  irq,      \* REG_IRQ_FLAGS
  dio,      \* REG_DIO_MAPPING_1: the flag that drives DIO0
  fifo,     \* the sender of the last packet received, with its CRC verdict
  bits,     \* notification bits of the task
  armed,    \* the slot timer can fire
  pc,       \* where the task is
  ret,      \* where lora_start_rx_continuous returns to
  got,      \* notifications
  flags,    \* the flags last read from REG_IRQ_FLAGS
  guard,    \* guard
  slot,     \* s_current_slot modulo NUM_NODES
  during,   \* packets that ended since the task last waited
  unread    \* history: fifo holds a packet that found node and flags at rest

radio == <<mode, irq, dio, fifo>>
local == <<ret, got, flags, guard, slot>>
ghost == <<during, unread>>
vars == <<radio, bits, armed, pc, local, ghost>>

Flags == {"RxDone", "TxDone", "CrcError"}
Packets == [from : Nodes \ {Me}, intact : BOOLEAN]
NoPacket == [from |-> Me, intact |-> FALSE]

\* The task waits and nothing is pending.
AtRest == pc = "wait" /\ bits = {}

\* The level of DIO0.
High(mapped, set) == mapped \in set

\* gpio_isr_handler, at once after a rising edge of DIO0.
Interrupt ==
  IF ~High(dio, irq) /\ High(dio', irq')
  THEN bits' = bits \cup {"dio"}
  ELSE UNCHANGED bits

-----------------------------------------------------------------------------

\* lora_init has reset the chip and left it in standby; the handle is stored
\* and the slot timer started before the radio can raise DIO0.
Init ==
  /\ mode = "stdby" /\ irq = {} /\ dio = "RxDone"
  /\ fifo = NoPacket
  /\ bits = {} /\ armed = FALSE
  /\ pc = "rx_idle" /\ ret = "wait"
  /\ got = {} /\ flags = {} /\ guard = 0 /\ slot = 0
  /\ during = 0 /\ unread = FALSE

-----------------------------------------------------------------------------
(* The chip and the timer                                                  *)

\* The whole of a packet has been received; with a bad checksum the chip
\* raises CrcError with RxDone.
PacketEnds(p) ==
  /\ mode = "rx"
  /\ ~AtRest => during < During
  /\ fifo' = p
  /\ irq' = irq \cup {"RxDone"} \cup IF p.intact THEN {} ELSE {"CrcError"}
  /\ UNCHANGED <<mode, dio>>
  /\ Interrupt
  /\ during' = IF AtRest THEN 0 ELSE during + 1
  /\ unread' = (AtRest /\ irq = {} /\ p.intact)
  /\ UNCHANGED <<armed, pc, local>>

TransmissionEnds ==
  /\ mode = "tx"
  /\ mode' = "stdby"
  /\ irq' = irq \cup {"TxDone"}
  /\ UNCHANGED <<dio, fifo>>
  /\ Interrupt
  /\ UNCHANGED <<armed, pc, local, ghost>>

\* A slot has gone by since the last tick or restart of the timer.
TickDue ==
  /\ ~armed
  /\ pc = "wait" /\ bits = {} /\ mode # "tx"
  /\ armed' = TRUE
  /\ UNCHANGED <<radio, bits, pc, local, ghost>>

\* slot_timer_callback
SlotTick ==
  /\ armed
  /\ armed' = FALSE
  /\ bits' = bits \cup {"tick"}
  /\ UNCHANGED <<radio, pc, local, ghost>>

-----------------------------------------------------------------------------
(* The task waits                                                          *)

\* Mutant: the slot is handled first.
AfterWaitSlotFirst(events) ==
  IF "tick" \in events THEN "slot" ELSE "level"

\* The radio's event is handled before the slot's.
AfterWait(events) ==
  IF "dio" \in events THEN "level" ELSE "slot"

\* Mutant: the bits are cleared on entry to xTaskNotifyWait.
NotifyWaitClearing ==
  /\ pc = "wait"
  /\ bits # {}
  /\ \/ /\ got' = bits /\ pc' = AfterWait(bits)
     \/ /\ got' = {} /\ pc' = "wait"
  /\ bits' = {}
  /\ guard' = GuardMax
  /\ during' = 0
  /\ UNCHANGED <<radio, armed, ret, flags, slot, unread>>

\* xTaskNotifyWait(0, 0xFFFFFFFF) returns all pending bits and clears them.
NotifyWait ==
  /\ pc = "wait"
  /\ bits # {}
  /\ got' = bits
  /\ bits' = {}
  /\ pc' = AfterWait(bits)
  /\ guard' = GuardMax
  /\ during' = 0
  /\ UNCHANGED <<radio, armed, ret, flags, slot, unread>>

-----------------------------------------------------------------------------
(* lora_start_rx_continuous.  The FIFO base and pointer, which the code     *)
(* always writes as zero, are left out.                                    *)

StartRx(back) == pc' = "rx_idle" /\ ret' = back

RxIdle ==
  /\ pc = "rx_idle"
  /\ mode' = "stdby"
  /\ pc' = "rx_clear"
  /\ UNCHANGED <<irq, dio, fifo, bits, armed, local, ghost>>

RxClear ==
  /\ pc = "rx_clear"
  /\ irq' = {}
  /\ pc' = "rx_map"
  /\ UNCHANGED <<mode, dio, fifo, bits, armed, local, ghost>>

RxMap ==
  /\ pc = "rx_map"
  /\ dio' = "RxDone"
  /\ UNCHANGED <<mode, irq, fifo>>
  /\ Interrupt
  /\ pc' = "rx_mode"
  /\ UNCHANGED <<armed, local, ghost>>

\* Mutant: the last write is MODE_STDBY instead of MODE_RX_CONTINUOUS.
RxModeStandby ==
  /\ pc = "rx_mode"
  /\ pc' = ret
  /\ UNCHANGED <<radio, bits, armed, local, ghost>>

RxMode ==
  /\ pc = "rx_mode"
  /\ mode' = "rx"
  /\ pc' = ret
  /\ UNCHANGED <<irq, dio, fifo, bits, armed, local, ghost>>

-----------------------------------------------------------------------------
(* The DIO0 part of the loop                                               *)

\* Mutant: the guard is counted down but not tested.
LevelUnguarded ==
  /\ pc = "level"
  /\ IF High(dio, irq)
     THEN pc' = "irq" /\ guard' = guard - 1
     ELSE pc' = "slot" /\ UNCHANGED guard
  /\ UNCHANGED <<radio, bits, armed, ret, got, flags, slot, ghost>>

\* while (gpio_get_level(DIO_NUM) == 1 && (guard-- > 0))
Level ==
  /\ pc = "level"
  /\ IF High(dio, irq) /\ guard > 0
     THEN pc' = "irq" /\ guard' = guard - 1
     ELSE pc' = "slot" /\ UNCHANGED guard
  /\ UNCHANGED <<radio, bits, armed, ret, got, flags, slot, ghost>>

\* irq = lora_reg_read(0x12): nothing set, a transmission that ended, or not.
ReadIrq ==
  /\ pc = "irq"
  /\ flags' = irq
  /\ pc' = IF irq = {} THEN "slot"
            ELSE IF "TxDone" \in irq THEN "tx_done" ELSE "rx_done"
  /\ UNCHANGED <<radio, bits, armed, ret, got, guard, slot, ghost>>

\* The TxDone flag is reset, then lora_start_rx_continuous is called.
TxDone ==
  /\ pc = "tx_done"
  /\ irq' = irq \ {"TxDone"}
  /\ StartRx("rx_done")
  /\ UNCHANGED <<mode, dio, fifo, bits, armed, got, flags, guard, slot, ghost>>

\* if (irq & IRQ_RX_DONE_MASK), and the read of 0x12 in lora_receive_packet.
RxDone ==
  /\ pc = "rx_done"
  /\ IF "RxDone" \in flags /\ "RxDone" \in irq
     THEN pc' = "rcv_clear" /\ flags' = irq
     ELSE pc' = "rem" /\ UNCHANGED flags
  /\ UNCHANGED <<radio, bits, armed, ret, got, guard, slot, ghost>>

\* lora_receive_packet resets the flags it has read; on a CRC error it
\* returns -1 and the packet is dropped.
ReceiveClear ==
  /\ pc = "rcv_clear"
  /\ irq' = irq \ flags
  /\ pc' = IF "CrcError" \in flags THEN "rem" ELSE "rcv_read"
  /\ UNCHANGED <<mode, dio, fifo, bits, armed, local, ghost>>

\* The packet is read from the FIFO.  A packet of node 0 restarts the slots of
\* the other nodes: a tick already in bits or in got is not taken back.
ReceiveRead ==
  /\ pc = "rcv_read"
  /\ pc' = "rem"
  /\ IF Me # 0 /\ fifo.from = 0
     THEN /\ slot' = 1 % NumNodes
          /\ armed' = FALSE
     ELSE UNCHANGED <<slot, armed>>
  /\ unread' = FALSE
  /\ UNCHANGED <<radio, bits, ret, got, flags, guard, during>>

\* rem = lora_reg_read(0x12)
ReadRemaining ==
  /\ pc = "rem"
  /\ flags' = irq
  /\ pc' = "rem_clear"
  /\ UNCHANGED <<radio, bits, armed, ret, got, guard, slot, ghost>>

\* if (rem != 0) lora_reg_write(0x12, rem)
ClearRemaining ==
  /\ pc = "rem_clear"
  /\ irq' = irq \ flags
  /\ pc' = "level"
  /\ UNCHANGED <<mode, dio, fifo, bits, armed, local, ghost>>

-----------------------------------------------------------------------------
(* The slot part of the loop                                               *)

\* active_nod is this node: its transmission begins; or it is another one:
\* REG_OP_MODE is read, and reception started unless the node receives.
Slot ==
  /\ pc = "slot"
  /\ IF "tick" \notin got
     THEN pc' = "wait" /\ UNCHANGED <<ret, slot>>
     ELSE /\ slot' = (slot + 1) % NumNodes
          /\ IF slot = Me THEN pc' = "tx_idle" /\ UNCHANGED ret
             ELSE IF mode # "rx" THEN StartRx("wait")
             ELSE pc' = "wait" /\ UNCHANGED ret
  /\ got' = got \ {"tick"}
  /\ UNCHANGED <<radio, bits, armed, flags, guard, ghost>>

\* lora_send_packet_async
TxIdle ==
  /\ pc = "tx_idle"
  /\ mode' = "stdby"
  /\ pc' = "tx_clear"
  /\ UNCHANGED <<irq, dio, fifo, bits, armed, local, ghost>>

TxClear ==
  /\ pc = "tx_clear"
  /\ irq' = {}
  /\ pc' = "tx_map"
  /\ UNCHANGED <<mode, dio, fifo, bits, armed, local, ghost>>

TxMap ==
  /\ pc = "tx_map"
  /\ dio' = "TxDone"
  /\ UNCHANGED <<mode, irq, fifo>>
  /\ Interrupt
  /\ pc' = "tx_start"
  /\ UNCHANGED <<armed, local, ghost>>

\* The payload is copied over whatever the FIFO held, and sent.
TxStart ==
  /\ pc = "tx_start"
  /\ mode' = "tx"
  /\ fifo' = NoPacket
  /\ pc' = "wait"
  /\ UNCHANGED <<irq, dio, bits, armed, local, ghost>>

-----------------------------------------------------------------------------

Task ==
  \/ NotifyWait \/ Level \/ ReadIrq \/ TxDone \/ RxDone \/ ReceiveClear
  \/ ReceiveRead \/ ReadRemaining \/ ClearRemaining \/ Slot
  \/ RxIdle \/ RxClear \/ RxMap \/ RxMode
  \/ TxIdle \/ TxClear \/ TxMap \/ TxStart

Next ==
  \/ Task
  \/ \E p \in Packets : PacketEnds(p)
  \/ TransmissionEnds
  \/ TickDue \/ SlotTick

\* The task is scheduled, transmissions end and the timer runs; nobody has to
\* send to this node.
Fairness ==
  /\ WF_vars(Task)
  /\ WF_vars(TransmissionEnds)
  /\ WF_vars(TickDue) /\ WF_vars(SlotTick)

Spec == Init /\ [][Next]_vars
FairSpec == Spec /\ Fairness

-----------------------------------------------------------------------------
(* Properties                                                              *)

TypeOK ==
  /\ mode \in {"stdby", "rx", "tx"}
  /\ irq \subseteq Flags /\ flags \subseteq Flags
  /\ dio \in {"RxDone", "TxDone"}
  /\ fifo \in Packets \cup {NoPacket}
  /\ bits \subseteq {"dio", "tick"} /\ got \subseteq {"dio", "tick"}
  /\ armed \in BOOLEAN /\ unread \in BOOLEAN
  /\ pc \in {"wait", "level", "irq", "tx_done", "rx_done", "rcv_clear", "rcv_read",
             "rem", "rem_clear", "slot", "rx_idle", "rx_clear", "rx_map", "rx_mode",
             "tx_idle", "tx_clear", "tx_map", "tx_start"}
  /\ ret \in {"wait", "rx_done"}
  /\ guard \in 0 .. GuardMax
  /\ slot \in Nodes
  /\ during \in 0 .. During

(* A node at rest hears what comes next: it is never left in standby, and    *)
(* never goes to sleep on a DIO0 that is high, whose edge would not come     *)
(* again, however packets, ends of transmissions and ticks fall between its  *)
(* accesses to the chip, and also when the guard of the loop has run out.    *)
NeverDeaf == AtRest => mode \in {"rx", "tx"} /\ ~High(dio, irq)

(* Every transmission is followed by reception, although the switch back     *)
(* depends on one interrupt.                                                 *)
ReturnsToReception == mode = "tx" ~> mode = "rx"

(* A packet that finds the node at rest is read before the node rests again, *)
(* also when the tick of the node's own slot comes with it.  Only a packet   *)
(* that ends during the handling of another can take its place, or leave a   *)
(* CrcError behind that condemns the next one.                               *)
PacketRead == AtRest => ~unread
==============================================================================
