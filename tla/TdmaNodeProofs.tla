--------------------------- MODULE TdmaNodeProofs ---------------------------
(***************************************************************************)
(* For any number of nodes, any guard of the loop and any number of        *)
(* packets during the handling of an event:                                *)
(*   - a node at rest receives or transmits, and no edge of DIO0 is lost;  *)
(*   - a packet that finds the node at rest is read before it rests again. *)
(***************************************************************************)
EXTENDS TdmaNode, TLAPS

Places == {"wait", "level", "irq", "tx_done", "rx_done", "rcv_clear", "rcv_read",
           "rem", "rem_clear", "slot", "rx_idle", "rx_clear", "rx_map", "rx_mode",
           "tx_idle", "tx_clear", "tx_map", "tx_start"}

\* The DIO0 pin is high and the task will not hear of it.
Missed == High(dio, irq) /\ "dio" \notin bits

\* Where a call of the driver has set the chip to standby.
Switching == {"rx_clear", "rx_map", "rx_mode", "tx_clear", "tx_map", "tx_start"}

\* Outside of these calls standby is the end of a transmission, told by TxDone.
Radio ==
  /\ mode = "tx" => dio = "TxDone" /\ irq = {}
  /\ mode = "rx" => dio = "RxDone" /\ "TxDone" \notin irq
  /\ mode = "stdby" /\ pc \notin Switching \cup {"rx_idle", "tx_idle"} =>
       dio = "TxDone" /\ "TxDone" \in irq
  /\ pc \in Switching => mode = "stdby"
  /\ pc \in Switching \ {"rx_clear", "tx_clear"} => irq = {}
  /\ pc = "rx_mode" => dio = "RxDone"
  /\ pc = "tx_start" => dio = "TxDone"

\* Nothing is missed where the task may go to rest; before the loop looks at
\* the pin, it still has a turn left.
Heard ==
  /\ pc \in {"wait", "slot"} => ~Missed
  /\ pc = "level" => ~Missed \/ guard > 0
  /\ pc = "level" /\ mode # "rx" => guard > 0
  /\ pc = "irq" => mode = "rx" \/ "TxDone" \in irq
  /\ pc = "irq" => mode # "tx"
  /\ pc = "tx_done" => "TxDone" \in irq /\ mode = "stdby"
  /\ pc \in {"rx_done", "rcv_clear", "rcv_read", "rem", "rem_clear"} => mode = "rx"
  /\ pc = "rem_clear" /\ "RxDone" \in irq \ flags => "dio" \in bits

RestInv == Radio /\ Heard

\* A packet that is to be read is on its way through the loop.
Reading ==
  unread =>
    /\ mode = "rx"
    /\ \/ pc = "wait" /\ irq = {"RxDone"} /\ "dio" \in bits
       \/ pc = "level" /\ irq = {"RxDone"} /\ guard > 0
       \/ pc = "irq" /\ irq = {"RxDone"}
       \/ pc = "rx_done" /\ irq = {"RxDone"} /\ flags = {"RxDone"}
       \/ pc = "rcv_clear" /\ flags = {"RxDone"}
       \/ pc = "rcv_read"

-----------------------------------------------------------------------------
(* Types                                                                   *)

LEMMA TypeInit == Init => TypeOK
<1>1. 0 \in Nodes /\ 0 \in 0 .. GuardMax /\ 0 \in 0 .. During
  BY NodeAssumption DEF Nodes
<1> QED BY <1>1 DEF Init, TypeOK

LEMMA TypeStep == TypeOK /\ [Next]_vars => TypeOK'
<1> SUFFICES ASSUME TypeOK, [Next]_vars PROVE TypeOK'
  OBVIOUS
<1> USE NodeAssumption
<1>1. CASE UNCHANGED vars
  BY <1>1 DEF vars, radio, local, ghost, TypeOK
<1>2. bits' \subseteq {"dio", "tick"} \/ ~Interrupt
  BY DEF Interrupt, TypeOK
<1>3. ASSUME NEW p \in Packets, PacketEnds(p)
      PROVE  TypeOK'
  <2>1. irq' \subseteq Flags
    BY <1>3 DEF PacketEnds, TypeOK, Flags
  <2>2. during' \in 0 .. During
    BY <1>3 DEF PacketEnds, TypeOK
  <2> QED BY <1>2, <1>3, <2>1, <2>2 DEF PacketEnds, TypeOK, local
<1>4. CASE TransmissionEnds
  <2>1. irq' \subseteq Flags
    BY <1>4 DEF TransmissionEnds, TypeOK, Flags
  <2> QED BY <1>2, <1>4, <2>1 DEF TransmissionEnds, TypeOK, local, ghost
<1>5. CASE TickDue \/ SlotTick
  BY <1>5 DEF TickDue, SlotTick, TypeOK, radio, local, ghost
<1>6. CASE NotifyWait
  BY <1>6 DEF NotifyWait, AfterWait, TypeOK, radio
<1>7. CASE Level
  BY <1>7 DEF Level, TypeOK, radio, ghost
<1>8. CASE ReadIrq \/ TxDone \/ RxDone
  BY <1>8 DEF ReadIrq, TxDone, RxDone, StartRx, TypeOK, radio, ghost
<1>9. CASE ReceiveClear \/ ReadRemaining \/ ClearRemaining
  BY <1>9 DEF ReceiveClear, ReadRemaining, ClearRemaining, TypeOK, radio, local, ghost
<1>10. CASE ReceiveRead
  <2>1. slot' \in Nodes
    BY <1>10 DEF ReceiveRead, TypeOK, Nodes
  <2> QED BY <1>10, <2>1 DEF ReceiveRead, TypeOK, radio
<1>11. CASE Slot
  <2>1. slot' \in Nodes
    BY <1>11 DEF Slot, TypeOK, Nodes
  <2> QED BY <1>11, <2>1 DEF Slot, StartRx, TypeOK, radio, ghost
<1>12. CASE RxIdle \/ RxClear \/ RxMode
  BY <1>12 DEF RxIdle, RxClear, RxMode, TypeOK, local, ghost
<1>13. CASE RxMap
  BY <1>2, <1>13 DEF RxMap, TypeOK, local, ghost
<1>14. CASE TxIdle \/ TxClear \/ TxStart
  BY <1>14 DEF TxIdle, TxClear, TxStart, TypeOK, local, ghost
<1>15. CASE TxMap
  BY <1>2, <1>15 DEF TxMap, TypeOK, local, ghost
<1> QED BY <1>1, <1>3, <1>4, <1>5, <1>6, <1>7, <1>8, <1>9, <1>10, <1>11, <1>12, <1>13, <1>14, <1>15
        DEF Next, Task

(* The chip, the bits and the loop's variables stay in their ranges: the     *)
(* guard never goes below zero, the chip never leaves its three modes.       *)
THEOREM TypeCorrect == Spec => []TypeOK
BY TypeInit, TypeStep, PTL DEF Spec

-----------------------------------------------------------------------------
(* The radio at rest                                                       *)

LEMMA RestStep == TypeOK /\ RestInv /\ [Next]_vars => RestInv'
<1> SUFFICES ASSUME TypeOK, RestInv, [Next]_vars PROVE RestInv'
  OBVIOUS
<1> USE DEF RestInv
<1>0. mode \in {"stdby", "rx", "tx"} /\ guard \in Nat /\ GuardMax \in Nat \ {0} /\ pc \in Places
      /\ ret \in {"wait", "rx_done"} /\ bits \subseteq {"dio", "tick"}
  BY NodeAssumption DEF TypeOK, Places
<1>1. CASE UNCHANGED vars
  BY <1>1 DEF vars, radio, local, ghost, Radio, Heard, Missed, High
<1>3. ASSUME NEW p \in Packets, PacketEnds(p)
      PROVE  RestInv'
  <2>1. /\ mode = "rx" /\ mode' = "rx" /\ dio = "RxDone" /\ dio' = dio /\ pc' = pc
        /\ flags' = flags /\ guard' = guard /\ "TxDone" \notin irq
        /\ "RxDone" \in irq' /\ "TxDone" \notin irq'
    BY <1>3 DEF PacketEnds, local, Radio
  <2>2. pc \notin Switching
    BY <2>1 DEF Radio
  <2>3. "dio" \in bits' \/ ("RxDone" \in irq /\ bits' = bits)
    BY <1>3, <2>1 DEF PacketEnds, Interrupt, High
  <2>4. Radio'
    BY <2>1, <2>2 DEF Radio
  <2>5. Heard'
    BY <2>1, <2>3 DEF Heard, Missed, High
  <2> QED BY <2>4, <2>5
<1>4. CASE TransmissionEnds
  <2>1. /\ mode = "tx" /\ mode' = "stdby" /\ dio = "TxDone" /\ dio' = dio /\ pc' = pc
        /\ flags' = flags /\ guard' = guard /\ irq = {} /\ irq' = {"TxDone"}
    BY <1>4 DEF TransmissionEnds, local, Radio
  <2>2. "dio" \in bits'
    BY <1>4, <2>1 DEF TransmissionEnds, Interrupt, High
  <2>3. pc \notin Switching
    BY <2>1 DEF Radio
  <2>4. Radio'
    BY <2>1, <2>3 DEF Radio
  <2>5. Heard'
    BY <2>1, <2>2 DEF Heard, Missed, High
  <2> QED BY <2>4, <2>5
<1>5. CASE TickDue \/ SlotTick
  BY <1>5 DEF TickDue, SlotTick, radio, local, ghost, Radio, Heard, Missed, High
<1>6. CASE NotifyWait
  BY <1>0, <1>6 DEF NotifyWait, AfterWait, radio, Radio, Heard, Missed, High, Switching
<1>7. CASE Level
  BY <1>0, <1>7 DEF Level, radio, Radio, Heard, Missed, High, Switching
<1>8. CASE ReadIrq
  BY <1>0, <1>8 DEF ReadIrq, radio, Radio, Heard, Missed, High, Switching
<1>9. CASE TxDone
  BY <1>9 DEF TxDone, StartRx, Radio, Heard, Switching
<1>10. CASE RxDone
  BY <1>10 DEF RxDone, radio, Radio, Heard, Switching
<1>11. CASE ReceiveClear
  BY <1>11 DEF ReceiveClear, local, Radio, Heard, Switching
<1>12. CASE ReceiveRead
  BY <1>12 DEF ReceiveRead, radio, Radio, Heard, Switching
<1>13. CASE ReadRemaining
  BY <1>13 DEF ReadRemaining, radio, Radio, Heard, Switching
<1>14. CASE ClearRemaining
  BY <1>14 DEF ClearRemaining, local, Radio, Heard, Missed, High, Switching
<1>15. CASE Slot
  BY <1>15 DEF Slot, StartRx, radio, Radio, Heard, Missed, High, Switching
<1>16. CASE RxIdle \/ RxClear
  BY <1>16 DEF RxIdle, RxClear, local, Radio, Heard, Switching
<1>17. CASE RxMap
  BY <1>17 DEF RxMap, local, Radio, Heard, Switching
<1>18. CASE RxMode
  BY <1>0, <1>18 DEF RxMode, local, Radio, Heard, Missed, High, Switching
<1>19. CASE TxIdle \/ TxClear
  BY <1>19 DEF TxIdle, TxClear, local, Radio, Heard, Switching
<1>20. CASE TxMap
  BY <1>20 DEF TxMap, local, Radio, Heard, Switching
<1>21. CASE TxStart
  BY <1>21 DEF TxStart, local, Radio, Heard, Missed, High, Switching
<1> QED BY <1>1, <1>3, <1>4, <1>5, <1>6, <1>7, <1>8, <1>9, <1>10, <1>11, <1>12, <1>13, <1>14, <1>15,
           <1>16, <1>17, <1>18, <1>19, <1>20, <1>21 DEF Next, Task

LEMMA RestInit == Init => RestInv
BY DEF Init, RestInv, Radio, Heard, Switching

(* However packets, ends of transmissions and ticks fall between the task's  *)
(* accesses to the chip, and however often the loop's guard has run out, a   *)
(* node at rest is not in standby and has missed no edge of DIO0.            *)
THEOREM NotDeaf == Spec => []NeverDeaf
<1>1. TypeOK /\ RestInv => NeverDeaf
  BY DEF TypeOK, RestInv, Radio, Heard, Missed, NeverDeaf, AtRest, High, Switching
<1> QED BY RestInit, RestStep, TypeCorrect, <1>1, PTL DEF Spec

-----------------------------------------------------------------------------
(* The packet                                                              *)

LEMMA ReadingStep == TypeOK /\ RestInv /\ Reading /\ [Next]_vars => Reading'
<1> SUFFICES ASSUME TypeOK, RestInv, Reading, [Next]_vars PROVE Reading'
  OBVIOUS
<1>0. Radio /\ Heard /\ guard \in Nat /\ GuardMax \in Nat \ {0}
  BY NodeAssumption DEF RestInv, TypeOK
<1>1. CASE UNCHANGED vars
  BY <1>1 DEF vars, radio, local, ghost, Reading
<1>2. ASSUME NEW p \in Packets, PacketEnds(p)
      PROVE  Reading'
  <2>1. CASE AtRest /\ irq = {} /\ p.intact
    <3>1. mode' = "rx" /\ dio = "RxDone" /\ dio' = dio /\ irq' = {"RxDone"} /\ pc' = "wait"
      BY <1>0, <1>2, <2>1 DEF PacketEnds, Radio, AtRest
    <3>2. "dio" \in bits'
      BY <1>2, <2>1, <3>1 DEF PacketEnds, Interrupt, High
    <3> QED BY <3>1, <3>2 DEF Reading
  <2>2. CASE ~(AtRest /\ irq = {} /\ p.intact)
    <3>1. ~unread'
      BY <1>2, <2>2 DEF PacketEnds
    <3> QED BY <3>1 DEF Reading
  <2> QED BY <2>1, <2>2
<1>3. CASE TransmissionEnds
  <2>1. ~unread'
    BY <1>3 DEF TransmissionEnds, ghost, Reading
  <2> QED BY <2>1 DEF Reading
<1>4. CASE TickDue \/ SlotTick
  BY <1>4 DEF TickDue, SlotTick, radio, local, ghost, Reading
<1>5. CASE NotifyWait
  BY <1>0, <1>5 DEF NotifyWait, AfterWait, radio, Reading
<1>6. CASE Level
  <2>1. unread => dio = "RxDone"
    BY <1>0 DEF Radio, Reading
  <2> QED BY <1>0, <1>6, <2>1 DEF Level, High, radio, ghost, Reading
<1>7. CASE ReadIrq \/ RxDone
  BY <1>7 DEF ReadIrq, RxDone, radio, ghost, Reading
<1>8. CASE ReceiveClear
  BY <1>8 DEF ReceiveClear, local, ghost, Reading
<1>9. CASE ReceiveRead
  BY <1>9 DEF ReceiveRead, Reading
<1>10. CASE \/ TxDone \/ ReadRemaining \/ ClearRemaining \/ Slot
            \/ RxIdle \/ RxClear \/ RxMap \/ RxMode \/ TxIdle \/ TxClear \/ TxMap \/ TxStart
  <2>1. ~unread'
    BY <1>10 DEF TxDone, ReadRemaining, ClearRemaining, Slot, RxIdle, RxClear, RxMap, RxMode, TxIdle,
                 TxClear, TxMap, TxStart, ghost, Reading
  <2> QED BY <2>1 DEF Reading
<1> QED BY <1>1, <1>2, <1>3, <1>4, <1>5, <1>6, <1>7, <1>8, <1>9, <1>10 DEF Next, Task

(* An intact packet that finds the node and the flags at rest is read before *)
(* the node rests again, unless another packet ends meanwhile, whatever else *)
(* is pending with it.                                                       *)
THEOREM PacketNotMissed == Spec => []PacketRead
<1>1. Init => Reading
  BY DEF Init, Reading
<1>2. Reading => PacketRead
  BY DEF Reading, PacketRead, AtRest
<1>3. Spec => [](TypeOK /\ RestInv)
  BY RestInit, RestStep, TypeInit, TypeStep, PTL DEF Spec
<1> QED BY <1>1, <1>2, <1>3, ReadingStep, PTL DEF Spec
=============================================================================
