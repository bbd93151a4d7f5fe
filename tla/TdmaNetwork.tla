---------------------------- MODULE TdmaNetwork -----------------------------
(***************************************************************************)
(* NUM_NODES nodes that run the task tdma of                               *)
(* src/src/subsystems/lora_tdma/tdma.c, each built with its MY_NODE_ID, on *)
(* one radio channel.  Each has a slot timer of its own; node 0 gives the  *)
(* time, and the others restart their slots when they receive its packet.  *)
(*                                                                         *)
(* Time is discrete: a slot lasts Slot units, a packet Airtime units, and  *)
(* the timers do not drift.  The handling of the events pending at a node  *)
(* is one step that takes no time (TdmaNode has its interleavings); what   *)
(* remains of them here is the order of the events of one instant, and how *)
(* many of them are pending when the task gets to run.  In step, the tick  *)
(* of a node falls on the end of node 0's packet: the node handles either  *)
(* first, or both in one pass of its loop.  A tick that fires between the  *)
(* wait and the restart of the timer has the effect of that pass.          *)
(*                                                                         *)
(* The channel is external.  A node hears a packet when it received all    *)
(* the time the packet was on the air and no other packet overlapped it.   *)
(***************************************************************************)
EXTENDS Integers, FiniteSets

CONSTANTS
  NumNodes,   \* NUM_NODES
  Slot,       \* TIME_SLOT_US
  Airtime     \* time on the air of one packet

Nodes == 0 .. NumNodes - 1

ASSUME NetworkAssumption ==
  /\ NumNodes \in Nat /\ NumNodes > 1
  /\ Airtime \in Nat \ {0}
  /\ Slot \in Nat /\ 2 * Airtime <= Slot

VARIABLES
  on,       \* nodes that have started
  wait,     \* time to the next tick of the slot timer
  slot,     \* s_current_slot modulo NUM_NODES
  pending,  \* notification bits of the task: "tick", "dio"
  rx,       \* the sender of the packet that raised "dio"
  air,      \* time left of its packet plus 1, or 0 when it receives
  hears,    \* nodes that have heard all of its packet so far
  synced,   \* history: nodes that have followed node 0 since it started
  astray    \* history: those that last did so with a tick pending

vars == <<on, wait, slot, pending, rx, air, hears, synced, astray>>

Transmitting == {n \in on : air[n] > 1}

-----------------------------------------------------------------------------

Init ==
  /\ on = {}
  /\ wait = [n \in Nodes |-> Slot]
  /\ slot = [n \in Nodes |-> 0]
  /\ pending = [n \in Nodes |-> {}]
  /\ rx = [n \in Nodes |-> n]
  /\ air = [n \in Nodes |-> 0]
  /\ hears = [n \in Nodes |-> {}]
  /\ synced = {}
  /\ astray = {}

\* The node is switched on: slot timer started, reception begins.
Boot(n) ==
  /\ n \notin on
  /\ on' = on \cup {n}
  /\ wait' = [wait EXCEPT ![n] = Slot]
  /\ slot' = [slot EXCEPT ![n] = 0]
  /\ UNCHANGED <<pending, rx, air, hears, synced, astray>>

\* It loses power, in the middle of its packet perhaps but not in the middle
\* of a step that takes no time.  When it is node 0, the others are on their
\* own until they hear it again.
PowerOff(n) ==
  /\ n \in on
  /\ \A m \in Nodes : pending[m] = {}
  /\ on' = on \ {n}
  /\ pending' = [pending EXCEPT ![n] = {}]
  /\ rx' = [rx EXCEPT ![n] = n]
  /\ air' = [air EXCEPT ![n] = 0]
  /\ hears' = [m \in Nodes |-> IF m = n THEN {} ELSE hears[m] \ {n}]
  /\ synced' = IF n = 0 THEN {} ELSE synced \ {n}
  /\ astray' = IF n = 0 THEN {} ELSE astray \ {n}
  /\ wait' = [wait EXCEPT ![n] = Slot]
  /\ slot' = [slot EXCEPT ![n] = 0]

-----------------------------------------------------------------------------
(* Events                                                                  *)

\* Mutant: the period is one unit too long.
SlotTickLate(n) ==
  /\ n \in on /\ wait[n] = 0
  /\ pending' = [pending EXCEPT ![n] = @ \cup {"tick"}]
  /\ wait' = [wait EXCEPT ![n] = Slot + 1]
  /\ UNCHANGED <<on, slot, rx, air, hears, synced, astray>>

\* slot_timer_callback; the timer is periodic.
SlotTick(n) ==
  /\ n \in on /\ wait[n] = 0
  /\ pending' = [pending EXCEPT ![n] = @ \cup {"tick"}]
  /\ wait' = [wait EXCEPT ![n] = Slot]
  /\ UNCHANGED <<on, slot, rx, air, hears, synced, astray>>

\* The packet of n is complete: TxDone at n, which returns to reception, and
\* RxDone at the nodes that heard all of it.
PacketEnds(n) ==
  /\ air[n] = 1
  /\ air' = [air EXCEPT ![n] = 0]
  /\ pending' = [m \in Nodes |-> IF m \in hears[n] THEN pending[m] \cup {"dio"}
                                                   ELSE pending[m]]
  /\ rx' = [m \in Nodes |-> IF m \in hears[n] THEN n ELSE rx[m]]
  /\ hears' = [hears EXCEPT ![n] = {}]
  /\ UNCHANGED <<on, wait, slot, synced, astray>>

-----------------------------------------------------------------------------
(* The body of the loop of tdma, for all that xTaskNotifyWait returned      *)

\* Mutant: the number of the node itself is looked for.
SyncsOwn(n) == "dio" \in pending[n] /\ n # 0 /\ rx[n] = n

Syncs(n) == "dio" \in pending[n] /\ n # 0 /\ rx[n] = 0

\* Mutant: the slot that has just gone by, not the next one.
SlotNowLate(n) == IF Syncs(n) THEN 0 ELSE slot[n]

\* s_current_slot when the slot part of the loop reads it.
SlotNow(n) == IF Syncs(n) THEN 1 % NumNodes ELSE slot[n]

\* A new packet spoils those on the air, and is heard by nobody if there is
\* one.  Its sender hears no more of a packet that ends at this instant.
StartsSending(n) ==
  /\ air' = [air EXCEPT ![n] = Airtime + 1]
  /\ hears' = [m \in Nodes |->
                 IF m = n THEN IF Transmitting \subseteq {n} THEN on \ {n} ELSE {}
                 ELSE IF m \in Transmitting THEN {} ELSE hears[m] \ {n}]

\* Reception goes on; a transmission that is not over is cut off.
KeepsReceiving(n) ==
  IF n \in Transmitting
  THEN /\ air' = [air EXCEPT ![n] = 0]
       /\ hears' = [hears EXCEPT ![n] = {}]
  ELSE UNCHANGED <<air, hears>>

\* The slot part then counts a slot more when a tick was pending as well: it
\* belongs to the slots before the restart, which does not cancel it.
Records(n) ==
  /\ synced' = IF Syncs(n) THEN synced \cup {n} ELSE synced
  /\ astray' = IF ~Syncs(n) THEN astray
               ELSE IF "tick" \in pending[n] THEN astray \cup {n} ELSE astray \ {n}

\* Mutant: the slot timer is not restarted.
HandleUnaligned(n) ==
  /\ pending[n] # {}
  /\ pending' = [pending EXCEPT ![n] = {}]
  /\ rx' = [rx EXCEPT ![n] = n]
  /\ Records(n)
  /\ IF "tick" \in pending[n]
     THEN /\ slot' = [slot EXCEPT ![n] = (SlotNow(n) + 1) % NumNodes]
          /\ IF SlotNow(n) = n THEN StartsSending(n) ELSE KeepsReceiving(n)
     ELSE /\ slot' = [slot EXCEPT ![n] = SlotNow(n)]
          /\ UNCHANGED <<air, hears>>
  /\ UNCHANGED <<on, wait>>

\* The DIO0 part, which may restart the slots, then the slot part.
Handle(n) ==
  /\ pending[n] # {}
  /\ pending' = [pending EXCEPT ![n] = {}]
  /\ rx' = [rx EXCEPT ![n] = n]
  /\ wait' = IF Syncs(n) THEN [wait EXCEPT ![n] = Slot] ELSE wait
  /\ Records(n)
  /\ IF "tick" \in pending[n]
     THEN /\ slot' = [slot EXCEPT ![n] = (SlotNow(n) + 1) % NumNodes]
          /\ IF SlotNow(n) = n THEN StartsSending(n) ELSE KeepsReceiving(n)
     ELSE /\ slot' = [slot EXCEPT ![n] = SlotNow(n)]
          /\ UNCHANGED <<air, hears>>
  /\ UNCHANGED on

-----------------------------------------------------------------------------

\* Time passes when nothing is due.
Tick ==
  /\ \A n \in on : wait[n] > 0 /\ air[n] # 1 /\ pending[n] = {}
  /\ wait' = [n \in Nodes |-> IF n \in on THEN wait[n] - 1 ELSE wait[n]]
  /\ air' = [n \in Nodes |-> IF air[n] > 0 THEN air[n] - 1 ELSE 0]
  /\ UNCHANGED <<on, slot, pending, rx, hears, synced, astray>>

Node(n) == SlotTick(n) \/ PacketEnds(n) \/ Handle(n)

Next == Tick \/ \E n \in Nodes : Boot(n) \/ PowerOff(n) \/ Node(n)

Spec == Init /\ [][Next]_vars

\* Time passes, timers and radios go on, and each task gets to run.
FairSpec == Spec /\ WF_vars(Tick) /\ \A n \in Nodes : WF_vars(Node(n))

-----------------------------------------------------------------------------
(* Properties                                                              *)

TypeOK ==
  /\ on \subseteq Nodes /\ synced \subseteq on \ {0} /\ astray \subseteq synced
  /\ wait \in [Nodes -> 0 .. Slot]
  /\ slot \in [Nodes -> Nodes]
  /\ pending \in [Nodes -> SUBSET {"tick", "dio"}]
  /\ rx \in [Nodes -> Nodes]
  /\ air \in [Nodes -> 0 .. Airtime + 1]
  /\ hears \in [Nodes -> SUBSET Nodes]

Frame == NumNodes * Slot

\* Time to the start of the next packet of n, at an instant when nothing is
\* due at n.
UntilOwnSlot(n) == wait[n] + ((n - slot[n]) % NumNodes) * Slot

\* A node that handled a packet of node 0 and a tick in one pass counts one
\* slot too many until it handles another one.
OwnSlot(n) == IF n \in astray THEN n - 1 ELSE n

(* A synchronised node stays in step with node 0: its slot n begins n slots  *)
(* after the end of each packet of node 0, and one slot before that when the *)
(* last packet it followed met a pending tick, although both count their     *)
(* slots with timers of their own and every packet of node 0 ends at a tick  *)
(* of the node.                                                              *)
InStep ==
  \A n \in synced :
    (\A m \in {0, n} : pending[m] = {} /\ wait[m] > 0 /\ air[m] # 1)
      => (UntilOwnSlot(n) - UntilOwnSlot(0) - Airtime) % Frame = (OwnSlot(n) * Slot) % Frame

(* What TDMA is for: node 0 and the nodes synchronised with it do not        *)
(* transmit at the same time; at worst a node astray meets its predecessor.  *)
NoCollision ==
  \A m, n \in (synced \cup {0}) \cap Transmitting :
    m # n => 0 \notin {m, n} /\ OwnSlot(m) = OwnSlot(n)

\* A node transmits before the packet of node 0 is over.
Clash == air[0] > 0 /\ \E m \in Transmitting : m # 0

(* A node that stays on together with node 0 follows it in the end, however  *)
(* often other nodes come and go, unless packets go on to meet those of node *)
(* 0: its own, which it sends in slots of an arbitrary phase and is deaf     *)
(* during, or those of a third node.                                         *)
Synchronises ==
  \A n \in Nodes \ {0} :
    <>[]({0, n} \subseteq on) => []<>(n \in synced \/ Clash)
=============================================================================
