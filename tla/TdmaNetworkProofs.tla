------------------------- MODULE TdmaNetworkProofs --------------------------
(***************************************************************************)
(* For any number of nodes, any slot and any packet of at most half a      *)
(* slot:                                                                   *)
(*   - the nodes' variables stay in their ranges;                          *)
(*   - a node that follows node 0 stays in step with it, or is one slot    *)
(*     early when it handled a tick with node 0's packet, and only such a  *)
(*     node and the one before it ever transmit together.                  *)
(***************************************************************************)
EXTENDS TdmaNetwork, TLAPS

-----------------------------------------------------------------------------
(* The inductive invariant                                                 *)

\* A packet of node 0 that node n has heard and not yet handled.
Beacon(n) == "dio" \in pending[n] /\ n # 0 /\ rx[n] = 0

\* A node without power does nothing, and without node 0 nobody follows it.
Powered ==
  /\ \A n \in Nodes : n \notin on => pending[n] = {} /\ air[n] = 0
  /\ \A n \in Nodes : hears[n] \subseteq on \ {n}
  /\ 0 \notin on => synced = {} /\ \A n \in Nodes : ~Beacon(n)

\* The tick that starts a packet starts a slot: the time left of both agree,
\* and the packet is over well before the next tick.
OwnPacket ==
  \A n \in Nodes :
    /\ "tick" \in pending[n] => wait[n] = Slot /\ air[n] = 0
    /\ air[n] > 0 =>
         wait[n] = Slot - Airtime - 1 + air[n] /\ slot[n] = (n + 1) % NumNodes

\* A node does not hear during its own packet, at most at its end, when the
\* other one has just begun.
Hearing ==
  \A k \in Nodes : \A m \in hears[k] :
    air[k] > 0 /\ (air[m] > 0 => air[m] = 1 /\ air[k] = Airtime + 1)

\* At the end of the packet of node 0, until its hearers have handled it.
BeaconFresh ==
  \A n \in Nodes :
    Beacon(n) => /\ wait[0] = Slot - Airtime /\ slot[0] = 1
                 /\ "tick" \notin pending[0] /\ air[0] = 0 /\ air[n] = 0

\* The slot of n, counting the tick that n has not handled yet.
Due(n) == IF "tick" \in pending[n] THEN (slot[n] + 1) % NumNodes ELSE slot[n]

\* The slot that n counts when node 0 counts s.
Counted(n, s) == IF n \in astray THEN (s + 1) % NumNodes ELSE s

\* A synchronised node begins its slots at the end of the packet that node 0
\* may send in the same slot: it is one slot behind during that time.
Level(n) == wait[n] = wait[0] + Airtime /\ Due(n) = Counted(n, Due(0))
Behind(n) == wait[n] + Slot = wait[0] + Airtime /\ Counted(n, Due(0)) = (Due(n) + 1) % NumNodes

Phase == \A n \in synced : Level(n) \/ Behind(n)

Inv == TypeOK /\ Powered /\ OwnPacket /\ Hearing /\ BeaconFresh /\ Phase

-----------------------------------------------------------------------------
(* Slots                                                                   *)

LEMMA NextSlot ==
  ASSUME NEW s \in Nodes
  PROVE  /\ (s + 1) % NumNodes \in Nodes
         /\ (s + 1) % NumNodes = IF s + 1 = NumNodes THEN 0 ELSE s + 1
<1>1. CASE s + 1 = NumNodes
  BY <1>1, NetworkAssumption DEF Nodes
<1>2. CASE s + 1 # NumNodes
  <2>1. s + 1 \in Nat /\ s + 1 < NumNodes
    BY <1>2, NetworkAssumption DEF Nodes
  <2>2. (s + 1) % NumNodes = s + 1
    BY <2>1, NetworkAssumption
  <2> QED BY <1>2, <2>1, <2>2, NetworkAssumption DEF Nodes
<1> QED BY <1>1, <1>2

LEMMA FirstSlots == 0 \in Nodes /\ 1 \in Nodes /\ 1 % NumNodes = 1
BY NetworkAssumption DEF Nodes

LEMMA SlotNowType == TypeOK => \A n \in Nodes : SlotNow(n) \in Nodes
BY FirstSlots DEF TypeOK, SlotNow

\* The slot of a node, pending tick included, is a slot.
LEMMA DueType == TypeOK => \A n \in Nodes : Due(n) \in Nodes
BY NextSlot DEF TypeOK, Due

-----------------------------------------------------------------------------
(* Types and power                                                         *)

Base == TypeOK /\ Powered

LEMMA BaseInit == Init => Base
<1>1. Slot \in 0 .. Slot /\ 0 \in 0 .. Airtime + 1
  BY NetworkAssumption
<1> QED BY <1>1, FirstSlots DEF Init, Base, TypeOK, Powered, Beacon

LEMMA BaseStep == Base /\ [Next]_vars => Base'
<1> SUFFICES ASSUME Base, [Next]_vars PROVE Base'
  OBVIOUS
<1> USE NetworkAssumption, FirstSlots DEF Base
<1>1. CASE UNCHANGED vars
  BY <1>1 DEF vars, TypeOK, Powered, Beacon
<1>2. CASE Tick
  <2>1. wait' \in [Nodes -> 0 .. Slot] /\ air' \in [Nodes -> 0 .. Airtime + 1]
    BY <1>2 DEF Tick, TypeOK
  <2>2. TypeOK'
    BY <1>2, <2>1 DEF Tick, TypeOK
  <2>3. Powered'
    BY <1>2 DEF Tick, TypeOK, Powered, Beacon
  <2> QED BY <2>2, <2>3
<1>3. ASSUME NEW n \in Nodes, Boot(n)
      PROVE  Base'
  <2>1. TypeOK'
    BY <1>3 DEF Boot, TypeOK
  <2>2. Powered'
    BY <1>3 DEF Boot, TypeOK, Powered, Beacon
  <2> QED BY <2>1, <2>2
<1>4. ASSUME NEW n \in Nodes, PowerOff(n)
      PROVE  Base'
  <2>1. TypeOK'
    BY <1>4 DEF PowerOff, TypeOK
  <2>2. Powered'
    BY <1>4 DEF PowerOff, TypeOK, Powered, Beacon
  <2> QED BY <2>1, <2>2
<1>5. ASSUME NEW n \in Nodes, SlotTick(n)
      PROVE  Base'
  <2>1. TypeOK'
    BY <1>5 DEF SlotTick, TypeOK
  <2>2. Powered'
    BY <1>5 DEF SlotTick, TypeOK, Powered, Beacon
  <2> QED BY <2>1, <2>2
<1>6. ASSUME NEW n \in Nodes, PacketEnds(n)
      PROVE  Base'
  <2>1. TypeOK'
    BY <1>6 DEF PacketEnds, TypeOK
  <2>2. n \in on /\ hears[n] \subseteq on
    BY <1>6 DEF PacketEnds, TypeOK, Powered
  <2>3. Powered'
    BY <1>6, <2>2 DEF PacketEnds, TypeOK, Powered, Beacon
  <2> QED BY <2>1, <2>3
<1>7. ASSUME NEW n \in Nodes, Handle(n)
      PROVE  Base'
  <2>1. n \in on
    BY <1>7 DEF Handle, Powered
  <2>2. /\ slot' \in [Nodes -> Nodes]
        /\ air' \in [Nodes -> 0 .. Airtime + 1]
        /\ hears' \in [Nodes -> SUBSET Nodes]
        /\ \A m \in Nodes \ {n} : air'[m] = air[m]
        /\ \A m \in Nodes : hears'[m] \subseteq on \ {m}
    <3>1. slot' \in [Nodes -> Nodes]
      BY <1>7, NextSlot, SlotNowType DEF Handle, TypeOK
    <3>2. CASE StartsSending(n)
      BY <3>1, <3>2, <2>1 DEF StartsSending, TypeOK, Powered
    <3>3. CASE UNCHANGED <<air, hears>>
      BY <3>1, <3>3 DEF TypeOK, Powered
    <3>4. CASE n \in Transmitting /\ KeepsReceiving(n)
      BY <3>1, <3>4 DEF KeepsReceiving, TypeOK, Powered
    <3> QED BY <1>7, <3>2, <3>3, <3>4 DEF Handle, KeepsReceiving
  <2>3. TypeOK'
    BY <1>7, <2>1, <2>2 DEF Handle, Records, TypeOK, Syncs
  <2>4. synced' = synced \/ (synced' = synced \cup {n} /\ Beacon(n))
    BY <1>7 DEF Handle, Records, Syncs, Beacon
  <2>5. Powered'
    BY <1>7, <2>1, <2>2, <2>4 DEF Handle, TypeOK, Powered, Beacon
  <2> QED BY <2>3, <2>5
<1> QED BY <1>1, <1>2, <1>3, <1>4, <1>5, <1>6, <1>7 DEF Next, Node

(* Ranges: the timers never run below zero, a packet never outlasts its      *)
(* airtime, and only nodes that are on follow node 0.                        *)
THEOREM TypeCorrect == Spec => []TypeOK
<1>1. Spec => []Base
  BY BaseInit, BaseStep, PTL DEF Spec
<1>2. Base => TypeOK
  BY DEF Base
<1> QED BY <1>1, <1>2, PTL

-----------------------------------------------------------------------------
(* The handling of what is pending                                         *)

\* What it can be.
Sends(n) ==
  /\ "tick" \in pending[n] /\ ~Beacon(n) /\ slot[n] = n
  /\ slot' = [slot EXCEPT ![n] = (slot[n] + 1) % NumNodes]
  /\ StartsSending(n)
  /\ UNCHANGED <<wait, synced, astray>>
GoesOn(n) ==
  /\ "tick" \in pending[n] /\ ~Beacon(n) /\ slot[n] # n
  /\ slot' = [slot EXCEPT ![n] = (slot[n] + 1) % NumNodes]
  /\ UNCHANGED <<wait, air, hears, synced, astray>>
Follows(n) ==
  /\ "tick" \notin pending[n] /\ Beacon(n)
  /\ slot' = [slot EXCEPT ![n] = 1]
  /\ wait' = [wait EXCEPT ![n] = Slot]
  /\ synced' = synced \cup {n}
  /\ astray' = astray \ {n}
  /\ UNCHANGED <<air, hears>>
Strays(n) ==
  /\ "tick" \in pending[n] /\ Beacon(n)
  /\ slot' = [slot EXCEPT ![n] = (1 + 1) % NumNodes]
  /\ wait' = [wait EXCEPT ![n] = Slot]
  /\ synced' = synced \cup {n}
  /\ astray' = astray \cup {n}
  /\ IF n = 1 THEN StartsSending(n) ELSE UNCHANGED <<air, hears>>
Ignores(n) ==
  /\ "tick" \notin pending[n] /\ ~Beacon(n)
  /\ UNCHANGED <<slot, wait, synced, astray, air, hears>>

LEMMA HandleOne ==
  ASSUME Inv, NEW n \in Nodes, Handle(n)
  PROVE  /\ Sends(n) \/ GoesOn(n) \/ Follows(n) \/ Strays(n) \/ Ignores(n)
         /\ pending' = [pending EXCEPT ![n] = {}]
         /\ rx' = [rx EXCEPT ![n] = n]
         /\ UNCHANGED on
         /\ n \in on
<1>1. n \in on
  BY DEF Handle, Inv, Powered
<1>2. Syncs(n) <=> Beacon(n)
  BY DEF Syncs, Beacon
<1>3. slot \in [Nodes -> Nodes]
  BY DEF Inv, TypeOK
<1>4. CASE "tick" \in pending[n]
  <2>1. n \notin Transmitting
    BY <1>4 DEF Inv, OwnPacket, Transmitting
  <2>2. CASE Beacon(n)
    BY <1>1, <1>2, <1>4, <2>1, <2>2, FirstSlots DEF Handle, Records, Strays, SlotNow, KeepsReceiving
  <2>3. CASE ~Beacon(n)
    BY <1>1, <1>2, <1>4, <2>1, <2>3 DEF Handle, Records, Sends, GoesOn, SlotNow, KeepsReceiving
  <2> QED BY <2>2, <2>3
<1>5. CASE "tick" \notin pending[n]
  <2>1. CASE Beacon(n)
    BY <1>1, <1>2, <1>5, <2>1, FirstSlots DEF Handle, Records, Follows, SlotNow
  <2>2. CASE ~Beacon(n)
    BY <1>1, <1>2, <1>3, <1>5, <2>2 DEF Handle, Records, Ignores, SlotNow
  <2> QED BY <2>1, <2>2
<1> QED BY <1>4, <1>5

LEMMA OwnPacketStep ==
  ASSUME Inv, [Next]_vars
  PROVE  OwnPacket'
<1> USE NetworkAssumption
<1>1. TypeOK /\ Powered /\ OwnPacket /\ Hearing
  BY DEF Inv
<1>2. CASE UNCHANGED vars
  BY <1>1, <1>2 DEF vars, OwnPacket
<1>3. CASE Tick
  BY <1>1, <1>3 DEF Tick, TypeOK, Powered, OwnPacket
<1>4. ASSUME NEW n \in Nodes, Boot(n) \/ PowerOff(n)
      PROVE  OwnPacket'
  BY <1>1, <1>4 DEF Boot, PowerOff, TypeOK, Powered, OwnPacket
<1>5. ASSUME NEW n \in Nodes, SlotTick(n)
      PROVE  OwnPacket'
  <2>1. air[n] = 0
    BY <1>1, <1>5 DEF SlotTick, TypeOK, OwnPacket
  <2> QED BY <1>1, <1>5, <2>1 DEF SlotTick, TypeOK, OwnPacket
<1>6. ASSUME NEW n \in Nodes, PacketEnds(n)
      PROVE  OwnPacket'
  BY <1>1, <1>6 DEF PacketEnds, TypeOK, OwnPacket
<1>7. ASSUME NEW n \in Nodes, Handle(n)
      PROVE  OwnPacket'
  <2> HIDE NetworkAssumption
  <2>1. /\ Sends(n) \/ GoesOn(n) \/ Follows(n) \/ Strays(n) \/ Ignores(n)
        /\ pending' = [pending EXCEPT ![n] = {}]
    BY <1>7, HandleOne
  <2>2. CASE StartsSending(n) /\ (Sends(n) \/ (Strays(n) /\ n = 1))
    <3>1. /\ wait'[n] = Slot /\ slot'[n] = (n + 1) % NumNodes
          /\ \A m \in Nodes \ {n} : wait'[m] = wait[m] /\ slot'[m] = slot[m]
      BY <1>1, <2>2 DEF Sends, Strays, TypeOK, OwnPacket
    <3>2. air'[n] = Airtime + 1 /\ pending'[n] = {}
      BY <1>1, <2>1, <2>2 DEF StartsSending, TypeOK
    <3>3. wait'[n] = Slot - Airtime - 1 + air'[n]
      BY <3>1, <3>2, NetworkAssumption
    <3>4. ASSUME NEW m \in Nodes \ {n}
          PROVE  air'[m] = air[m] /\ pending'[m] = pending[m]
      BY <1>1, <2>1, <2>2 DEF StartsSending, TypeOK
    <3> QED BY <1>1, <3>1, <3>2, <3>3, <3>4 DEF OwnPacket
  <2>3. CASE GoesOn(n)
    BY <1>1, <2>1, <2>3 DEF GoesOn, TypeOK, OwnPacket
  <2>4. CASE UNCHANGED <<air, hears>> /\ (Follows(n) \/ Strays(n))
    <3>1. air[n] = 0
      BY <2>4 DEF Follows, Strays, Inv, BeaconFresh
    <3>2. /\ pending'[n] = {} /\ air' = air
          /\ \A m \in Nodes \ {n} : wait'[m] = wait[m] /\ slot'[m] = slot[m] /\ pending'[m] = pending[m]
      BY <1>1, <2>1, <2>4 DEF Follows, Strays, TypeOK
    <3> QED BY <1>1, <3>1, <3>2 DEF OwnPacket
  <2>5. CASE Ignores(n)
    BY <1>1, <2>1, <2>5 DEF Ignores, TypeOK, OwnPacket
  <2>6. Strays(n) => (StartsSending(n) /\ n = 1) \/ UNCHANGED <<air, hears>>
    BY DEF Strays
  <2> QED BY <2>1, <2>2, <2>3, <2>4, <2>5, <2>6 DEF Sends, Follows
<1> QED BY <1>2, <1>3, <1>4, <1>5, <1>6, <1>7 DEF Next, Node

LEMMA HearingStep ==
  ASSUME Inv, [Next]_vars
  PROVE  Hearing'
<1> USE NetworkAssumption
<1>1. TypeOK /\ Powered /\ OwnPacket /\ Hearing
  BY DEF Inv
<1>2. CASE UNCHANGED vars
  BY <1>1, <1>2 DEF vars, Hearing
<1>3. CASE Tick
  BY <1>1, <1>3 DEF Tick, TypeOK, Powered, Hearing
<1>4. ASSUME NEW n \in Nodes, Boot(n) \/ PowerOff(n)
      PROVE  Hearing'
  BY <1>1, <1>4 DEF Boot, PowerOff, TypeOK, Powered, Hearing
<1>5. ASSUME NEW n \in Nodes, SlotTick(n)
      PROVE  Hearing'
  BY <1>1, <1>5 DEF SlotTick, TypeOK, Hearing
<1>6. ASSUME NEW n \in Nodes, PacketEnds(n)
      PROVE  Hearing'
  BY <1>1, <1>6 DEF PacketEnds, TypeOK, Powered, Hearing
<1>7. ASSUME NEW n \in Nodes, Handle(n)
      PROVE  Hearing'
  <2>1. StartsSending(n) \/ UNCHANGED <<air, hears>>
    BY <1>7, HandleOne DEF Sends, GoesOn, Follows, Strays, Ignores
  <2>2. CASE UNCHANGED <<air, hears>>
    BY <1>1, <2>2 DEF Hearing
  <2>3. CASE StartsSending(n)
    <3>1. air' = [air EXCEPT ![n] = Airtime + 1]
      BY <2>3 DEF StartsSending
    <3>2. ASSUME NEW m \in hears'[n]
          PROVE  air'[n] > 0 /\ (air'[m] > 0 => air'[m] = 1 /\ air'[n] = Airtime + 1)
      <4>1. m \in on \ {n} /\ Transmitting \subseteq {n}
        BY <1>1, <2>3, <3>2 DEF StartsSending, TypeOK
      <4>2. m \in Nodes /\ ~(air[m] > 1)
        BY <1>1, <4>1 DEF TypeOK, Transmitting
      <4> QED BY <1>1, <3>1, <4>1, <4>2 DEF TypeOK
    <3>3. ASSUME NEW k \in Nodes \ {n}, NEW m \in hears'[k]
          PROVE  air'[k] > 0 /\ (air'[m] > 0 => air'[m] = 1 /\ air'[k] = Airtime + 1)
      <4>1. m \in hears[k] \ {n} /\ m \in Nodes
        BY <1>1, <2>3, <3>3 DEF StartsSending, TypeOK
      <4> QED BY <1>1, <3>1, <4>1 DEF TypeOK, Hearing
    <3> QED BY <3>2, <3>3 DEF Hearing
  <2> QED BY <2>1, <2>2, <2>3
<1> QED BY <1>2, <1>3, <1>4, <1>5, <1>6, <1>7 DEF Next, Node

LEMMA BeaconFreshStep ==
  ASSUME Inv, [Next]_vars
  PROVE  BeaconFresh'
<1>1. TypeOK /\ Powered /\ OwnPacket /\ Hearing /\ BeaconFresh
  BY DEF Inv
<1>2. CASE UNCHANGED vars
  BY <1>1, <1>2 DEF vars, BeaconFresh, Beacon
<1>3. ASSUME Tick \/ \E n \in Nodes : PowerOff(n)
      PROVE  BeaconFresh'
  <2>1. \A m \in Nodes : pending'[m] = {}
    BY <1>1, <1>3 DEF Tick, PowerOff, TypeOK, Powered
  <2> QED BY <2>1 DEF BeaconFresh, Beacon
<1>4. ASSUME NEW n \in Nodes, Boot(n)
      PROVE  BeaconFresh'
  <2>1. \A m \in Nodes : Beacon(m) => n # 0
    BY <1>1, <1>4 DEF Boot, Powered
  <2> QED BY <1>1, <1>4, <2>1, FirstSlots DEF Boot, TypeOK, BeaconFresh, Beacon
<1>5. ASSUME NEW n \in Nodes, SlotTick(n)
      PROVE  BeaconFresh'
  <2>1. \A m \in Nodes : Beacon(m) => n # 0
    BY <1>1, <1>5, NetworkAssumption DEF SlotTick, BeaconFresh
  <2>2. \A m \in Nodes : Beacon(m)' => Beacon(m)
    BY <1>1, <1>5 DEF SlotTick, TypeOK, Beacon
  <2> QED BY <1>1, <1>5, <2>1, <2>2, FirstSlots DEF SlotTick, TypeOK, BeaconFresh
<1>6. ASSUME NEW k \in Nodes, PacketEnds(k)
      PROVE  BeaconFresh'
  <2>1. ASSUME NEW m \in Nodes, m \in hears[k], Beacon(m)'
        PROVE  /\ k = 0 /\ air[k] = 1 /\ air[m] = 0
               /\ wait[0] = Slot - Airtime /\ slot[0] = 1
               /\ "tick" \notin pending[0] /\ 0 \notin hears[k]
    <3>1. k = 0 /\ air[k] = 1
      BY <1>1, <1>6, <2>1 DEF PacketEnds, TypeOK, Beacon
    <3>2. air[m] = 0
      BY <1>1, <2>1, <3>1, NetworkAssumption DEF TypeOK, Hearing
    <3>3. wait[0] = Slot - Airtime
      BY <1>1, <3>1, FirstSlots, NetworkAssumption DEF OwnPacket
    <3>4. slot[0] = 1 /\ "tick" \notin pending[0] /\ 0 \notin hears[k]
      BY <1>1, <3>1, FirstSlots DEF OwnPacket, Powered
    <3> QED BY <3>1, <3>2, <3>3, <3>4
  <2>2. \A m \in Nodes : m \notin hears[k] => (Beacon(m)' <=> Beacon(m))
    BY <1>1, <1>6 DEF PacketEnds, TypeOK, Beacon
  <2>3. /\ UNCHANGED <<wait, slot>>
        /\ \A m \in Nodes : air'[m] = IF m = k THEN 0 ELSE air[m]
        /\ \A m \in Nodes : "tick" \in pending'[m] <=> "tick" \in pending[m]
    BY <1>1, <1>6 DEF PacketEnds, TypeOK
  <2> QED BY <1>1, <2>1, <2>2, <2>3, FirstSlots DEF BeaconFresh
<1>7. ASSUME NEW n \in Nodes, Handle(n)
      PROVE  BeaconFresh'
  <2>1. /\ Sends(n) \/ GoesOn(n) \/ Follows(n) \/ Strays(n) \/ Ignores(n)
        /\ pending' = [pending EXCEPT ![n] = {}]
        /\ rx' = [rx EXCEPT ![n] = n]
    BY <1>7, HandleOne
  <2>2. \A m \in Nodes : Beacon(m)' => Beacon(m) /\ m # n
    BY <1>1, <2>1 DEF TypeOK, Beacon
  <2>3. \A m \in Nodes : Beacon(m) => "tick" \notin pending[0]
    BY <1>1 DEF BeaconFresh
  <2>4. ASSUME NEW m \in Nodes, Beacon(m), m # n
        PROVE  /\ wait'[0] = wait[0] /\ slot'[0] = slot[0]
               /\ air'[0] = air[0] /\ air'[m] = air[m] /\ "tick" \notin pending'[0]
    <3>1. CASE Sends(n)
      <4>1. n # 0
        BY <2>3, <2>4, <3>1 DEF Sends
      <4> QED BY <1>1, <2>1, <2>3, <2>4, <3>1, <4>1, FirstSlots
              DEF Sends, StartsSending, TypeOK
    <3>2. CASE GoesOn(n)
      <4>1. n # 0
        BY <2>3, <2>4, <3>2 DEF GoesOn
      <4> QED BY <1>1, <2>1, <2>3, <2>4, <3>2, <4>1, FirstSlots DEF GoesOn, TypeOK
    <3>3. CASE Follows(n)
      BY <1>1, <2>1, <2>3, <2>4, <3>3, FirstSlots DEF Follows, Beacon, TypeOK
    <3>5. CASE Strays(n)
      <4>1. n # 0
        BY <3>5 DEF Strays, Beacon
      <4> QED BY <1>1, <2>1, <2>3, <2>4, <3>5, <4>1, FirstSlots
              DEF Strays, StartsSending, TypeOK
    <3>4. CASE Ignores(n)
      BY <1>1, <2>1, <2>3, <2>4, <3>4, FirstSlots DEF Ignores, TypeOK
    <3> QED BY <2>1, <3>1, <3>2, <3>3, <3>4, <3>5
  <2> QED BY <1>1, <2>2, <2>4 DEF BeaconFresh
<1> QED BY <1>2, <1>3, <1>4, <1>5, <1>6, <1>7 DEF Next, Node

-----------------------------------------------------------------------------
(* The slots of a node that follows node 0                                 *)

\* To count on by a slot changes nothing of the lead of a node astray.
LEMMA CountedNext ==
  ASSUME NEW n, NEW s \in Nodes
  PROVE  Counted(n, (s + 1) % NumNodes) = (Counted(n, s) + 1) % NumNodes
BY DEF Counted

LEMMA PhaseStep ==
  ASSUME Inv, [Next]_vars
  PROVE  Phase'
<1> USE FirstSlots
<1>1. /\ TypeOK /\ Powered /\ OwnPacket /\ BeaconFresh
      /\ \A n \in synced : n \in Nodes /\ n # 0 /\ n \in on /\ 0 \in on
      /\ \A n \in synced : Level(n) \/ Behind(n)
  BY DEF Inv, Phase, TypeOK, Powered
<1> SUFFICES ASSUME NEW m \in synced'
             PROVE  Level(m)' \/ Behind(m)'
  BY DEF Phase
<1>2. ASSUME m \in synced, m \in astray' <=> m \in astray,
             wait'[m] = wait[m], wait'[0] = wait[0],
             Due(m)' = Due(m), Due(0)' = Due(0)
      PROVE  Level(m)' \/ Behind(m)'
  BY <1>1, <1>2 DEF Level, Behind, Counted
<1>3. CASE UNCHANGED vars
  BY <1>2, <1>3 DEF vars, Due
<1>4. CASE Tick
  <2>1. m \in synced /\ UNCHANGED <<slot, pending, astray>>
    BY <1>4 DEF Tick
  <2>2. wait'[m] = wait[m] - 1 /\ wait'[0] = wait[0] - 1
    BY <1>1, <1>4, <2>1 DEF Tick
  <2>3. Due(m)' = Due(m) /\ Due(0)' = Due(0)
    BY <2>1 DEF Due
  <2>4. wait[m] \in Int /\ wait[0] \in Int
    BY <1>1, <2>1 DEF TypeOK
  <2>5. Counted(m, Due(0))' = Counted(m, Due(0))
    BY <2>1, <2>3 DEF Counted
  <2> QED BY <1>1, <2>1, <2>2, <2>3, <2>4, <2>5, NetworkAssumption DEF Level, Behind
<1>5. ASSUME NEW n \in Nodes, Boot(n)
      PROVE  Level(m)' \/ Behind(m)'
  <2>1. m \in synced /\ n # m /\ n # 0
    BY <1>1, <1>5 DEF Boot
  <2> QED BY <1>1, <1>2, <1>5, <2>1 DEF Boot, TypeOK, Due
<1>6. ASSUME NEW n \in Nodes, PowerOff(n)
      PROVE  Level(m)' \/ Behind(m)'
  <2>1. m \in synced /\ n # m /\ n # 0 /\ (m \in astray' <=> m \in astray)
    BY <1>1, <1>6 DEF PowerOff
  <2> QED BY <1>1, <1>2, <1>6, <2>1 DEF PowerOff, TypeOK, Due
<1>7. ASSUME NEW n \in Nodes, SlotTick(n)
      PROVE  Level(m)' \/ Behind(m)'
  <2>1. /\ m \in synced /\ wait[n] = 0 /\ "tick" \notin pending[n]
        /\ "tick" \in pending'[n] /\ wait'[n] = Slot /\ slot' = slot /\ astray' = astray
        /\ \A k \in Nodes \ {n} : wait'[k] = wait[k] /\ pending'[k] = pending[k]
    BY <1>1, <1>7, NetworkAssumption DEF SlotTick, TypeOK, OwnPacket
  <2>2. Due(n)' = (Due(n) + 1) % NumNodes
    BY <2>1 DEF Due
  <2>3. \A k \in Nodes \ {n} : Due(k)' = Due(k)
    BY <2>1 DEF Due
  <2>4. wait[m] \in 0 .. Slot /\ wait[0] \in 0 .. Slot
    BY <1>1, <2>1 DEF TypeOK
  <2>5. CASE n = m
    <3>1. ~Level(m)
      BY <2>1, <2>4, <2>5, NetworkAssumption DEF Level
    <3>2. Behind(m) /\ wait'[m] = wait[0] + Airtime
      BY <1>1, <2>1, <2>4, <2>5, <3>1, NetworkAssumption DEF Behind
    <3>3. wait'[0] = wait[0] /\ Due(0)' = Due(0)
      BY <1>1, <2>1, <2>3, <2>5
    <3>4. Counted(m, Due(0))' = Counted(m, Due(0))
      BY <2>1, <3>3 DEF Counted
    <3> QED BY <2>2, <2>5, <3>2, <3>3, <3>4 DEF Level, Behind
  <2>6. CASE n = 0
    <3>1. m \in Nodes \ {n}
      BY <1>1, <2>1, <2>6
    <3>2. ~Behind(m)
      BY <2>1, <2>4, <2>6, NetworkAssumption DEF Behind
    <3>3. wait[m] = Airtime /\ Due(m) = Counted(m, Due(0))
      BY <1>1, <2>1, <2>6, <3>2, NetworkAssumption DEF Level
    <3>4. wait'[m] + Slot = wait'[0] + Airtime
      BY <2>1, <2>6, <3>1, <3>3, NetworkAssumption
    <3>5. Counted(m, Due(0))' = (Due(m)' + 1) % NumNodes
      <4>1. Counted(m, Due(0))' = Counted(m, (Due(0) + 1) % NumNodes)
        BY <2>1, <2>2, <2>6 DEF Counted
      <4>2. Counted(m, (Due(0) + 1) % NumNodes) = (Counted(m, Due(0)) + 1) % NumNodes
        BY <1>1, DueType, CountedNext
      <4>3. Due(m)' = Due(m)
        BY <2>3, <3>1
      <4> QED BY <3>3, <4>1, <4>2, <4>3
    <3> QED BY <3>4, <3>5 DEF Behind
  <2>7. CASE n # m /\ n # 0
    BY <1>1, <1>2, <2>1, <2>3, <2>7
  <2> QED BY <2>5, <2>6, <2>7
<1>8. ASSUME NEW n \in Nodes, PacketEnds(n)
      PROVE  Level(m)' \/ Behind(m)'
  <2>1. m \in synced /\ UNCHANGED <<wait, slot, astray>>
    BY <1>8 DEF PacketEnds
  <2>2. \A k \in Nodes : "tick" \in pending'[k] <=> "tick" \in pending[k]
    BY <1>1, <1>8 DEF PacketEnds, TypeOK
  <2> QED BY <1>1, <1>2, <2>1, <2>2 DEF Due
<1>9. ASSUME NEW n \in Nodes, Handle(n)
      PROVE  Level(m)' \/ Behind(m)'
  <2>1. /\ Sends(n) \/ GoesOn(n) \/ Follows(n) \/ Strays(n) \/ Ignores(n)
        /\ pending' = [pending EXCEPT ![n] = {}]
    BY <1>9, HandleOne
  <2>2. pending'[n] = {} /\ \A k \in Nodes \ {n} : pending'[k] = pending[k]
    BY <1>1, <2>1 DEF TypeOK
  <2>3. CASE Sends(n) \/ GoesOn(n)
    <3>1. m \in synced /\ wait' = wait /\ astray' = astray
      BY <2>3 DEF Sends, GoesOn
    <3>2. /\ "tick" \in pending[n] /\ slot'[n] = (slot[n] + 1) % NumNodes
          /\ \A k \in Nodes \ {n} : slot'[k] = slot[k]
      BY <1>1, <2>3 DEF Sends, GoesOn, TypeOK
    <3>3. \A k \in Nodes : Due(k)' = Due(k)
      BY <2>2, <3>2 DEF Due
    <3> QED BY <1>1, <1>2, <3>1, <3>3
  <2>4. CASE Ignores(n)
    <3>1. m \in synced /\ UNCHANGED <<wait, slot, astray>> /\ "tick" \notin pending[n]
      BY <2>4 DEF Ignores
    <3>2. \A k \in Nodes : Due(k)' = Due(k)
      BY <2>2, <3>1 DEF Due
    <3> QED BY <1>1, <1>2, <3>1, <3>2
  <2>5. CASE Follows(n) \/ Strays(n)
    <3>1. /\ n # 0 /\ wait[0] = Slot - Airtime /\ slot[0] = 1 /\ "tick" \notin pending[0]
      BY <1>1, <2>5 DEF Follows, Strays, Beacon, BeaconFresh
    <3>2. /\ wait'[n] = Slot
          /\ \A k \in Nodes \ {n} : wait'[k] = wait[k] /\ slot'[k] = slot[k]
          /\ \A k \in Nodes \ {n} : k \in astray' <=> k \in astray
      BY <1>1, <2>5 DEF Follows, Strays, TypeOK
    <3>3. \A k \in Nodes \ {n} : Due(k)' = Due(k)
      BY <2>2, <3>2 DEF Due
    <3>4. CASE m = n
      <4>1. Due(0)' = 1
        BY <2>2, <3>1, <3>2, <3>3, <3>4 DEF Due
      <4>2. wait'[m] = wait'[0] + Airtime
        BY <3>1, <3>2, <3>4, NetworkAssumption
      <4>3. Due(m)' = slot'[n]
        BY <2>2, <3>4 DEF Due
      <4>4. slot'[n] = IF n \in astray' THEN (1 + 1) % NumNodes ELSE 1
        BY <1>1, <2>5 DEF Follows, Strays, TypeOK
      <4>5. Due(m)' = Counted(m, Due(0))'
        BY <3>4, <4>1, <4>3, <4>4 DEF Counted
      <4> QED BY <4>2, <4>5 DEF Level
    <3>5. CASE m # n
      <4>1. m \in synced
        BY <2>5, <3>5 DEF Follows, Strays
      <4> QED BY <1>1, <1>2, <3>1, <3>2, <3>3, <3>5, <4>1
    <3> QED BY <3>4, <3>5
  <2> QED BY <2>1, <2>3, <2>4, <2>5
<1> QED BY <1>3, <1>4, <1>5, <1>6, <1>7, <1>8, <1>9 DEF Next, Node

LEMMA InvInit == Init => Inv
<1>1. Init => Base
  BY BaseInit
<1>2. Init => OwnPacket /\ Hearing /\ BeaconFresh /\ Phase
  BY DEF Init, OwnPacket, Hearing, BeaconFresh, Beacon, Phase
<1> QED BY <1>1, <1>2 DEF Base, Inv

LEMMA InvStep == Inv /\ [Next]_vars => Inv'
<1> SUFFICES ASSUME Inv, [Next]_vars PROVE Inv'
  OBVIOUS
<1>1. TypeOK' /\ Powered'
  BY BaseStep DEF Base, Inv
<1> QED BY <1>1, OwnPacketStep, HearingStep, BeaconFreshStep, PhaseStep DEF Inv

LEMMA AlwaysInv == Spec => []Inv
BY InvInit, InvStep, PTL DEF Spec

-----------------------------------------------------------------------------
(* What follows                                                            *)

LEMMA SameSlot ==
  ASSUME NEW a \in Nodes, NEW b \in Nodes, (a + 1) % NumNodes = (b + 1) % NumNodes
  PROVE  a = b
BY NextSlot, NetworkAssumption DEF Nodes

LEMMA Before ==
  ASSUME NEW s \in Nodes
  PROVE  \E p \in Nodes : (p + 1) % NumNodes = s
<1>1. CASE s = 0
  <2>1. NumNodes - 1 \in Nodes /\ (NumNodes - 1) + 1 = NumNodes
    BY NetworkAssumption DEF Nodes
  <2> QED BY <1>1, <2>1, NextSlot
<1>2. CASE s # 0
  <2>1. s - 1 \in Nodes /\ (s - 1) + 1 = s /\ s # NumNodes
    BY <1>2, NetworkAssumption DEF Nodes
  <2> QED BY <2>1, NextSlot
<1> QED BY <1>1, <1>2

LEMMA Apart ==
  ASSUME Inv
  PROVE  NoCollision
<1> USE NetworkAssumption
<1>1. /\ TypeOK /\ OwnPacket
      /\ \A n \in synced : n \in Nodes /\ n # 0 /\ (Level(n) \/ Behind(n))
  BY DEF Inv, TypeOK, Phase
<1>2. ASSUME NEW n \in (synced \cup {0}) \cap Transmitting
      PROVE  /\ n \in Nodes /\ wait[n] \in Int
             /\ wait[n] > Slot - Airtime /\ wait[n] <= Slot
             /\ Due(n) = (n + 1) % NumNodes
  <2>1. n \in Nodes /\ air[n] > 1 /\ air[n] \in Int /\ wait[n] \in 0 .. Slot
    BY <1>1, <1>2 DEF TypeOK, Transmitting
  <2>2. /\ "tick" \notin pending[n]
        /\ wait[n] = Slot - Airtime - 1 + air[n] /\ slot[n] = (n + 1) % NumNodes
    BY <1>1, <2>1 DEF OwnPacket
  <2> QED BY <2>1, <2>2 DEF Due
<1>3. ASSUME NEW n \in synced \cap Transmitting, 0 \in Transmitting
      PROVE  FALSE
  <2>1. /\ wait[n] \in Int /\ wait[n] > Slot - Airtime /\ wait[n] <= Slot
        /\ wait[0] \in Int /\ wait[0] > Slot - Airtime /\ wait[0] <= Slot
    BY <1>2, <1>3
  <2>2. wait[n] = wait[0] + Airtime \/ wait[n] + Slot = wait[0] + Airtime
    BY <1>1, <1>3 DEF Level, Behind
  <2> QED BY <2>1, <2>2
<1>4. ASSUME NEW m \in synced \cap Transmitting, NEW n \in synced \cap Transmitting
      PROVE  OwnSlot(m) = OwnSlot(n)
  <2>1. /\ wait[n] \in Int /\ wait[n] > Slot - Airtime /\ wait[n] <= Slot
        /\ wait[m] \in Int /\ wait[m] > Slot - Airtime /\ wait[m] <= Slot
        /\ wait[0] \in Int
    BY <1>1, <1>2, FirstSlots DEF TypeOK
  <2>2. /\ Due(m) = (m + 1) % NumNodes /\ Due(n) = (n + 1) % NumNodes
        /\ m \in Nodes \ {0} /\ n \in Nodes \ {0} /\ Due(0) \in Nodes
    BY <1>1, <1>2, DueType, FirstSlots
  <2>3. (Level(m) /\ Level(n)) \/ (Behind(m) /\ Behind(n))
    <3>1. ~(wait[m] = wait[0] + Airtime /\ wait[n] + Slot = wait[0] + Airtime)
      BY <2>1
    <3>2. ~(wait[n] = wait[0] + Airtime /\ wait[m] + Slot = wait[0] + Airtime)
      BY <2>1
    <3> QED BY <1>1, <3>1, <3>2 DEF Level, Behind
  <2>4. PICK s \in Nodes : Counted(m, s) = (m + 1) % NumNodes /\ Counted(n, s) = (n + 1) % NumNodes
    <3>1. CASE Level(m) /\ Level(n)
      BY <2>2, <3>1 DEF Level
    <3>2. CASE Behind(m) /\ Behind(n)
      <4>1. /\ Counted(m, Due(0)) = (((m + 1) % NumNodes) + 1) % NumNodes
            /\ Counted(n, Due(0)) = (((n + 1) % NumNodes) + 1) % NumNodes
        BY <2>2, <3>2 DEF Behind
      <4>2. PICK s \in Nodes : (s + 1) % NumNodes = Due(0)
        BY <2>2, Before
      <4>3. /\ Counted(m, s) \in Nodes /\ (Counted(m, s) + 1) % NumNodes = (((m + 1) % NumNodes) + 1) % NumNodes
            /\ Counted(n, s) \in Nodes /\ (Counted(n, s) + 1) % NumNodes = (((n + 1) % NumNodes) + 1) % NumNodes
        BY <4>1, <4>2, CountedNext, NextSlot DEF Counted
      <4>4. (m + 1) % NumNodes \in Nodes /\ (n + 1) % NumNodes \in Nodes
        BY <2>2, NextSlot
      <4> QED BY <4>3, <4>4, SameSlot
    <3> QED BY <2>3, <3>1, <3>2
  <2>5. ASSUME NEW k \in {m, n}
        PROVE  OwnSlot(k) \in Nodes /\ s = (OwnSlot(k) + 1) % NumNodes
    <3>1. k \in Nodes \ {0} /\ Counted(k, s) = (k + 1) % NumNodes
      BY <2>2, <2>4
    <3>2. CASE k \in astray
      <4>1. (s + 1) % NumNodes = (k + 1) % NumNodes
        BY <3>1, <3>2 DEF Counted
      <4>2. s = k /\ k - 1 \in Nodes
        BY <3>1, <4>1, SameSlot DEF Nodes
      <4>3. k = ((k - 1) + 1) % NumNodes
        BY <3>1 DEF Nodes
      <4> QED BY <3>2, <4>2, <4>3 DEF OwnSlot
    <3>3. CASE k \notin astray
      BY <3>1, <3>3 DEF Counted, OwnSlot
    <3> QED BY <3>2, <3>3
  <2> QED BY <2>5, SameSlot
<1> QED BY <1>1, <1>3, <1>4 DEF NoCollision

\* Slots from one number to another.
LEMMA SlotsUntil ==
  ASSUME NEW n \in Nodes, NEW s \in Nodes
  PROVE  (n - s) % NumNodes = IF s <= n THEN n - s ELSE n - s + NumNodes
BY NetworkAssumption DEF Nodes

\* Full turns do not count.
LEMMA TurnsAside ==
  ASSUME NEW n \in Nodes, NEW x \in {n, n - NumNodes}
  PROVE  (x * Slot) % Frame = (n * Slot) % Frame
<1>1. /\ n \in Nat /\ n <= NumNodes - 1 /\ NumNodes \in Nat
      /\ Slot \in Nat /\ Slot > 0
  BY NetworkAssumption DEF Nodes
<1> DEFINE a == n * Slot
           f == NumNodes * Slot
<1>2. a \in Nat /\ f \in Nat /\ a < f /\ (n - NumNodes) * Slot = a - f
  <2>1. a \in Nat /\ f \in Nat
    BY <1>1
  <2>2. (NumNodes - 1) * Slot = f - Slot /\ n * Slot <= (NumNodes - 1) * Slot
    BY <1>1
  <2>3. (n - NumNodes) * Slot = a - f
    BY <1>1
  <2> QED BY <1>1, <2>1, <2>2, <2>3
<1> HIDE DEF a, f
<1>3. a % f = a /\ (a - f) % f = a
  BY <1>2
<1>4. x * Slot = a \/ x * Slot = a - f
  BY <1>2 DEF a
<1> QED BY <1>3, <1>4 DEF a, f, Frame

LEMMA Together ==
  ASSUME Inv
  PROVE  InStep
<1> USE NetworkAssumption
<1>1. /\ TypeOK
      /\ \A n \in synced : n \in Nodes /\ n # 0 /\ (Level(n) \/ Behind(n))
  BY DEF Inv, TypeOK, Phase
<1> SUFFICES ASSUME NEW n \in synced, pending[0] = {}, pending[n] = {}
             PROVE  (UntilOwnSlot(n) - UntilOwnSlot(0) - Airtime) % Frame
                      = (OwnSlot(n) * Slot) % Frame
  BY DEF InStep
<1> DEFINE own == (n - slot[n]) % NumNodes
           base == (0 - slot[0]) % NumNodes
           k == OwnSlot(n)
<1>2. /\ n \in Nodes \ {0} /\ 0 \in Nodes /\ slot[n] \in Nodes /\ slot[0] \in Nodes
      /\ wait[n] \in Int /\ wait[0] \in Int
  BY <1>1, FirstSlots DEF TypeOK
<1>3. /\ Due(n) = slot[n] /\ Due(0) = slot[0]
  BY DEF Due
<1>4. /\ own = IF slot[n] <= n THEN n - slot[n] ELSE n - slot[n] + NumNodes
      /\ base = IF slot[0] = 0 THEN 0 ELSE NumNodes - slot[0]
  <2>1. own = IF slot[n] <= n THEN n - slot[n] ELSE n - slot[n] + NumNodes
    BY <1>2, SlotsUntil
  <2>2. base = IF slot[0] <= 0 THEN 0 - slot[0] ELSE 0 - slot[0] + NumNodes
    BY <1>2, SlotsUntil
  <2> QED BY <1>2, <2>1, <2>2 DEF Nodes
<1>5. k \in Nodes /\ k = IF n \in astray THEN n - 1 ELSE n
  BY <1>2 DEF OwnSlot, Nodes
<1>6. Counted(n, slot[0]) = IF n \in astray THEN IF slot[0] + 1 = NumNodes THEN 0 ELSE slot[0] + 1
                                             ELSE slot[0]
  BY <1>2, NextSlot DEF Counted
<1> HIDE DEF own, base, k
<1>7. own \in Int /\ base \in Int
  BY <1>2, <1>4 DEF Nodes
<1>8. /\ UntilOwnSlot(n) = wait[n] + own * Slot
      /\ UntilOwnSlot(0) = wait[0] + base * Slot
  BY DEF UntilOwnSlot, own, base
<1>9. PICK x \in {k, k - NumNodes} :
        UntilOwnSlot(n) - UntilOwnSlot(0) - Airtime = x * Slot
  <2>1. CASE Level(n)
    <3>1. slot[n] = Counted(n, slot[0])
      BY <1>3, <2>1 DEF Level
    <3>2. own - base \in {k, k - NumNodes}
      BY <1>2, <1>4, <1>5, <1>6, <3>1 DEF Nodes
    <3>3. wait[n] - wait[0] - Airtime = 0
      BY <1>2, <2>1 DEF Level
    <3>4. UntilOwnSlot(n) - UntilOwnSlot(0) - Airtime = (own - base) * Slot
      BY <1>2, <1>7, <1>8, <3>3
    <3> QED BY <3>2, <3>4
  <2>2. CASE Behind(n)
    <3>1. Counted(n, slot[0]) = IF slot[n] + 1 = NumNodes THEN 0 ELSE slot[n] + 1
      BY <1>2, <1>3, <2>2, NextSlot DEF Behind
    <3>2. own - base - 1 \in {k, k - NumNodes}
      BY <1>2, <1>4, <1>5, <1>6, <3>1 DEF Nodes
    <3>3. wait[n] - wait[0] - Airtime = 0 - Slot
      BY <1>2, <2>2 DEF Behind
    <3>4. UntilOwnSlot(n) - UntilOwnSlot(0) - Airtime = (own - base - 1) * Slot
      BY <1>2, <1>7, <1>8, <3>3
    <3> QED BY <3>2, <3>4
  <2> QED BY <1>1, <2>1, <2>2
<1>10. (x * Slot) % Frame = (k * Slot) % Frame
  BY <1>5, <1>9, TurnsAside
<1> QED BY <1>9, <1>10 DEF k

(* A node that follows node 0 begins its slot n slots after the end of each  *)
(* packet of node 0, to the unit, for any number of nodes: the restart of    *)
(* the slot timer on reception makes up for the packet's time on the air,    *)
(* whichever of the packet's end and the node's own tick is handled first.   *)
(* Handled together, they make it one slot early, until the next packet that *)
(* it handles alone.                                                         *)
THEOREM StaysInStep == Spec => []InStep
<1>1. Inv => InStep
  BY Together
<1> QED BY <1>1, AlwaysInv, PTL

(* Node 0 and the nodes that follow it never transmit at the same time,      *)
(* whoever is switched on and off meanwhile and whatever other nodes send,   *)
(* but for a node that is one slot early and the one it precedes.            *)
THEOREM SlotsKeptApart == Spec => []NoCollision
<1>1. Inv => NoCollision
  BY Apart
<1> QED BY <1>1, AlwaysInv, PTL
=============================================================================
