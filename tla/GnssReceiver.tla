---------------------------- MODULE GnssReceiver ----------------------------
(***************************************************************************)
(* Reception of NMEA sentences in src/src/drivers/atgm336h.c: the task     *)
(* atgm_rx_task, which takes events from a queue and bytes from a ring     *)
(* buffer and puts lines together, and the UART driver that fills both.    *)
(*                                                                         *)
(* The GNSS module sends sentences of SentenceLen bytes without end.  A    *)
(* byte is its place in the sentence (the first is '$', the last the end   *)
(* of the line), whether bytes were lost between it and the byte that was  *)
(* stored before it, and whether its sentence has been complete so far:    *)
(* that is enough to tell a sentence that was sent from the head of one    *)
(* with the tail of another.                                               *)
(*                                                                         *)
(* The UART driver is external: it puts a burst of bytes in the ring and   *)
(* announces it with an event; when the ring has no room it drops the      *)
(* burst and posts an overflow event (for UART_FIFO_OVF, UART_BUFFER_FULL) *)
(* instead; it drops an event when the queue is full.                      *)
(*                                                                         *)
(* The checksum is left out: the properties say which lines reach it.      *)
(* The names of Init, Next, Spec and TypeOK begin with Rx, so that a       *)
(* module may extend this one and GnssClock, the other half of the driver. *)
(***************************************************************************)
EXTENDS Integers, Sequences

CONSTANTS
  SentenceLen,  \* bytes of a sentence
  MinLine,      \* shortest line that is parsed: 6
  LineMax,      \* ATGM_LINE_MAX_LEN
  BufSize,      \* sizeof(buf)
  RingSize,     \* ATGM_RX_BUF_SIZE
  QueueSize,    \* ATGM_UART_QUEUE_SIZE
  Burst         \* most bytes announced by one event

ASSUME ReceiverAssumption ==
  /\ SentenceLen \in Nat /\ SentenceLen > 2
  /\ MinLine \in 1 .. SentenceLen - 1
  /\ LineMax \in Nat /\ LineMax >= SentenceLen
  /\ BufSize \in Nat \ {0} /\ RingSize \in Nat \ {0}
  /\ QueueSize \in Nat \ {0} /\ Burst \in Nat \ {0}

VARIABLES
  wire,    \* place of the next byte the module sends
  ring,    \* the UART driver's ring buffer
  queue,   \* __uart_queue: sizes of bursts, and overflow events
  rx,      \* atgm_rx_task: "wait", "read", "feed", "flush" or "reset"
  rem,     \* rem: bytes of the current event still to be read
  buf,     \* buf[i .. r - 1]
  line,    \* line[0 .. pos - 1]
  gap,     \* history: bytes were lost after the last one stored
  whole,   \* history: nothing of the arriving sentence has been lost
  stray,   \* history: the ring holds bytes whose event was lost
  torn     \* history: bytes were lost and so was the event that says so

uart == <<wire, ring, queue>>
task == <<rx, rem, buf, line>>
history == <<gap, whole, stray, torn>>
rxVars == <<uart, task, history>>

Bytes == [p : 1 .. SentenceLen, cut : BOOLEAN, whole : BOOLEAN]
Chars == [p : 1 .. SentenceLen, cut : BOOLEAN]  \* of a line, which begins uncut
Overflow == 0

\* The place of the i-th byte from now.
Place(i) == ((wire + i - 2) % SentenceLen) + 1

-----------------------------------------------------------------------------

\* atgm_init flushes the ring and resets the queue before it starts the task:
\* what arrives in between is announced by no event.
RxInit ==
  /\ wire \in 1 .. SentenceLen
  /\ ring = << >> /\ queue = << >>
  /\ rx = "reset" /\ rem = 0 /\ buf = << >> /\ line = << >>
  /\ gap = TRUE /\ whole = FALSE /\ stray = FALSE /\ torn = FALSE

-----------------------------------------------------------------------------
(* The UART driver                                                         *)

Full == Len(queue) = QueueSize
Post(event) == queue' = IF Full THEN queue ELSE Append(queue, event)

\* An event posted now is lost: on a full queue, or in the xQueueReset to come.
Unheard == Full \/ rx = "reset"

\* The sentence of the i-th byte from now is complete so far.
Begun(i) == whole \/ \E j \in 1 .. i : Place(j) = 1
Byte(i) == [p |-> Place(i), cut |-> gap /\ i = 1, whole |-> Begun(i)]

Arrive(n) ==
  /\ Len(ring) + n <= RingSize
  /\ ring' = ring \o [i \in 1 .. n |-> Byte(i)]
  /\ gap' = FALSE /\ whole' = Begun(n)
  /\ Post(n)
  /\ wire' = Place(n + 1)
  /\ stray' = (stray \/ Unheard)
  /\ UNCHANGED <<task, torn>>

Overrun(n) ==
  /\ Len(ring) + n > RingSize
  /\ Post(Overflow)
  /\ wire' = Place(n + 1)
  /\ gap' = TRUE /\ whole' = FALSE
  /\ torn' = (torn \/ Unheard)
  /\ UNCHANGED <<ring, task, stray>>

-----------------------------------------------------------------------------
(* atgm_rx_task                                                            *)

\* xQueueReceive
Receive ==
  /\ rx = "wait" /\ queue # << >>
  /\ queue' = Tail(queue)
  /\ rem' = Head(queue)
  /\ rx' = IF Head(queue) = Overflow THEN "flush" ELSE "read"
  /\ UNCHANGED <<wire, ring, buf, line, history>>

\* The bytes uart_read_bytes returns: as many as are asked for, if it has them.
Taken == LET chunk == IF rem > BufSize THEN BufSize ELSE rem
         IN IF chunk > Len(ring) THEN Len(ring) ELSE chunk

\* Mutant: one read for each event.
ReadOnce ==
  /\ rx = "read"
  /\ buf' = SubSeq(ring, 1, Taken)
  /\ ring' = SubSeq(ring, Taken + 1, Len(ring))
  /\ rem' = 0
  /\ rx' = IF Taken = 0 THEN "wait" ELSE "feed"
  /\ UNCHANGED <<wire, queue, line, history>>

\* uart_read_bytes, once round the loop; r <= 0 ends the event.
Read ==
  /\ rx = "read"
  /\ buf' = SubSeq(ring, 1, Taken)
  /\ ring' = SubSeq(ring, Taken + 1, Len(ring))
  /\ rem' = IF Taken = 0 THEN 0 ELSE rem - Taken
  /\ rx' = IF Taken = 0 THEN "wait" ELSE "feed"
  /\ UNCHANGED <<wire, queue, line, history>>

\* Mutant: the bound of line[] leaves no room for the final NUL.
PutLong(b) ==
  line' = IF b.p = 1 THEN <<[p |-> 1, cut |-> FALSE]>>
          ELSE IF b.p < SentenceLen /\ line # << >> /\ Len(line) < LineMax
          THEN Append(line, [p |-> b.p, cut |-> b.cut])
          ELSE << >>

\* line[] and pos: '$' begins a line, CR or LF ends it, a line too long is
\* dropped.
Put(b) ==
  line' = IF b.p = 1 THEN <<[p |-> 1, cut |-> FALSE]>>
          ELSE IF b.p < SentenceLen /\ line # << >> /\ Len(line) < LineMax - 1
          THEN Append(line, [p |-> b.p, cut |-> b.cut])
          ELSE << >>

\* The loop over the bytes read, once round.
Feed ==
  /\ rx = "feed"
  /\ Put(Head(buf))
  /\ buf' = Tail(buf)
  /\ rx' = IF Tail(buf) # << >> THEN "feed" ELSE IF rem > 0 THEN "read" ELSE "wait"
  /\ UNCHANGED <<uart, rem, history>>

\* uart_flush_input
Flush ==
  /\ rx = "flush"
  /\ ring' = << >>
  /\ rx' = "reset"
  /\ gap' = TRUE /\ whole' = FALSE /\ stray' = FALSE /\ torn' = FALSE
  /\ UNCHANGED <<wire, queue, rem, buf, line>>

\* Mutant: pos is not set to zero.
ResetKeepsLine ==
  /\ rx = "reset"
  /\ queue' = << >>
  /\ rx' = "wait"
  /\ UNCHANGED <<wire, ring, rem, buf, line, history>>

\* xQueueReset and pos = 0.  The events of bytes that came after the flush are
\* lost with the older ones.
Reset ==
  /\ rx = "reset"
  /\ queue' = << >>
  /\ line' = << >>
  /\ rx' = "wait"
  /\ UNCHANGED <<wire, ring, rem, buf, history>>

-----------------------------------------------------------------------------

Task == Receive \/ Read \/ Feed \/ Flush \/ Reset

RxNext ==
  \/ \E n \in 1 .. Burst : Arrive(n) \/ Overrun(n)
  \/ Task

RxSpec == RxInit /\ [][RxNext]_rxVars

-----------------------------------------------------------------------------
(* Properties                                                              *)

(* line[] is never written past its end, its last byte being for the NUL,    *)
(* nor buf past its own.                                                     *)
RxTypeOK ==
  /\ wire \in 1 .. SentenceLen
  /\ ring \in Seq(Bytes) /\ Len(ring) <= RingSize
  /\ queue \in Seq(0 .. Burst) /\ Len(queue) <= QueueSize
  /\ rx \in {"wait", "read", "feed", "flush", "reset"}
  /\ rem \in 0 .. Burst
  /\ buf \in Seq(Bytes) /\ Len(buf) <= BufSize
  /\ line \in Seq(Chars) /\ Len(line) <= LineMax - 1
  /\ gap \in BOOLEAN /\ whole \in BOOLEAN /\ stray \in BOOLEAN /\ torn \in BOOLEAN

\* The byte at hand ends a line that is long enough: atgm_parse_line is called.
Ends == rx = "feed" /\ Head(buf).p = SentenceLen
Parses == Ends /\ Len(line) >= MinLine

\* The line holds a sentence as it was sent, and the byte at hand is its end.
Unbroken(l) == \A i \in 1 .. Len(l) : l[i] = [p |-> i, cut |-> FALSE]
Sound == Len(line) = SentenceLen - 1 /\ Unbroken(line) /\ ~Head(buf).cut

(* What reaches the parser is a whole sentence, never the head of one with   *)
(* the tail of another, unless the notice of an overflow was itself lost:    *)
(* then only the checksum, eight bits, keeps them apart.                     *)
NoSplice == Parses => Sound \/ torn

(* A sentence that arrived complete is parsed when the task comes to its     *)
(* end, whatever the bursts and chunks it came in and whatever was lost      *)
(* before it; and when the task has nothing to do it has come to the end of  *)
(* each, so that the data of atgm_get_data are the latest.                   *)
LatestParsed ==
  /\ Ends /\ Head(buf).whole => Parses /\ Sound
  /\ rx = "wait" /\ queue = << >> /\ ~stray =>
       \A i \in 1 .. Len(ring) : ~(ring[i].p = SentenceLen /\ ring[i].whole)
=============================================================================
