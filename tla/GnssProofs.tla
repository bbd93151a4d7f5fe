----------------------------- MODULE GnssProofs -----------------------------
(***************************************************************************)
(* About GnssReceiver, for every size of sentences, ring, queue and chunks *)
(* and whatever bursts the bytes come in:                                  *)
(*   - line[] and buf are not overrun;                                     *)
(*   - only sentences that were sent reach the parser, unless the notice   *)
(*     of an overflow was lost;                                            *)
(*   - every sentence that arrived complete is parsed.                     *)
(*                                                                         *)
(* About GnssClock, for all timing constants, and without the bounds of    *)
(* the runs on what the receiver leaves out:                               *)
(*   - the ages and counts stay in their ranges;                           *)
(*   - the time is never ahead of UTC while no pulse is missing;           *)
(*   - it is the true time when sentences and pulses are complete;         *)
(*   - its error is bounded, whatever became of the pulses, when the       *)
(*     timeout and a call are less than two seconds together;              *)
(*   - the edge atgm_wait_pps returns is a fresh one.                      *)
(***************************************************************************)
EXTENDS GnssReceiver, GnssClock, TLAPS

-----------------------------------------------------------------------------
(* Reception: GnssReceiver                                                 *)

\* The byte that arrives next, and the bytes on their way to the line with it.
Coming == [p |-> wire, cut |-> gap, whole |-> whole \/ wire = 1]
Stored == Len(buf) + Len(ring)
Stream ==
  [c \in 1 .. Stored + 1 |->
     IF c <= Len(buf) THEN buf[c]
     ELSE IF c <= Stored THEN ring[c - Len(buf)]
     ELSE Coming]

After(p) == IF p = SentenceLen THEN 1 ELSE p + 1
Working == rx \in {"wait", "read", "feed"}

\* A byte before which nothing was lost follows its predecessor in the
\* sentence, and is not the first that is left of a sentence.
Follows(b, d) ==
  /\ ~d.cut => d.p = After(b.p)
  /\ d.whole /\ d.p > 1 => ~d.cut /\ b.whole
Ordered == \A c \in 1 .. Stored : Follows(Stream[c], Stream[c + 1])

\* The line is the beginning of the sentence that the byte at hand goes on with.
Continued ==
  /\ Stream[1].whole /\ Stream[1].p > 1 =>
       ~Stream[1].cut /\ Len(line) = Stream[1].p - 1 /\ Unbroken(line)
  /\ ~torn /\ rx # "reset" => Unbroken(line)
  /\ ~torn /\ Working /\ line # << >> /\ ~Stream[1].cut => Stream[1].p = Len(line) + 1

\* What the task has in hand at each step.
InHand ==
  /\ rx = "feed" <=> buf # << >>
  /\ rx \in {"wait", "flush", "reset"} => rem = 0
  /\ rx = "read" => rem > 0

\* After the flush only what arrives from then on is in the ring.
Flushed ==
  rx = "reset" =>
    /\ Stream[1].cut
    /\ ~stray => ring = << >>
    /\ ~torn => \A c \in 2 .. Stored + 1 : ~Stream[c].cut

\* m[k]: how many of the stored bytes the task has read when it takes event k.
\* Where bytes are missing an overflow event comes before them.
Marks == [1 .. Len(queue) + 1 -> Nat]
Counted(m) ==
  /\ m[1] = Len(buf) + rem
  /\ \A i \in 1 .. Len(queue) : m[i + 1] = m[i] + queue[i]
  /\ m[Len(queue) + 1] <= Stored
  /\ ~stray => m[Len(queue) + 1] = Stored
Rising(m) == \A i, j \in 1 .. Len(queue) + 1 : i <= j => m[i] <= m[j]
Warned(m, c) == \E k \in 1 .. Len(queue) : queue[k] = Overflow /\ m[k] < c
Noticed(m) ==
  ~torn => \A c \in 1 .. Stored + 1 :
             Stream[c].cut => (c = 1 /\ line = << >>) \/ Warned(m, c)
Announced ==
  Working => \E m \in Marks : Counted(m) /\ Rising(m) /\ Noticed(m)

RxInv == RxTypeOK /\ Ordered /\ Continued /\ InHand /\ Flushed /\ Announced

-----------------------------------------------------------------------------

LEMMA Sizes ==
  /\ SentenceLen \in Nat /\ SentenceLen > 2 /\ LineMax \in Nat /\ LineMax >= SentenceLen
  /\ MinLine \in 1 .. SentenceLen - 1 /\ BufSize \in Nat \ {0} /\ RingSize \in Nat \ {0}
  /\ QueueSize \in Nat \ {0} /\ Burst \in Nat \ {0}
BY ReceiverAssumption

LEMMA Division ==
  ASSUME NEW N \in Nat, N > 2, NEW a \in Nat
  PROVE  /\ a = N * (a \div N) + (a % N)
         /\ a \div N \in Int /\ a % N \in 0 .. N - 1
<1>1. a \div N \in Int
  BY Z3
<1>2. a % N \in 0 .. N - 1
  BY Z3
<1>3. a = N * (a \div N) + (a % N)
  BY Z3
<1> QED BY <1>1, <1>2, <1>3

LEMMA Unique ==
  ASSUME NEW N \in Nat, N > 2, NEW q \in Int, NEW d \in Int,
         NEW r \in 0 .. N - 1, NEW s \in 0 .. N - 1, N * q + r = N * d + s
  PROVE  q = d /\ r = s
<1>1. N * (q - d) = s - r
  BY Z3
<1>2. CASE q - d >= 1
  <2>1. N * (q - d) >= N
    BY <1>2, Z3
  <2> QED BY <1>1, <2>1, Z3
<1>3. CASE q - d <= -1
  <2>1. N * (q - d) <= -N
    BY <1>3, Z3
  <2> QED BY <1>1, <2>1, Z3
<1>4. CASE q = d
  BY <1>4, <1>1, Z3
<1> QED BY <1>2, <1>3, <1>4, Z3

LEMMA Successor ==
  ASSUME NEW N \in Nat, N > 2, NEW a \in Nat
  PROVE  (a + 1) % N = IF a % N = N - 1 THEN 0 ELSE (a % N) + 1
<1>1. /\ a = N * (a \div N) + (a % N)
      /\ a \div N \in Int /\ a % N \in 0 .. N - 1
  BY Division
<1>2. /\ a + 1 = N * ((a + 1) \div N) + ((a + 1) % N)
      /\ (a + 1) \div N \in Int /\ (a + 1) % N \in 0 .. N - 1
  BY Division
<1>3. CASE a % N = N - 1
  <2>1. a + 1 = N * (a \div N + 1) + 0
    BY <1>1, <1>3, Z3
  <2>2. a \div N + 1 \in Int /\ 0 \in 0 .. N - 1
    BY <1>1
  <2> DEFINE q == (a + 1) \div N
             d == a \div N + 1
             r == (a + 1) % N
             s == 0
  <2>3. q \in Int /\ d \in Int /\ r \in 0 .. N - 1 /\ s \in 0 .. N - 1 /\ N * q + r = N * d + s
    BY <1>2, <2>1, <2>2
  <2> HIDE DEF q, d, r, s
  <2>4. r = s
    BY <2>3, Unique
  <2>5. r = 0
    BY <2>4 DEF s
  <2> QED BY <1>3, <2>5 DEF r
<1>4. CASE a % N # N - 1
  <2>1. a + 1 = N * (a \div N) + ((a % N) + 1)
    BY <1>1
  <2>2. (a % N) + 1 \in 0 .. N - 1
    BY <1>1, <1>4
  <2>3. (a + 1) % N = (a % N) + 1
    BY <1>1, <1>2, <2>1, <2>2, Unique
  <2> QED BY <1>4, <2>3
<1> QED BY <1>3, <1>4

LEMMA Places ==
  ASSUME wire \in 1 .. SentenceLen
  PROVE  /\ Place(1) = wire
         /\ \A i \in Nat \ {0} : Place(i) \in 1 .. SentenceLen /\ Place(i + 1) = After(Place(i))
<1> USE Sizes
<1>1. Place(1) = wire
  <2>1. wire - 1 \in 0 .. SentenceLen - 1
    OBVIOUS
  <2>2. (wire - 1) % SentenceLen = wire - 1
    BY <2>1, Z3
  <2> QED BY <2>2 DEF Place
<1>2. ASSUME NEW i \in Nat \ {0}
      PROVE  Place(i) \in 1 .. SentenceLen /\ Place(i + 1) = After(Place(i))
  <2> DEFINE a == wire + i - 2
  <2>1. a \in Nat /\ wire + (i + 1) - 2 = a + 1
    OBVIOUS
  <2>2. a % SentenceLen \in 0 .. SentenceLen - 1
    BY <2>1, Division
  <2>3. (a + 1) % SentenceLen = IF a % SentenceLen = SentenceLen - 1 THEN 0 ELSE (a % SentenceLen) + 1
    BY <2>1, Successor
  <2>4. Place(i) = (a % SentenceLen) + 1 /\ Place(i + 1) = ((a + 1) % SentenceLen) + 1
    BY <2>1 DEF Place
  <2> HIDE DEF a
  <2> QED BY <2>2, <2>3, <2>4 DEF After
<1> QED BY <1>1, <1>2

-----------------------------------------------------------------------------

LEMMA Streamed ==
  ASSUME RxTypeOK
  PROVE  /\ Stored \in Nat /\ Len(buf) \in Nat /\ Len(ring) \in Nat
         /\ Stored = Len(buf) + Len(ring) /\ Coming \in Bytes
         /\ Stream \in [1 .. Stored + 1 -> Bytes] /\ Stream[Stored + 1] = Coming
<1>1. Stored \in Nat /\ Len(buf) \in Nat /\ Len(ring) \in Nat /\ Stored = Len(buf) + Len(ring)
  BY DEF RxTypeOK, Stored
<1>2. Coming \in Bytes
  BY DEF RxTypeOK, Coming, Bytes
<1>3. \A c \in 1 .. Len(buf) : buf[c] \in Bytes
  BY DEF RxTypeOK
<1>4. \A c \in 1 .. Len(ring) : ring[c] \in Bytes
  BY DEF RxTypeOK
<1>5. Stream \in [1 .. Stored + 1 -> Bytes]
  BY <1>1, <1>2, <1>3, <1>4 DEF Stream
<1>6. Stream[Stored + 1] = Coming
  BY <1>1 DEF Stream
<1> QED BY <1>1, <1>2, <1>5, <1>6

LEMMA Nothing == ASSUME NEW S PROVE << >> \in Seq(S) /\ Len(<< >>) = 0
OBVIOUS

LEMMA TypeInit == RxInit => RxTypeOK
<1> SUFFICES ASSUME RxInit PROVE RxTypeOK
  OBVIOUS
<1>1. ring \in Seq(Bytes) /\ Len(ring) <= RingSize
  BY Nothing, Sizes DEF RxInit
<1>2. queue \in Seq(0 .. Burst) /\ Len(queue) <= QueueSize
  BY Nothing, Sizes DEF RxInit
<1>3. buf \in Seq(Bytes) /\ Len(buf) <= BufSize
  BY Nothing, Sizes DEF RxInit
<1>4. line \in Seq(Chars) /\ Len(line) <= LineMax - 1
  BY Nothing, Sizes DEF RxInit
<1>5. rem \in 0 .. Burst
  BY Sizes DEF RxInit
<1> QED BY <1>1, <1>2, <1>3, <1>4, <1>5 DEF RxInit, RxTypeOK

LEMMA Placed ==
  ASSUME RxTypeOK, NEW n \in 1 .. Burst
  PROVE  /\ n \in Nat \ {0}
         /\ Place(n + 1) \in 1 .. SentenceLen
         /\ \A i \in 1 .. n : Place(i) \in 1 .. SentenceLen
<1>1. wire \in 1 .. SentenceLen
  BY DEF RxTypeOK
<1>2. \A i \in Nat \ {0} : Place(i) \in 1 .. SentenceLen
  BY <1>1, Places
<1>3. n \in Nat \ {0} /\ n + 1 \in Nat \ {0} /\ 1 .. n \subseteq Nat \ {0}
  BY Sizes
<1> QED BY <1>2, <1>3

LEMMA Posted ==
  ASSUME RxTypeOK, NEW e \in 0 .. Burst, Post(e)
  PROVE  /\ queue' \in Seq(0 .. Burst) /\ Len(queue') <= QueueSize
         /\ ~Full => queue' = Append(queue, e)
         /\ Full => queue' = queue
<1>1. queue \in Seq(0 .. Burst) /\ Len(queue) <= QueueSize /\ QueueSize \in Nat
  BY Sizes DEF RxTypeOK
<1>2. CASE Full
  <2>1. queue' = queue
    BY <1>2 DEF Post
  <2> QED BY <1>1, <1>2, <2>1
<1>3. CASE ~Full
  <2>1. queue' = Append(queue, e)
    BY <1>3 DEF Post
  <2>2. Append(queue, e) \in Seq(0 .. Burst) /\ Len(Append(queue, e)) = Len(queue) + 1
    BY <1>1
  <2>3. Len(queue) + 1 <= QueueSize
    BY <1>1, <1>3 DEF Full
  <2> QED BY <1>3, <2>1, <2>2, <2>3
<1> QED BY <1>2, <1>3

LEMMA Bytewise ==
  ASSUME RxTypeOK, NEW n \in 1 .. Burst
  PROVE  [i \in 1 .. n |-> Byte(i)] \in Seq(Bytes)
<1>1. \A i \in 1 .. n : Begun(i) \in BOOLEAN /\ (gap /\ i = 1) \in BOOLEAN
  BY DEF Begun, RxTypeOK
<1>2. \A i \in 1 .. n : Byte(i) \in Bytes
  BY <1>1, Placed DEF Bytes, Byte
<1> QED BY <1>2, Placed

LEMMA TypeArrive ==
  ASSUME RxTypeOK, NEW n \in 1 .. Burst, Arrive(n)
  PROVE  RxTypeOK'
<1> DEFINE new == [i \in 1 .. n |-> Byte(i)]
<1>1. new \in Seq(Bytes) /\ Len(new) = n /\ n \in Nat
  BY Bytewise, Placed
<1>2. Place(n + 1) \in 1 .. SentenceLen
  BY Placed
<1>3. Begun(n) \in BOOLEAN
  BY DEF Begun, RxTypeOK
<1>5. ring' = ring \o new /\ Len(ring) + n <= RingSize
  BY DEF Arrive
<1>6. ring' \in Seq(Bytes) /\ Len(ring') <= RingSize
  <2> HIDE DEF new
  <2> QED BY <1>1, <1>5, Sizes DEF RxTypeOK
<1>7. queue' \in Seq(0 .. Burst) /\ Len(queue') <= QueueSize
  BY Posted, Sizes DEF Arrive
<1>8. whole' \in BOOLEAN /\ stray' \in BOOLEAN /\ wire' \in 1 .. SentenceLen
  BY <1>2, <1>3, Sizes DEF Arrive, RxTypeOK, Unheard
<1> QED BY <1>6, <1>7, <1>8 DEF Arrive, task, RxTypeOK

LEMMA TypeOverrun ==
  ASSUME RxTypeOK, NEW n \in 1 .. Burst, Overrun(n)
  PROVE  RxTypeOK'
<1>1. wire' \in 1 .. SentenceLen
  BY Placed DEF Overrun
<1>2. queue' \in Seq(0 .. Burst) /\ Len(queue') <= QueueSize
  BY Posted, Sizes DEF Overrun, Overflow
<1>3. torn' \in BOOLEAN
  BY DEF Overrun, RxTypeOK, Unheard
<1> QED BY <1>1, <1>2, <1>3 DEF Overrun, task, RxTypeOK

LEMMA Chunk ==
  ASSUME RxTypeOK
  PROVE  /\ Taken \in Nat /\ Taken <= Len(ring) /\ Taken <= rem /\ Taken <= BufSize
         /\ rem > 0 /\ Len(ring) > 0 => Taken > 0
BY Sizes DEF RxTypeOK, Taken

LEMMA TypeTask ==
  ASSUME RxTypeOK, Task, InHand
  PROVE  RxTypeOK'
<1> USE Sizes
<1>1. CASE Receive
  <2>1. queue' \in Seq(0 .. Burst) /\ Len(queue') <= QueueSize /\ rem' \in 0 .. Burst
    BY <1>1 DEF Receive, RxTypeOK
  <2> QED BY <1>1, <2>1 DEF Receive, RxTypeOK, history
<1>2. CASE Read
  <2>1. buf' \in Seq(Bytes) /\ Len(buf') <= BufSize
    BY <1>2, Chunk DEF Read, RxTypeOK
  <2>2. ring' \in Seq(Bytes) /\ Len(ring') <= RingSize
    <3>1. Taken + 1 \in 1 .. Len(ring) + 1 /\ ring \in Seq(Bytes) /\ Len(ring) <= RingSize
      BY Chunk DEF RxTypeOK
    <3>2. ring' = SubSeq(ring, Taken + 1, Len(ring))
      BY <1>2 DEF Read
    <3> QED BY <3>1, <3>2
  <2>3. rem' \in 0 .. Burst
    BY <1>2, Chunk DEF Read, RxTypeOK
  <2> QED BY <1>2, <2>1, <2>2, <2>3 DEF Read, RxTypeOK, history
<1>3. CASE Feed
  <2>1. buf # << >> /\ Head(buf) \in Bytes /\ buf' \in Seq(Bytes) /\ Len(buf') <= BufSize
    BY <1>3 DEF Feed, RxTypeOK, InHand
  <2>2. [p |-> 1, cut |-> FALSE] \in Chars /\ [p |-> Head(buf).p, cut |-> Head(buf).cut] \in Chars
    BY <2>1 DEF Bytes, Chars
  <2>3. line' \in Seq(Chars) /\ Len(line') <= LineMax - 1
    BY <1>3, <2>2 DEF Feed, Put, RxTypeOK
  <2> QED BY <1>3, <2>1, <2>3 DEF Feed, RxTypeOK, history, uart
<1>4. CASE Flush
  <2>1. ring' \in Seq(Bytes) /\ Len(ring') <= RingSize
    BY <1>4, Nothing DEF Flush
  <2> QED BY <1>4, <2>1 DEF Flush, RxTypeOK
<1>5. CASE Reset
  BY <1>5 DEF Reset, RxTypeOK, history
<1> QED BY <1>1, <1>2, <1>3, <1>4, <1>5 DEF Task

-----------------------------------------------------------------------------

\* The stream before and after each step.
Kept(n) == \A c \in 1 .. n : Stream'[c] = Stream[c]

LEMMA StreamArrive ==
  ASSUME RxTypeOK, NEW n \in 1 .. Burst, Arrive(n)
  PROVE  /\ Stored' = Stored + n
         /\ Kept(Stored + 1)
         /\ \A c \in Stored + 1 .. Stored + n :
              Follows(Stream'[c], Stream'[c + 1]) /\ ~Stream'[c + 1].cut
<1> DEFINE new == [i \in 1 .. n |-> Byte(i)]
<1>1. Stored \in Nat /\ Len(buf) \in Nat /\ Len(ring) \in Nat /\ Stored = Len(buf) + Len(ring) /\ n \in Nat \ {0}
  BY Streamed, Placed
<1>2. ring' = ring \o new /\ ring \in Seq(Bytes) /\ buf' = buf
  BY DEF Arrive, RxTypeOK, task
<1>3. new \in Seq(Bytes) /\ Len(new) = n /\ \A i \in 1 .. n : new[i] = Byte(i)
  BY <1>1, Bytewise
<1>4. /\ Len(ring') = Len(ring) + n
      /\ \A i \in 1 .. Len(ring) : ring'[i] = ring[i]
      /\ \A i \in 1 .. n : ring'[Len(ring) + i] = Byte(i)
  <2> HIDE DEF new
  <2>1. Len(ring') = Len(ring) + n
    <3>1. Len(ring \o new) = Len(ring) + Len(new)
      <4>1. new \in Seq(Bytes) /\ ring \in Seq(Bytes)
        BY <1>2, <1>3
      <4> QED BY <4>1
    <3> QED BY <1>2, <1>3, <3>1
  <2>2. \A i \in 1 .. Len(ring) : ring'[i] = ring[i]
    BY <1>1, <1>2, <1>3
  <2>3. ASSUME NEW i \in 1 .. n PROVE ring'[Len(ring) + i] = Byte(i)
    <3>1. ring'[Len(ring) + i] = new[i]
      BY <1>1, <1>2, <1>3
    <3> QED BY <1>3, <3>1
  <2> QED BY <2>1, <2>2, <2>3
<1>5. Stored' = Stored + n
  BY <1>1, <1>2, <1>4 DEF Stored
<1>6. Place(1) = wire /\ \A i \in 1 .. n : Place(i + 1) = After(Place(i))
  <2>1. wire \in 1 .. SentenceLen
    BY DEF RxTypeOK
  <2> QED BY <2>1, <1>1, Places
<1>7. Coming = Byte(1)
  <2>1. Begun(1) = (whole \/ wire = 1)
    BY <1>6 DEF Begun
  <2>2. (gap /\ 1 = 1) = gap
    BY DEF RxTypeOK
  <2> QED BY <1>6, <2>1, <2>2 DEF Coming, Byte
<1>8. \A i \in 1 .. n : Begun(i + 1) = (Begun(i) \/ Place(i + 1) = 1)
  BY <1>1 DEF Begun
<1>9. Coming' = Byte(n + 1)
  <2>1. wire' = Place(n + 1) /\ gap' = FALSE /\ whole' = Begun(n)
    BY DEF Arrive
  <2>2. Begun(n + 1) = (whole' \/ wire' = 1)
    BY <1>1, <1>8, <2>1
  <2>3. (gap /\ n + 1 = 1) = FALSE
    BY <1>1
  <2> QED BY <2>1, <2>2, <2>3 DEF Coming, Byte
<1>10. \A c \in 1 .. Stored : Stream'[c] = Stream[c]
  BY <1>1, <1>2, <1>4, <1>5 DEF Stream
<1>11. \A i \in 1 .. n + 1 : Stream'[Stored + i] = Byte(i)
  <2> SUFFICES ASSUME NEW i \in 1 .. n + 1 PROVE Stream'[Stored + i] = Byte(i)
    OBVIOUS
  <2>1. CASE i = n + 1
    BY <1>1, <1>2, <1>5, <1>9, <2>1 DEF Stream
  <2>2. CASE i \in 1 .. n
    <3>1. Stored + i - Len(buf) = Len(ring) + i
      BY <1>1
    <3>2. Stream'[Stored + i] = ring'[Stored + i - Len(buf)]
      BY <1>1, <1>2, <1>5, <2>2 DEF Stream
    <3> QED BY <1>4, <2>2, <3>1, <3>2
  <2> QED BY <1>1, <2>1, <2>2
<1>12. Stream[Stored + 1] = Coming
  BY Streamed
<1>13. Kept(Stored + 1)
  BY <1>1, <1>7, <1>10, <1>11, <1>12 DEF Kept
<1>14. \A i \in 1 .. n : Follows(Byte(i), Byte(i + 1)) /\ ~Byte(i + 1).cut
  <2> SUFFICES ASSUME NEW i \in 1 .. n PROVE Follows(Byte(i), Byte(i + 1)) /\ ~Byte(i + 1).cut
    OBVIOUS
  <2>1. Byte(i).p = Place(i) /\ (Byte(i).whole <=> Begun(i))
    BY DEF Byte
  <2>2. Byte(i + 1).p = Place(i + 1) /\ (Byte(i + 1).whole <=> Begun(i + 1))
      /\ (Byte(i + 1).cut <=> gap /\ i + 1 = 1)
    BY DEF Byte
  <2>3. ~Byte(i + 1).cut
    <3>1. i + 1 # 1
      BY <1>1
    <3> QED BY <2>2, <3>1
  <2>4. Byte(i + 1).p = After(Byte(i).p)
    BY <1>6, <2>1, <2>2
  <2>5. Byte(i + 1).whole /\ Byte(i + 1).p > 1 => Byte(i).whole
    <3>1. Begun(i + 1) => Begun(i) \/ Place(i + 1) = 1
      BY <1>8
    <3> QED BY <2>1, <2>2, <3>1
  <2> QED BY <2>3, <2>4, <2>5 DEF Follows
<1>15. ASSUME NEW c \in Stored + 1 .. Stored + n
       PROVE  Follows(Stream'[c], Stream'[c + 1]) /\ ~Stream'[c + 1].cut
  <2> DEFINE i == c - Stored
  <2>1. i \in 1 .. n /\ i \in 1 .. n + 1 /\ i + 1 \in 1 .. n + 1 /\ c = Stored + i /\ c + 1 = Stored + (i + 1)
    BY <1>1
  <2> HIDE DEF i
  <2>2. Stream'[c] = Byte(i) /\ Stream'[c + 1] = Byte(i + 1)
    BY <1>11, <2>1
  <2> QED BY <1>14, <2>1, <2>2
<1> QED BY <1>5, <1>13, <1>15

LEMMA StreamOverrun ==
  ASSUME RxTypeOK, NEW n \in 1 .. Burst, Overrun(n)
  PROVE  /\ Stored' = Stored
         /\ Kept(Stored)
         /\ Stream'[Stored + 1].cut
         /\ Stream'[Stored + 1].whole => Stream'[Stored + 1].p = 1
<1>1. Stored \in Nat /\ Len(buf) \in Nat /\ Len(ring) \in Nat /\ Stored = Len(buf) + Len(ring)
  BY Streamed
<1>2. ring' = ring /\ buf' = buf /\ gap' = TRUE /\ whole' = FALSE
  BY DEF Overrun, task
<1>3. Stored' = Stored
  BY <1>2 DEF Stored
<1>4. Kept(Stored)
  BY <1>1, <1>2, <1>3 DEF Stream, Kept
<1>5. Stream'[Stored + 1] = Coming'
  BY <1>1, <1>2, <1>3 DEF Stream
<1>6. Coming' = [p |-> wire', cut |-> TRUE, whole |-> wire' = 1]
  BY <1>2 DEF Coming
<1>7. Coming'.cut /\ Coming'.p = wire' /\ Coming'.whole = (wire' = 1)
  BY <1>6
<1> QED BY <1>3, <1>4, <1>5, <1>7

LEMMA StreamSame ==
  ASSUME RxTypeOK, \/ Receive \/ Reset
  PROVE  Stored' = Stored /\ Stream' = Stream
<1>1. ring' = ring /\ buf' = buf /\ wire' = wire /\ gap' = gap /\ whole' = whole
  BY DEF Receive, Reset, history
<1> QED BY <1>1 DEF Stored, Stream, Coming

LEMMA StreamRead ==
  ASSUME RxTypeOK, InHand, Read
  PROVE  /\ buf = << >> /\ Len(buf') = Taken
         /\ Stored' = Stored /\ Stream' = Stream
<1>1. Stored \in Nat /\ Len(buf) \in Nat /\ Len(ring) \in Nat /\ Stored = Len(buf) + Len(ring)
  BY Streamed
<1>2. Taken \in Nat /\ Taken <= Len(ring)
  BY Chunk
<1>3. buf = << >> /\ Len(buf) = 0
  BY DEF Read, InHand
<1>4. ring \in Seq(Bytes) /\ buf' = SubSeq(ring, 1, Taken) /\ ring' = SubSeq(ring, Taken + 1, Len(ring))
  BY DEF Read, RxTypeOK
<1>5. Len(buf') = Taken /\ \A i \in 1 .. Taken : buf'[i] = ring[i]
  BY <1>1, <1>2, <1>4
<1>6. Len(ring') = Len(ring) - Taken /\ \A i \in 1 .. Len(ring) - Taken : ring'[i] = ring[Taken + i]
  BY <1>1, <1>2, <1>4
<1>7. Stored' = Stored
  BY <1>1, <1>2, <1>3, <1>5, <1>6 DEF Stored
<1>8. Coming' = Coming
  BY DEF Read, Coming, history
<1>9. \A c \in 1 .. Stored + 1 : Stream'[c] = Stream[c]
  <2> SUFFICES ASSUME NEW c \in 1 .. Stored + 1 PROVE Stream'[c] = Stream[c]
    OBVIOUS
  <2>1. CASE c <= Taken
    <3>1. Stream'[c] = buf'[c] /\ Stream[c] = ring[c - 0]
      BY <1>1, <1>2, <1>3, <1>5, <1>7, <2>1 DEF Stream
    <3> QED BY <1>5, <2>1, <3>1
  <2>2. CASE c > Taken /\ c <= Stored
    <3>1. Stream'[c] = ring'[c - Taken] /\ Stream[c] = ring[c - 0]
      BY <1>1, <1>2, <1>3, <1>5, <1>7, <2>2 DEF Stream
    <3>2. c - Taken \in 1 .. Len(ring) - Taken /\ Taken + (c - Taken) = c - 0
      BY <1>1, <1>2, <1>3, <2>2
    <3> QED BY <1>6, <3>1, <3>2
  <2>3. CASE c = Stored + 1
    BY <1>1, <1>2, <1>5, <1>7, <1>8, <2>3 DEF Stream
  <2> QED BY <1>1, <1>2, <2>1, <2>2, <2>3
<1>10. Stream' = Stream
  BY <1>7, <1>9 DEF Stream
<1> QED BY <1>3, <1>5, <1>7, <1>10

LEMMA StreamFeed ==
  ASSUME RxTypeOK, InHand, Feed
  PROVE  /\ Stored \in Nat \ {0} /\ Stored' = Stored - 1 /\ Len(buf) \in Nat \ {0} /\ Len(buf') = Len(buf) - 1
         /\ Head(buf) = Stream[1]
         /\ \A c \in 1 .. Stored : Stream'[c] = Stream[c + 1]
<1>1. Stored \in Nat /\ Len(buf) \in Nat /\ Len(ring) \in Nat /\ Stored = Len(buf) + Len(ring)
  BY Streamed
<1>2. buf \in Seq(Bytes) /\ buf # << >> /\ buf' = Tail(buf) /\ ring' = ring
  BY DEF RxTypeOK, InHand, Feed, uart
<1>3. /\ Len(buf) > 0 /\ Len(buf') = Len(buf) - 1 /\ Head(buf) = buf[1]
      /\ \A i \in 1 .. Len(buf) - 1 : buf'[i] = buf[i + 1]
  BY <1>2
<1>4. Stored' = Stored - 1
  BY <1>1, <1>2, <1>3 DEF Stored
<1>5. Coming' = Coming
  BY DEF Feed, Coming, history, uart
<1>6. Head(buf) = Stream[1]
  BY <1>1, <1>3 DEF Stream
<1>7. ASSUME NEW c \in 1 .. Stored PROVE Stream'[c] = Stream[c + 1]
  <2>1. CASE c <= Len(buf) - 1
    BY <1>1, <1>3, <1>4, <2>1 DEF Stream
  <2>2. CASE c > Len(buf) - 1 /\ c <= Stored - 1
    <3>1. Stream'[c] = ring[c - (Len(buf) - 1)] /\ Stream[c + 1] = ring[c + 1 - Len(buf)]
      BY <1>1, <1>2, <1>3, <1>4, <2>2 DEF Stream
    <3>2. c - (Len(buf) - 1) = c + 1 - Len(buf)
      BY <1>1
    <3> QED BY <3>1, <3>2
  <2>3. CASE c = Stored
    BY <1>1, <1>3, <1>4, <1>5, <2>3 DEF Stream
  <2> QED BY <1>1, <2>1, <2>2, <2>3
<1> QED BY <1>1, <1>3, <1>4, <1>6, <1>7

-----------------------------------------------------------------------------

LEMMA RxInitInv == RxInit => RxInv
<1> SUFFICES ASSUME RxInit PROVE RxInv
  OBVIOUS
<1>1. RxTypeOK
  BY TypeInit
<1>2. Stored = 0 /\ Stream[1] = Coming
  <2>1. Stored = 0
    BY DEF RxInit, Stored
  <2> QED BY <1>1, <2>1, Streamed
<1>3. Coming.cut /\ (Coming.whole => Coming.p = 1)
  BY DEF RxInit, Coming
<1>4. /\ rx = "reset" /\ line = << >> /\ ring = << >> /\ buf = << >> /\ rem = 0
  BY DEF RxInit
<1>5. Ordered
  BY <1>2 DEF Ordered
<1>6. Continued
  BY <1>2, <1>3, <1>4 DEF Continued, Working
<1>7. InHand /\ Announced
  BY <1>4 DEF InHand, Announced, Working
<1>8. Flushed
  BY <1>2, <1>3, <1>4 DEF Flushed
<1> QED BY <1>1, <1>5, <1>6, <1>7, <1>8 DEF RxInv

\* A step of the UART driver leaves what is already stored.
LEMMA HeadKept ==
  ASSUME Continued, UNCHANGED <<line, rx>>, torn => torn', Stream'[1] = Stream[1]
  PROVE  Continued'
BY DEF Continued, Working, Unbroken

\* An event more in the queue.
LEMMA Posting ==
  ASSUME RxTypeOK, NEW e \in 0 .. Burst, ~Full, Post(e),
         NEW m \in Marks, Rising(m), \A i \in 1 .. Len(queue) : m[i + 1] = m[i] + queue[i]
  PROVE  /\ Len(queue) \in Nat /\ Len(queue') = Len(queue) + 1
         /\ queue'[Len(queue) + 1] = e
         /\ \A i \in 1 .. Len(queue) : queue'[i] = queue[i]
         /\ \E w \in Marks' :
              /\ \A i \in 1 .. Len(queue) + 1 : w[i] = m[i]
              /\ w[Len(queue) + 2] = m[Len(queue) + 1] + e
              /\ \A i \in 1 .. Len(queue') : w[i + 1] = w[i] + queue'[i]
              /\ Rising(w)'
<1>1. queue \in Seq(0 .. Burst) /\ queue' = Append(queue, e) /\ Len(queue) \in Nat /\ e \in Nat
  BY Posted, Sizes DEF RxTypeOK
<1>2. /\ Len(queue') = Len(queue) + 1 /\ queue'[Len(queue) + 1] = e
      /\ \A i \in 1 .. Len(queue) : queue'[i] = queue[i]
  BY <1>1
<1>l. PICK l : l = Len(queue)
  OBVIOUS
<1>w. PICK w : w = [i \in 1 .. l + 2 |-> IF i <= l + 1 THEN m[i] ELSE m[l + 1] + e]
  OBVIOUS
<1>3. l \in Nat /\ m \in [1 .. l + 1 -> Nat] /\ Len(queue') + 1 = l + 2
  BY <1>1, <1>2, <1>l DEF Marks
<1>4. \A i, j \in 1 .. l + 1 : i <= j => m[i] <= m[j]
  BY <1>l DEF Rising
<1>5. w \in Marks'
  <2>1. w \in [1 .. l + 2 -> Nat]
    BY <1>1, <1>3, <1>w
  <2> QED BY <1>3, <2>1 DEF Marks
<1>6. (\A i \in 1 .. l + 1 : w[i] = m[i]) /\ w[l + 2] = m[l + 1] + e
  BY <1>3, <1>w
<1>7. ASSUME NEW i \in 1 .. l + 1 PROVE w[i + 1] = w[i] + queue'[i]
  <2>1. CASE i \in 1 .. l
    <3>1. w[i + 1] = m[i + 1] /\ w[i] = m[i] /\ queue'[i] = queue[i]
      BY <1>2, <1>3, <1>6, <1>l, <2>1
    <3> QED BY <1>l, <2>1, <3>1
  <2>2. CASE i = l + 1
    BY <1>2, <1>3, <1>6, <1>l, <2>2
  <2> QED BY <1>3, <2>1, <2>2
<1>8. Rising(w)'
  <2> SUFFICES ASSUME NEW i \in 1 .. l + 2, NEW j \in 1 .. l + 2, i <= j PROVE w[i] <= w[j]
    BY <1>3 DEF Rising
  <2>1. CASE j \in 1 .. l + 1
    BY <1>3, <1>4, <1>6, <2>1
  <2>2. CASE j = l + 2
    <3>1. CASE i = l + 2
      BY <1>1, <1>3, <1>6, <2>2, <3>1
    <3>2. CASE i \in 1 .. l + 1
      <4>1. m[i] <= m[l + 1] /\ m[i] \in Nat /\ m[l + 1] \in Nat
        BY <1>3, <1>4, <3>2
      <4> QED BY <1>1, <1>6, <2>2, <3>2, <4>1
    <3> QED BY <1>3, <3>1, <3>2
  <2> QED BY <1>3, <2>1, <2>2
<1>9. \A i \in 1 .. Len(queue') : w[i + 1] = w[i] + queue'[i]
  BY <1>2, <1>7, <1>l
<1> QED BY <1>1, <1>2, <1>5, <1>6, <1>8, <1>9, <1>l

LEMMA InvArrive ==
  ASSUME RxInv, NEW n \in 1 .. Burst, Arrive(n)
  PROVE  RxInv'
<1> USE DEF RxInv
<1>1. RxTypeOK'
  BY TypeArrive
<1>2. /\ Stored \in Nat /\ n \in Nat \ {0} /\ Stored' = Stored + n
      /\ \A c \in 1 .. Stored + 1 : Stream'[c] = Stream[c]
      /\ \A c \in Stored + 1 .. Stored + n :
           Follows(Stream'[c], Stream'[c + 1]) /\ ~Stream'[c + 1].cut
  BY StreamArrive, Streamed, Placed DEF Kept
<1>3. /\ UNCHANGED <<rx, rem, buf, line, torn>> /\ Post(n) /\ n \in 0 .. Burst
      /\ stray' = (stray \/ Unheard)
  BY <1>2 DEF Arrive, task
<1>4. Ordered'
  <2> SUFFICES ASSUME NEW c \in 1 .. Stored + n PROVE Follows(Stream'[c], Stream'[c + 1])
    BY <1>2 DEF Ordered, Follows, After
  <2>1. CASE c \in 1 .. Stored
    BY <1>2, <2>1 DEF Ordered
  <2>2. CASE c \in Stored + 1 .. Stored + n
    BY <1>2, <2>2
  <2> QED BY <1>2, <2>1, <2>2
<1>5. Continued'
  BY <1>2, <1>3, HeadKept
<1>6. InHand'
  BY <1>3 DEF InHand
<1>7. Flushed'
  <2> SUFFICES ASSUME rx' = "reset"
               PROVE  /\ Stream'[1].cut /\ stray'
                      /\ ~torn' => \A c \in 2 .. Stored' + 1 : ~Stream'[c].cut
    BY DEF Flushed
  <2>0. rx = "reset" /\ stray'
    BY <1>3 DEF Unheard
  <2>1. Stream'[1].cut /\ stray'
    BY <1>2, <2>0 DEF Flushed
  <2>2. ASSUME ~torn', NEW c \in 2 .. Stored' + 1 PROVE ~Stream'[c].cut
    <3>1. CASE c \in 2 .. Stored + 1
      BY <1>2, <1>3, <2>2, <3>1 DEF Flushed
    <3>2. CASE c \in Stored + 2 .. Stored + n + 1
      <4>1. c - 1 \in Stored + 1 .. Stored + n /\ (c - 1) + 1 = c
        BY <1>2, <3>2
      <4> QED BY <1>2, <4>1
    <3> QED BY <1>2, <3>1, <3>2
  <2> QED BY <2>1, <2>2
<1>8. Announced'
  <2> SUFFICES ASSUME Working
               PROVE  \E w \in Marks' : Counted(w)' /\ Rising(w)' /\ Noticed(w)'
    BY <1>3 DEF Announced, Working
  <2>1. PICK m \in Marks : Counted(m) /\ Rising(m) /\ Noticed(m)
    BY DEF Announced
  <2>2. Len(queue) \in Nat /\ m[Len(queue) + 1] \in Nat
    BY DEF RxTypeOK, Marks
  <2>3. ASSUME ~torn', NEW c \in 1 .. Stored' + 1, Stream'[c].cut
        PROVE  (c = 1 /\ line' = << >>) \/ Warned(m, c)
    <3>1. c \in 1 .. Stored + 1
      <4>1. CASE c \in Stored + 2 .. Stored + n + 1
        <5>1. c - 1 \in Stored + 1 .. Stored + n /\ (c - 1) + 1 = c
          BY <1>2, <4>1
        <5> QED BY <1>2, <2>3, <5>1
      <4> QED BY <1>2, <4>1
    <3> QED BY <1>2, <1>3, <2>1, <2>3, <3>1 DEF Noticed
  <2>4. CASE Full
    <3>1. queue' = queue /\ stray'
      BY <1>3, <2>4 DEF Post, Unheard
    <3>2. m \in Marks' /\ Rising(m)'
      BY <2>1, <3>1 DEF Marks, Rising
    <3>3. Counted(m)'
      BY <1>2, <1>3, <2>1, <2>2, <3>1 DEF Counted
    <3>4. Noticed(m)'
      BY <2>3, <3>1 DEF Noticed, Warned
    <3> QED BY <3>2, <3>3, <3>4
  <2>5. CASE ~Full
    <3>1. PICK w \in Marks' :
              /\ \A i \in 1 .. Len(queue) + 1 : w[i] = m[i]
              /\ w[Len(queue) + 2] = m[Len(queue) + 1] + n
              /\ \A i \in 1 .. Len(queue') : w[i + 1] = w[i] + queue'[i]
              /\ Rising(w)'
      BY <1>3, <2>1, <2>5, Posting DEF Counted
    <3>2. Len(queue') = Len(queue) + 1 /\ \A i \in 1 .. Len(queue) : queue'[i] = queue[i]
      BY <1>3, <2>1, <2>5, Posting DEF Counted
    <3>3. stray' = stray
      BY <1>3, <2>5 DEF Unheard, Working, RxTypeOK
    <3>4. Counted(w)'
      <4>1. w[1] = Len(buf') + rem'
        BY <1>3, <2>1, <2>2, <3>1 DEF Counted
      <4>2. w[Len(queue') + 1] = m[Len(queue) + 1] + n
        BY <2>2, <3>1, <3>2
      <4>3. m[Len(queue) + 1] <= Stored /\ (~stray => m[Len(queue) + 1] = Stored)
        BY <2>1 DEF Counted
      <4>4. w[Len(queue') + 1] <= Stored' /\ (~stray' => w[Len(queue') + 1] = Stored')
        BY <1>2, <2>2, <3>3, <4>2, <4>3
      <4> QED BY <3>1, <4>1, <4>4 DEF Counted
    <3>5. Noticed(w)'
      BY <2>2, <2>3, <3>1, <3>2 DEF Noticed, Warned
    <3> QED BY <3>1, <3>4, <3>5
  <2> QED BY <2>4, <2>5
<1> QED BY <1>1, <1>4, <1>5, <1>6, <1>7, <1>8

LEMMA InvOverrun ==
  ASSUME RxInv, NEW n \in 1 .. Burst, Overrun(n)
  PROVE  RxInv'
<1> USE DEF RxInv
<1>1. RxTypeOK'
  BY TypeOverrun
<1>2. /\ Stored \in Nat /\ Stored' = Stored
      /\ \A c \in 1 .. Stored : Stream'[c] = Stream[c]
      /\ Stream'[Stored + 1].cut
      /\ Stream'[Stored + 1].whole => Stream'[Stored + 1].p = 1
  BY StreamOverrun, Streamed DEF Kept
<1>3. /\ UNCHANGED <<rx, rem, buf, line, ring, stray>> /\ Post(0) /\ 0 \in 0 .. Burst
      /\ torn' = (torn \/ Unheard)
  BY Sizes DEF Overrun, task, Overflow
<1>4. Ordered'
  <2> SUFFICES ASSUME NEW c \in 1 .. Stored PROVE Follows(Stream'[c], Stream'[c + 1])
    BY <1>2 DEF Ordered, Follows, After
  <2>1. CASE c + 1 \in 1 .. Stored
    BY <1>2, <2>1 DEF Ordered
  <2>2. CASE c = Stored
    BY <1>2, <2>2 DEF Follows
  <2> QED BY <1>2, <2>1, <2>2
<1>5. Continued'
  <2>1. CASE Stored = 0
    <3>1. Stream'[1].cut /\ ~(Stream'[1].whole /\ Stream'[1].p > 1)
      BY <1>2, <2>1
    <3>2. ~torn' /\ rx' # "reset" => Unbroken(line)
      BY <1>3 DEF Continued
    <3> QED BY <1>3, <3>1, <3>2 DEF Continued, Unbroken
  <2>2. CASE Stored # 0
    <3>1. Stream'[1] = Stream[1]
      BY <1>2, <2>2
    <3> QED BY <1>3, <3>1, HeadKept
  <2> QED BY <2>1, <2>2
<1>6. InHand'
  BY <1>3 DEF InHand
<1>7. Flushed'
  <2> SUFFICES ASSUME rx' = "reset"
               PROVE  Stream'[1].cut /\ (~stray' => ring' = << >>) /\ torn'
    BY DEF Flushed
  <2>1. rx = "reset" /\ torn'
    BY <1>3 DEF Unheard
  <2>2. Stream'[1].cut
    <3>1. CASE Stored = 0
      BY <1>2, <3>1
    <3>2. CASE Stored # 0
      BY <1>2, <2>1, <3>2 DEF Flushed
    <3> QED BY <3>1, <3>2
  <2> QED BY <1>3, <2>1, <2>2 DEF Flushed
<1>8. Announced'
  <2> SUFFICES ASSUME Working
               PROVE  \E w \in Marks' : Counted(w)' /\ Rising(w)' /\ Noticed(w)'
    BY <1>3 DEF Announced, Working
  <2>1. PICK m \in Marks : Counted(m) /\ Rising(m) /\ Noticed(m)
    BY DEF Announced
  <2>2. Len(queue) \in Nat /\ m[Len(queue) + 1] \in Nat
    BY DEF RxTypeOK, Marks
  <2>3. m[Len(queue) + 1] <= Stored /\ (~stray => m[Len(queue) + 1] = Stored)
    BY <2>1 DEF Counted
  <2>4. CASE Full
    <3>1. queue' = queue /\ torn'
      BY <1>3, <2>4 DEF Post, Unheard
    <3>2. m \in Marks' /\ Rising(m)'
      BY <2>1, <3>1 DEF Marks, Rising
    <3>3. Counted(m)'
      BY <1>2, <1>3, <2>1, <2>2, <3>1 DEF Counted
    <3>4. Noticed(m)'
      BY <3>1 DEF Noticed
    <3> QED BY <3>2, <3>3, <3>4
  <2>5. CASE ~Full
    <3>1. PICK w \in Marks' :
              /\ \A i \in 1 .. Len(queue) + 1 : w[i] = m[i]
              /\ w[Len(queue) + 2] = m[Len(queue) + 1] + 0
              /\ \A i \in 1 .. Len(queue') : w[i + 1] = w[i] + queue'[i]
              /\ Rising(w)'
      BY <1>3, <2>1, <2>5, Posting DEF Counted
    <3>2. Len(queue') = Len(queue) + 1 /\ \A i \in 1 .. Len(queue) : queue'[i] = queue[i]
      BY <1>3, <2>1, <2>5, Posting DEF Counted
    <3>3. queue'[Len(queue) + 1] = 0
      BY <1>3, <2>1, <2>5, Posting DEF Counted
    <3>4. Counted(w)'
      <4>1. w[1] = Len(buf') + rem'
        BY <1>3, <2>1, <2>2, <3>1 DEF Counted
      <4>2. w[Len(queue') + 1] = m[Len(queue) + 1]
        BY <2>2, <3>1, <3>2
      <4>3. w[Len(queue') + 1] <= Stored' /\ (~stray' => w[Len(queue') + 1] = Stored')
        BY <1>2, <1>3, <2>2, <2>3, <4>2
      <4> QED BY <3>1, <4>1, <4>3 DEF Counted
    <3>5. ASSUME ~torn', NEW c \in 1 .. Stored + 1, Stream'[c].cut
          PROVE  \/ c = 1 /\ line' = << >>
                 \/ \E k \in 1 .. Len(queue') : queue'[k] = 0 /\ w[k] < c
      <4>1. CASE c = Stored + 1
        <5>1. w[Len(queue) + 1] = m[Len(queue) + 1] /\ Len(queue) + 1 \in 1 .. Len(queue')
          BY <2>2, <3>1, <3>2
        <5> QED BY <1>2, <2>2, <2>3, <3>3, <4>1, <5>1
      <4>2. CASE c \in 1 .. Stored
        <5>1. ~torn /\ Stream[c].cut /\ c \in 1 .. Stored + 1
          BY <1>2, <1>3, <3>5, <4>2
        <5>2. CASE c = 1 /\ line = << >>
          BY <1>3, <5>2
        <5>3. CASE Warned(m, c)
          <6>1. PICK k \in 1 .. Len(queue) : queue[k] = 0 /\ m[k] < c
            BY <5>3 DEF Warned, Overflow
          <6>2. k \in 1 .. Len(queue') /\ queue'[k] = 0 /\ w[k] = m[k]
            BY <2>2, <3>1, <3>2, <6>1
          <6> QED BY <6>1, <6>2
        <5> QED BY <2>1, <5>1, <5>2, <5>3 DEF Noticed
      <4> QED BY <1>2, <4>1, <4>2
    <3>6. Noticed(w)'
      BY <1>2, <3>5 DEF Noticed, Warned, Overflow
    <3> QED BY <3>1, <3>4, <3>6
  <2> QED BY <2>4, <2>5
<1> QED BY <1>1, <1>4, <1>5, <1>6, <1>7, <1>8

LEMMA InvReceive ==
  ASSUME RxInv, Receive
  PROVE  RxInv'
<1> USE DEF RxInv
<1>1. RxTypeOK'
  BY TypeTask DEF Task
<1>2. Stored' = Stored /\ Stream' = Stream
  BY StreamSame
<1>3. /\ rx = "wait" /\ queue # << >> /\ queue' = Tail(queue) /\ rem' = Head(queue)
      /\ rx' = IF Head(queue) = Overflow THEN "flush" ELSE "read"
      /\ UNCHANGED <<ring, buf, line, stray, torn>>
  BY DEF Receive, history
<1>4. buf = << >> /\ rem = 0 /\ Len(buf) = 0
  BY <1>3 DEF InHand
<1>5. /\ Len(queue) \in Nat \ {0} /\ Len(queue') = Len(queue) - 1 /\ Head(queue) = queue[1]
      /\ Head(queue) \in Nat /\ \A i \in 1 .. Len(queue) - 1 : queue'[i] = queue[i + 1]
  BY <1>3, Sizes DEF RxTypeOK
<1>6. Ordered'
  BY <1>2 DEF Ordered, Follows, After
<1>7. Continued'
  BY <1>2, <1>3 DEF Continued, Working, Unbroken
<1>8. InHand'
  BY <1>3, <1>4, <1>5 DEF InHand, Overflow
<1>9. Flushed'
  BY <1>3 DEF Flushed
<1>10. Announced'
  <2> SUFFICES ASSUME rx' = "read"
               PROVE  \E w \in Marks' : Counted(w)' /\ Rising(w)' /\ Noticed(w)'
    BY <1>3 DEF Announced, Working
  <2>1. PICK m \in Marks : Counted(m) /\ Rising(m) /\ Noticed(m)
    BY <1>3 DEF Announced, Working
  <2>2. PICK l : l = Len(queue)
    OBVIOUS
  <2>3. PICK w : w = [i \in 1 .. l |-> m[i + 1]]
    OBVIOUS
  <2>4. queue[1] # 0
    BY <1>3, <1>5 DEF Overflow
  <2>5. l \in Nat \ {0} /\ Len(queue') = l - 1 /\ m \in [1 .. l + 1 -> Nat] /\ w \in [1 .. l -> Nat]
    BY <1>5, <2>2, <2>3 DEF Marks
  <2>6. w \in Marks'
    BY <2>5 DEF Marks
  <2>7. \A i \in 1 .. l : m[i + 1] = m[i] + queue[i]
    BY <2>1, <2>2 DEF Counted
  <2>8. Counted(w)'
    <3>1. w[1] = Len(buf') + rem'
      BY <1>3, <1>4, <1>5, <2>1, <2>3, <2>5, <2>7 DEF Counted
    <3>2. ASSUME NEW i \in 1 .. l - 1 PROVE w[i + 1] = w[i] + queue'[i]
      <4>1. i \in 1 .. l /\ i + 1 \in 1 .. l /\ queue'[i] = queue[i + 1]
        BY <1>5, <2>2, <2>5
      <4>2. w[i + 1] = m[(i + 1) + 1] /\ w[i] = m[i + 1]
        BY <2>3, <4>1
      <4> QED BY <2>7, <4>1, <4>2
    <3>3. w[(l - 1) + 1] = m[l + 1]
      BY <2>3, <2>5
    <3>4. m[l + 1] <= Stored /\ (~stray => m[l + 1] = Stored)
      BY <2>1, <2>2 DEF Counted
    <3> QED BY <1>2, <1>3, <2>5, <3>1, <3>2, <3>3, <3>4 DEF Counted
  <2>9. Rising(w)'
    <3> SUFFICES ASSUME NEW i \in 1 .. l, NEW j \in 1 .. l, i <= j PROVE w[i] <= w[j]
      BY <2>5 DEF Rising
    <3>1. i + 1 \in 1 .. l + 1 /\ j + 1 \in 1 .. l + 1 /\ i + 1 <= j + 1
      BY <2>5
    <3>2. m[i + 1] <= m[j + 1]
      BY <2>1, <2>2, <3>1 DEF Rising
    <3> QED BY <2>3, <3>2
  <2>10. ASSUME ~torn, NEW c \in 1 .. Stored + 1, Stream[c].cut, ~(c = 1 /\ line = << >>)
         PROVE  \E k \in 1 .. l - 1 : queue'[k] = 0 /\ w[k] < c
    <3>1. PICK k \in 1 .. l : queue[k] = 0 /\ m[k] < c
      BY <2>1, <2>2, <2>10 DEF Noticed, Warned, Overflow
    <3>2. k - 1 \in 1 .. l - 1 /\ (k - 1) + 1 = k
      BY <2>4, <2>5, <3>1
    <3>3. queue'[k - 1] = queue[k] /\ w[k - 1] = m[k]
      BY <1>5, <2>2, <2>3, <2>5, <3>2
    <3> QED BY <3>1, <3>2, <3>3
  <2>11. Noticed(w)'
    BY <1>2, <1>3, <2>5, <2>10 DEF Noticed, Warned, Overflow
  <2> QED BY <2>6, <2>8, <2>9, <2>11
<1> QED BY <1>1, <1>6, <1>7, <1>8, <1>9, <1>10

LEMMA InvFlush ==
  ASSUME RxInv, Flush
  PROVE  RxInv'
<1> USE DEF RxInv
<1>1. RxTypeOK'
  BY TypeTask DEF Task
<1>2. /\ ring' = << >> /\ rx' = "reset" /\ rem' = 0 /\ buf' = << >>
      /\ gap' = TRUE /\ whole' = FALSE
  BY DEF Flush, InHand
<1>3. Stored' = 0
  BY <1>2 DEF Stored
<1>4. Stream'[1] = Coming'
  BY <1>2, <1>3 DEF Stream
<1>5. Coming' = [p |-> wire', cut |-> TRUE, whole |-> wire' = 1]
  BY <1>2 DEF Coming
<1>6. Stream'[1].cut /\ (Stream'[1].whole => Stream'[1].p = 1)
  <2>1. Coming'.cut /\ Coming'.p = wire' /\ (Coming'.whole <=> wire' = 1)
    BY <1>5
  <2> QED BY <1>4, <2>1
<1>7. Ordered'
  BY <1>3 DEF Ordered
<1>8. Continued'
  BY <1>2, <1>6 DEF Continued, Working
<1>9. InHand' /\ Announced'
  BY <1>2 DEF InHand, Announced, Working
<1>10. Flushed'
  BY <1>2, <1>3, <1>6 DEF Flushed
<1> QED BY <1>1, <1>7, <1>8, <1>9, <1>10

LEMMA InvReset ==
  ASSUME RxInv, Reset
  PROVE  RxInv'
<1> USE DEF RxInv
<1>1. RxTypeOK'
  BY TypeTask DEF Task
<1>2. Stored' = Stored /\ Stream' = Stream
  BY StreamSame
<1>3. /\ rx = "reset" /\ rx' = "wait" /\ queue' = << >> /\ line' = << >>
      /\ UNCHANGED <<ring, buf, rem, stray, torn>>
  BY DEF Reset, history
<1>4. buf = << >> /\ rem = 0 /\ Len(buf) = 0 /\ Len(queue') = 0 /\ Len(line') = 0
  BY <1>3 DEF InHand
<1>5. Stream[1].cut
  BY <1>3 DEF Flushed
<1>6. Ordered'
  BY <1>2 DEF Ordered, Follows, After
<1>7. Continued'
  <2>1. ~(Stream'[1].whole /\ Stream'[1].p > 1)
    BY <1>2, <1>5 DEF Continued
  <2>2. Unbroken(line')
    BY <1>4 DEF Unbroken
  <2> QED BY <1>3, <2>1, <2>2 DEF Continued, Unbroken
<1>8. InHand'
  BY <1>3, <1>4 DEF InHand
<1>9. Flushed'
  BY <1>3 DEF Flushed
<1>10. Announced'
  <2>1. PICK m : m = [i \in 1 .. 1 |-> 0]
    OBVIOUS
  <2>2. m \in [1 .. 1 -> Nat] /\ m[1] = 0
    BY <2>1
  <2>3. m \in Marks'
    BY <1>4, <2>2 DEF Marks
  <2>4. Stored \in Nat /\ (~stray => Stored = 0)
    BY <1>3, <1>4, Streamed DEF Flushed
  <2>5. Counted(m)'
    BY <1>2, <1>3, <1>4, <2>2, <2>4 DEF Counted
  <2>6. Rising(m)'
    BY <1>4, <2>2 DEF Rising
  <2>7. ASSUME ~torn, NEW c \in 1 .. Stored + 1, Stream[c].cut PROVE c = 1
    BY <1>3, <2>4, <2>7 DEF Flushed
  <2>8. Noticed(m)'
    BY <1>2, <1>3, <2>7 DEF Noticed
  <2> QED BY <2>3, <2>5, <2>6, <2>8 DEF Announced
<1> QED BY <1>1, <1>6, <1>7, <1>8, <1>9, <1>10

LEMMA InvRead ==
  ASSUME RxInv, Read
  PROVE  RxInv'
<1> USE DEF RxInv
<1>1. RxTypeOK'
  BY TypeTask DEF Task
<1>2. buf = << >> /\ Len(buf) = 0 /\ Len(buf') = Taken /\ Stored' = Stored /\ Stream' = Stream
  BY StreamRead
<1>3. /\ rx = "read" /\ rem > 0
      /\ rem' = IF Taken = 0 THEN 0 ELSE rem - Taken
      /\ rx' = IF Taken = 0 THEN "wait" ELSE "feed"
      /\ UNCHANGED <<queue, line, stray, torn>>
  BY DEF Read, InHand, history
<1>4. /\ Taken \in Nat /\ Taken <= rem /\ rem \in Nat /\ Len(ring) \in Nat /\ Stored = Len(ring)
      /\ Taken = 0 => Len(ring) = 0
  BY <1>2, <1>3, Chunk, Streamed, Sizes DEF RxTypeOK
<1>5. Ordered'
  BY <1>2 DEF Ordered, Follows, After
<1>6. Continued'
  BY <1>2, <1>3 DEF Continued, Working, Unbroken
<1>7. InHand'
  <2>1. buf' = << >> <=> Taken = 0
    BY <1>1, <1>2 DEF RxTypeOK
  <2> QED BY <1>3, <2>1 DEF InHand
<1>8. Flushed'
  BY <1>3 DEF Flushed
<1>9. Announced'
  <2>1. PICK m \in Marks : Counted(m) /\ Rising(m) /\ Noticed(m)
    BY <1>3 DEF Announced, Working
  <2>2. PICK l : l = Len(queue)
    OBVIOUS
  <2>3. l \in Nat /\ Len(queue') = l /\ m \in [1 .. l + 1 -> Nat] /\ m[1] = rem
    BY <1>2, <1>3, <2>1, <2>2 DEF Marks, Counted, RxTypeOK
  <2>4. CASE Taken # 0
    <3>1. m \in Marks' /\ Rising(m)'
      BY <1>3, <2>1 DEF Marks, Rising
    <3>2. m[1] = Len(buf') + rem'
      BY <1>2, <1>3, <1>4, <2>3, <2>4
    <3>3. Counted(m)'
      BY <1>2, <1>3, <2>1, <3>2 DEF Counted
    <3>4. Noticed(m)'
      BY <1>2, <1>3, <2>1 DEF Noticed, Warned
    <3> QED BY <3>1, <3>3, <3>4 DEF Announced
  <2>5. CASE Taken = 0
    <3>1. \A i \in 1 .. l + 1 : m[i] \in Nat /\ m[i] >= rem
      BY <2>1, <2>2, <2>3 DEF Rising
    <3>2. m[l + 1] <= Stored
      BY <2>1, <2>2 DEF Counted
    <3> QED BY <1>3, <1>4, <2>3, <2>5, <3>1, <3>2
  <2> QED BY <2>4, <2>5
<1> QED BY <1>1, <1>5, <1>6, <1>7, <1>8, <1>9

LEMMA LineFed ==
  ASSUME RxInv, Feed
  PROVE  LET b == Stream[1] IN
         line' = IF b.p = 1 THEN <<[p |-> 1, cut |-> FALSE]>>
                 ELSE IF b.p < SentenceLen /\ line # << >> /\ Len(line) < LineMax - 1
                 THEN Append(line, [p |-> b.p, cut |-> b.cut])
                 ELSE << >>
<1>1. Head(buf) = Stream[1]
  BY StreamFeed DEF RxInv
<1> QED BY <1>1 DEF Feed, Put

LEMMA Beginning ==
  /\ Len(<<[p |-> 1, cut |-> FALSE]>>) = 1 /\ Unbroken(<<[p |-> 1, cut |-> FALSE]>>)
  /\ Unbroken(<< >>)
<1> DEFINE d == [p |-> 1, cut |-> FALSE]
<1>1. Len(<<d>>) = 1 /\ <<d>>[1] = d
  OBVIOUS
<1>2. ASSUME NEW i \in 1 .. Len(<<d>>) PROVE <<d>>[i] = [p |-> i, cut |-> FALSE]
  <2>1. i = 1
    BY <1>1
  <2> QED BY <1>1, <2>1
<1>3. Unbroken(<<d>>)
  BY <1>2 DEF Unbroken
<1>4. Unbroken(<< >>)
  BY DEF Unbroken
<1> QED BY <1>1, <1>3, <1>4

LEMMA Longer ==
  ASSUME NEW l \in Seq(Chars), NEW c \in Chars
  PROVE  /\ Append(l, c) # << >> /\ Len(Append(l, c)) = Len(l) + 1
         /\ Unbroken(l) /\ c = [p |-> Len(l) + 1, cut |-> FALSE] => Unbroken(Append(l, c))
<1>1. PICK d : d = Append(l, c)
  OBVIOUS
<1>2. /\ d \in Seq(Chars) /\ Len(l) \in Nat /\ Len(d) = Len(l) + 1 /\ d[Len(l) + 1] = c
      /\ \A i \in 1 .. Len(l) : d[i] = l[i]
  BY <1>1
<1>3. ASSUME Unbroken(l), c = [p |-> Len(l) + 1, cut |-> FALSE],
             NEW i \in 1 .. Len(l) + 1
      PROVE  d[i] = [p |-> i, cut |-> FALSE]
  <2>1. CASE i = Len(l) + 1
    BY <1>2, <1>3, <2>1
  <2>2. CASE i \in 1 .. Len(l)
    BY <1>2, <1>3, <2>2 DEF Unbroken
  <2> QED BY <1>2, <2>1, <2>2
<1>4. Unbroken(l) /\ c = [p |-> Len(l) + 1, cut |-> FALSE] => Unbroken(d)
  BY <1>2, <1>3 DEF Unbroken
<1>5. d # << >>
  BY <1>2
<1> QED BY <1>1, <1>2, <1>4, <1>5

LEMMA InvFeed ==
  ASSUME RxInv, Feed
  PROVE  RxInv'
<1> USE DEF RxInv
<1>1. RxTypeOK'
  BY TypeTask DEF Task
<1>2. /\ Stored \in Nat \ {0} /\ Stored' = Stored - 1
      /\ Len(buf) \in Nat \ {0} /\ Len(buf') = Len(buf) - 1
      /\ \A c \in 1 .. Stored : Stream'[c] = Stream[c + 1]
  BY StreamFeed
<1>3. /\ rx = "feed" /\ buf' = Tail(buf)
      /\ rx' = IF Tail(buf) # << >> THEN "feed" ELSE IF rem > 0 THEN "read" ELSE "wait"
      /\ UNCHANGED <<queue, ring, rem, stray, torn>>
  BY DEF Feed, uart, history
<1>4. Ordered'
  <2> SUFFICES ASSUME NEW c \in 1 .. Stored - 1 PROVE Follows(Stream'[c], Stream'[c + 1])
    BY <1>2 DEF Ordered, Follows, After
  <2>1. c + 1 \in 1 .. Stored /\ Stream'[c] = Stream[c + 1] /\ Stream'[c + 1] = Stream[(c + 1) + 1]
    BY <1>2
  <2> QED BY <2>1 DEF Ordered
<1>5. PICK m \in Marks : Counted(m) /\ Rising(m) /\ Noticed(m)
  BY <1>3 DEF Announced, Working
<1>6. PICK l : l = Len(queue)
  OBVIOUS
<1>7. /\ l \in Nat /\ Len(queue') = l /\ m \in [1 .. l + 1 -> Nat]
      /\ rem \in Nat /\ m[1] = Len(buf) + rem
  BY <1>3, <1>5, <1>6, Sizes DEF Marks, Counted, RxTypeOK
<1>8. \A i \in 1 .. l + 1 : m[i] \in Nat /\ m[i] >= 1
  BY <1>2, <1>5, <1>6, <1>7 DEF Rising
<1>9. Continued'
  <2>1. /\ Stream[1] \in Bytes /\ Stream[2] \in Bytes /\ Stream'[1] = Stream[2]
        /\ Follows(Stream[1], Stream[2]) /\ line \in Seq(Chars) /\ Len(line) \in Nat
    BY <1>2, Streamed DEF Ordered, RxTypeOK
  <2>2. PICK b \in Bytes : b = Stream[1]
    BY <2>1
  <2>3. PICK d \in Bytes : d = Stream[2]
    BY <2>1
  <2>4. /\ ~d.cut => d.p = After(b.p)
        /\ d.whole /\ d.p > 1 => ~d.cut /\ b.whole
    BY <2>1, <2>2, <2>3 DEF Follows
  <2>5. b.p \in 1 .. SentenceLen /\ d.p \in 1 .. SentenceLen
    BY DEF Bytes
  <2>6. /\ b.p = 1 => line' = <<[p |-> 1, cut |-> FALSE]>>
        /\ b.p # 1 /\ b.p < SentenceLen /\ line # << >> /\ Len(line) < LineMax - 1 =>
             line' = Append(line, [p |-> b.p, cut |-> b.cut])
        /\ ~(b.p = 1) /\ ~(b.p < SentenceLen /\ line # << >> /\ Len(line) < LineMax - 1) =>
             line' = << >>
    BY <2>2, LineFed
  <2>6a. [p |-> b.p, cut |-> b.cut] \in Chars
    BY DEF Bytes, Chars
  <2>7. CASE b.p = 1
    <3>1. Unbroken(line') /\ Len(line') = 1
      BY <2>6, <2>7, Beginning
    <3>2. ~d.cut => d.p = 2
      BY <2>4, <2>7, Sizes DEF After
    <3> QED BY <2>1, <2>3, <2>4, <3>1, <3>2 DEF Continued, Unbroken
  <2>8. CASE b.p # 1 /\ line' = << >>
    <3>1. ~(d.whole /\ d.p > 1)
      <4> SUFFICES ASSUME d.whole, d.p > 1 PROVE FALSE
        OBVIOUS
      <4>1. b.whole /\ d.p = After(b.p) /\ b.p < SentenceLen /\ b.p > 1
        BY <2>4, <2>5, <2>8, Sizes DEF After
      <4>2. Len(line) = b.p - 1
        BY <2>2, <4>1 DEF Continued
      <4>3. line # << >> /\ Len(line) < LineMax - 1
        BY <2>1, <2>5, <4>1, <4>2, Sizes
      <4>4. line' = Append(line, [p |-> b.p, cut |-> b.cut])
        BY <2>6, <2>8, <4>1, <4>3
      <4> QED BY <2>1, <2>8, <2>6a, <4>4, Longer
    <3>2. Unbroken(line')
      BY <2>8, Beginning
    <3> QED BY <2>1, <2>3, <2>8, <3>1, <3>2 DEF Continued, Unbroken
  <2>9. CASE b.p # 1 /\ b.p < SentenceLen /\ line # << >> /\ Len(line) < LineMax - 1
    <3>1. line' = Append(line, [p |-> b.p, cut |-> b.cut])
      BY <2>6, <2>9
    <3>2. Len(line') = Len(line) + 1
      BY <2>1, <2>6a, <3>1, Longer
    <3>3. ASSUME b.p = Len(line) + 1, ~b.cut, Unbroken(line)
          PROVE  Unbroken(line') /\ Len(line') = b.p
      <4>1. b.cut = FALSE
        BY <3>3 DEF Bytes
      <4>2. [p |-> b.p, cut |-> b.cut] = [p |-> Len(line) + 1, cut |-> FALSE]
        BY <3>3, <4>1
      <4>3. Unbroken(Append(line, [p |-> b.p, cut |-> b.cut]))
        BY <2>1, <2>6a, <3>3, <4>2, Longer
      <4> QED BY <3>1, <3>2, <3>3, <4>3
    <3>4. ~torn => b.p = Len(line) + 1 /\ ~b.cut /\ Unbroken(line)
      <4> SUFFICES ASSUME ~torn PROVE b.p = Len(line) + 1 /\ ~b.cut /\ Unbroken(line)
        OBVIOUS
      <4>1. Unbroken(line)
        BY <1>3 DEF Continued
      <4>2. ~b.cut
        <5> SUFFICES ASSUME b.cut PROVE FALSE
          OBVIOUS
        <5>1. Warned(m, 1)
          BY <1>2, <1>5, <2>2, <2>9 DEF Noticed
        <5> QED BY <1>6, <1>7, <1>8, <5>1 DEF Warned
      <4>3. b.p = Len(line) + 1
        BY <1>3, <2>2, <2>9, <4>2 DEF Continued, Working
      <4> QED BY <4>1, <4>2, <4>3
    <3>5. ~d.cut => d.p = b.p + 1
      BY <2>4, <2>5, <2>9, Sizes DEF After
    <3>6. d.whole /\ d.p > 1 => ~d.cut /\ Len(line') = d.p - 1 /\ Unbroken(line')
      <4> SUFFICES ASSUME d.whole, d.p > 1 PROVE ~d.cut /\ Len(line') = d.p - 1 /\ Unbroken(line')
        OBVIOUS
      <4>1. b.whole /\ ~d.cut /\ b.p > 1
        BY <2>4, <2>5, <2>9
      <4>2. ~b.cut /\ Len(line) = b.p - 1 /\ Unbroken(line)
        BY <2>2, <4>1 DEF Continued
      <4>3. b.p = Len(line) + 1
        BY <2>5, <4>2
      <4> QED BY <2>5, <3>3, <3>5, <4>1, <4>2, <4>3
    <3>7. ~torn => Unbroken(line')
      BY <3>3, <3>4
    <3>8. ~torn /\ ~d.cut => d.p = Len(line') + 1
      BY <2>5, <3>3, <3>4, <3>5
    <3> QED BY <1>3, <2>1, <2>3, <3>6, <3>7, <3>8 DEF Continued, Unbroken
  <2> QED BY <2>6, <2>7, <2>8, <2>9
<1>10. InHand'
  BY <1>3, <1>7 DEF InHand
<1>11. Flushed'
  BY <1>3 DEF Flushed
<1>12. Announced'
  <2>1. PICK w : w = [i \in 1 .. l + 1 |-> m[i] - 1]
    OBVIOUS
  <2>2. w \in [1 .. l + 1 -> Nat]
    BY <1>8, <2>1
  <2>3. w \in Marks'
    BY <1>7, <2>2 DEF Marks
  <2>4. Counted(w)'
    <3>1. w[1] = Len(buf') + rem'
      BY <1>2, <1>3, <1>7, <2>1
    <3>2. ASSUME NEW i \in 1 .. l PROVE w[i + 1] = w[i] + queue'[i]
      <4>1. m[i + 1] = m[i] + queue[i] /\ queue[i] \in Nat
        BY <1>5, <1>6, <3>2, Sizes DEF Counted, RxTypeOK
      <4>2. w[i + 1] = m[i + 1] - 1 /\ w[i] = m[i] - 1 /\ m[i] \in Nat
        BY <1>7, <1>8, <2>1
      <4> QED BY <1>3, <4>1, <4>2
    <3>3. m[l + 1] <= Stored /\ (~stray => m[l + 1] = Stored)
      BY <1>5, <1>6 DEF Counted
    <3>4. w[l + 1] = m[l + 1] - 1 /\ m[l + 1] \in Nat
      BY <1>7, <1>8, <2>1
    <3> QED BY <1>2, <1>3, <1>7, <3>1, <3>2, <3>3, <3>4 DEF Counted
  <2>5. Rising(w)'
    <3> SUFFICES ASSUME NEW i \in 1 .. l + 1, NEW j \in 1 .. l + 1, i <= j PROVE w[i] <= w[j]
      BY <1>7 DEF Rising
    <3>1. m[i] <= m[j] /\ m[i] \in Nat /\ m[j] \in Nat
      BY <1>5, <1>6, <1>7 DEF Rising
    <3> QED BY <2>1, <3>1
  <2>6. ASSUME ~torn, NEW c \in 1 .. Stored, Stream[c + 1].cut
        PROVE  \E k \in 1 .. l : queue[k] = Overflow /\ w[k] < c
    <3>1. c + 1 \in 1 .. Stored + 1 /\ c + 1 # 1
      BY <1>2
    <3>2. Warned(m, c + 1)
      BY <1>5, <2>6, <3>1 DEF Noticed
    <3>3. PICK k \in 1 .. l : queue[k] = Overflow /\ m[k] < c + 1
      BY <1>6, <3>2 DEF Warned
    <3>4. w[k] = m[k] - 1 /\ m[k] \in Nat
      BY <1>7, <1>8, <2>1
    <3> QED BY <3>3, <3>4
  <2>7. ASSUME ~torn', NEW c \in 1 .. Stored, Stream'[c].cut
        PROVE  \E k \in 1 .. Len(queue') : queue'[k] = Overflow /\ w[k] < c
    <3>1. ~torn /\ Stream[c + 1].cut
      BY <1>2, <1>3, <2>7
    <3> QED BY <1>3, <1>7, <2>6, <3>1
  <2>8. Stored' + 1 = Stored
    BY <1>2
  <2>9. Noticed(w)'
    BY <2>7, <2>8 DEF Noticed, Warned, Overflow
  <2> QED BY <2>3, <2>4, <2>5, <2>9 DEF Announced
<1> QED BY <1>1, <1>4, <1>9, <1>10, <1>11, <1>12

-----------------------------------------------------------------------------

LEMMA RxPreserved == RxInv /\ [RxNext]_rxVars => RxInv'
<1> SUFFICES ASSUME RxInv, [RxNext]_rxVars PROVE RxInv'
  OBVIOUS
<1>1. ASSUME NEW n \in 1 .. Burst, Arrive(n) PROVE RxInv'
  BY <1>1, InvArrive
<1>2. ASSUME NEW n \in 1 .. Burst, Overrun(n) PROVE RxInv'
  BY <1>2, InvOverrun
<1>3. CASE Task
  BY <1>3, InvReceive, InvRead, InvFeed, InvFlush, InvReset DEF Task
<1>4. CASE UNCHANGED rxVars
  <2>1. UNCHANGED <<wire, ring, queue, rx, rem, buf, line, gap, whole, stray, torn>>
    BY <1>4 DEF rxVars, uart, task, history
  <2>2. RxTypeOK' /\ InHand'
    BY <2>1 DEF RxInv, RxTypeOK, InHand
  <2>3. Stored' = Stored /\ Stream' = Stream
    BY <2>1 DEF Stored, Stream, Coming
  <2>4. Ordered' /\ Continued' /\ Flushed'
    BY <2>1, <2>3 DEF RxInv, Ordered, Follows, After, Continued, Working, Unbroken, Flushed
  <2>5. Announced'
    BY <2>1, <2>3 DEF RxInv, Announced, Working, Marks, Counted, Rising, Noticed, Warned
  <2> QED BY <2>2, <2>4, <2>5 DEF RxInv
<1> QED BY <1>1, <1>2, <1>3, <1>4 DEF RxNext

LEMMA RxInvariant == RxSpec => []RxInv
BY RxInitInv, RxPreserved, PTL DEF RxSpec

\* The byte at hand when a line ends.
LEMMA AtHand ==
  ASSUME RxInv, Ends
  PROVE  /\ rx = "feed" /\ Head(buf) = Stream[1] /\ Stream[1].p = SentenceLen
         /\ Stream[1].cut => torn \/ line = << >>
<1>1. rx = "feed" /\ Head(buf).p = SentenceLen
  BY DEF Ends
<1>2. buf # << >> /\ buf \in Seq(Bytes) /\ Len(buf) \in Nat \ {0} /\ Head(buf) = buf[1]
  BY <1>1 DEF RxInv, InHand, RxTypeOK
<1>3. Stored \in Nat /\ Len(ring) \in Nat /\ Stored = Len(buf) + Len(ring)
  BY Streamed DEF RxInv
<1>4. Head(buf) = Stream[1]
  BY <1>2, <1>3 DEF Stream
<1>5. ASSUME Stream[1].cut, ~torn PROVE line = << >>
  <2>1. PICK m \in Marks : Counted(m) /\ Rising(m) /\ Noticed(m)
    BY <1>1 DEF RxInv, Announced, Working
  <2>2. Len(queue) \in Nat /\ m \in [1 .. Len(queue) + 1 -> Nat] /\ m[1] = Len(buf) + rem /\ rem \in Nat
    BY <2>1, Sizes DEF RxInv, RxTypeOK, Marks, Counted
  <2>3. ~Warned(m, 1)
    BY <1>2, <2>1, <2>2 DEF Warned, Rising
  <2> QED BY <1>3, <1>5, <2>1, <2>3 DEF Noticed
<1> QED BY <1>1, <1>4, <1>5

LEMMA InvNoSplice == RxInv => NoSplice
<1> SUFFICES ASSUME RxInv, Parses, ~torn PROVE Sound
  BY DEF NoSplice
<1>1. /\ rx = "feed" /\ Head(buf) = Stream[1] /\ Stream[1].p = SentenceLen
      /\ Stream[1].cut => line = << >>
  BY AtHand DEF Parses
<1>2. Len(line) \in Nat /\ Len(line) > 0 /\ line # << >>
  BY Sizes DEF Parses, RxInv, RxTypeOK
<1>3. SentenceLen = Len(line) + 1 /\ Unbroken(line)
  BY <1>1, <1>2 DEF RxInv, Continued, Working
<1>4. Len(line) = SentenceLen - 1
  BY <1>2, <1>3
<1> QED BY <1>1, <1>2, <1>3, <1>4 DEF Sound

LEMMA InvLatestParsed == RxInv => LatestParsed
<1> SUFFICES ASSUME RxInv PROVE LatestParsed
  OBVIOUS
<1>1. ASSUME Ends, Head(buf).whole PROVE Parses /\ Sound
  <2>1. Head(buf) = Stream[1] /\ Stream[1].p = SentenceLen
    BY <1>1, AtHand
  <2>2. ~Stream[1].cut /\ Len(line) = SentenceLen - 1 /\ Unbroken(line)
    BY <1>1, <2>1, Sizes DEF RxInv, Continued
  <2>3. Len(line) >= MinLine
    BY <2>2, Sizes
  <2> QED BY <1>1, <2>1, <2>2, <2>3 DEF Parses, Sound
<1>2. ASSUME rx = "wait", queue = << >>, ~stray PROVE Len(ring) = 0
  <2>1. PICK m \in Marks : Counted(m)
    BY <1>2 DEF RxInv, Announced, Working
  <2>2. buf = << >> /\ rem = 0 /\ Len(buf) = 0 /\ Len(queue) = 0
    BY <1>2 DEF RxInv, InHand
  <2>3. Stored = 0
    BY <1>2, <2>1, <2>2 DEF Counted
  <2> QED BY <2>2, <2>3, Streamed DEF RxInv
<1> QED BY <1>1, <1>2 DEF LatestParsed

(* line[] and buf are never written past their end, for every length of a    *)
(* sentence, every size of the buffers and the queue and every burst.        *)
THEOREM RxTypeCorrect == RxSpec => []RxTypeOK
<1>1. RxInv => RxTypeOK
  BY DEF RxInv
<1> QED BY RxInvariant, <1>1, PTL

(* Only sentences that were sent reach the parser while every overflow is    *)
(* announced, in whatever bursts the bytes come and chunks they are read.    *)
THEOREM OnlySentParsed == RxSpec => []NoSplice
BY RxInvariant, InvNoSplice, PTL

(* No sentence that arrived complete is passed over, and an idle task has    *)
(* none left in the ring unless an event was lost.                           *)
THEOREM AllParsed == RxSpec => []LatestParsed
BY RxInvariant, InvLatestParsed, PTL

-----------------------------------------------------------------------------
(* The time: GnssClock                                                     *)

Secs(e) == Sec * e

Ranges ==
  /\ phase \in 0 .. Sec - 1 /\ pulse \in 0 .. PulseCap
  /\ nmea \in Nat /\ epoch \in Nat \cup {Unset}
  /\ nav \in [epoch : Nat, nmea : Nat]
  /\ at \in Nat /\ held \in 0 .. Delay
  /\ locked \in BOOLEAN /\ clean \in BOOLEAN /\ ontime \in BOOLEAN

\* The last sentence was sent in this second or one of those counted since,
\* and not after Latest.
Sources ==
  epoch # Unset =>
    /\ nmea <= phase + Secs(epoch)
    /\ phase - Latest <= nmea
    /\ burst = "none" => phase + Sec - Latest <= nmea

\* The same of what a call has read.
Snapped ==
  Calling =>
    /\ nav.nmea <= phase + Secs(nav.epoch)
    /\ ontime => pulse = phase
    /\ clean => ontime /\ locked /\ nav.epoch \in {0, 1}
    /\ clean /\ nav.epoch = 0 => phase - Latest <= nav.nmea
    /\ clean /\ nav.epoch = 1 =>
         phase + Sec - Latest <= nav.nmea /\ phase <= Latest + held

ClockInv == Ranges /\ Sources /\ Snapped

-----------------------------------------------------------------------------

LEMMA Constants ==
  /\ Sec \in Nat \ {0} /\ Threshold \in Nat \ {0} /\ Timeout \in Nat /\ Sec < Timeout
  /\ First \in Nat /\ Latest \in Nat /\ Delay \in Nat
  /\ Latest + Threshold < Sec /\ Latest + Delay < Sec
  /\ PulseCap = Timeout + Delay + 1 /\ PulseCap \in Nat
BY ClockAssumption DEF PulseCap

LEMMA Seconds ==
  /\ Secs(0) = 0 /\ Secs(1) = Sec
  /\ \A e \in Nat : Secs(e) \in Nat /\ Secs(e + 1) = Secs(e) + Sec
BY Constants DEF Secs

LEMMA Init0 == Init => ClockInv
<1> SUFFICES ASSUME Init PROVE ClockInv
  OBVIOUS
<1>1. /\ phase = 0 /\ pulse = PulseCap /\ locked = FALSE /\ nmea = 0 /\ epoch = Unset /\ nav = NoNav
      /\ at = 0 /\ held = 0 /\ clean = FALSE /\ ontime = FALSE /\ ~Calling
  BY DEF Init, Calling
<1>2. nav \in [epoch : Nat, nmea : Nat]
  BY <1>1 DEF NoNav
<1>3. 0 \in 0 .. Sec - 1 /\ PulseCap \in 0 .. PulseCap /\ 0 \in 0 .. Delay
  BY Constants
<1>4. Ranges
  BY <1>1, <1>2, <1>3 DEF Ranges
<1> QED BY <1>1, <1>4 DEF ClockInv, Sources, Snapped

\* What a unit of time does to all the ages, s seconds beginning.
LEMMA Ageing ==
  ASSUME ClockInv, NEW s \in {0, 1}, Passes(s)
  PROVE  /\ nmea' \in Nat /\ epoch' \in Nat \cup {Unset} /\ nav' \in [epoch : Nat, nmea : Nat]
         /\ at' \in Nat /\ held' \in 0 .. Delay /\ pc' = pc
         /\ nmea' = nmea + 1
         /\ epoch = Unset => epoch' = Unset
         /\ epoch # Unset => epoch \in Nat /\ epoch' = epoch + s
         /\ Calling => /\ nav'.epoch = nav.epoch + s /\ nav'.nmea = nav.nmea + 1
                       /\ held' = held + 1 /\ held < Delay
<1>1. /\ nmea \in Nat /\ epoch \in Nat \cup {Unset} /\ nav \in [epoch : Nat, nmea : Nat]
      /\ at \in Nat /\ held \in 0 .. Delay
  BY DEF ClockInv, Ranges
<1>2. /\ Calling => held < Delay
      /\ nmea' = nmea + 1
      /\ epoch' = IF epoch = Unset THEN Unset ELSE epoch + s
      /\ nav' = IF Calling THEN [epoch |-> nav.epoch + s, nmea |-> nav.nmea + 1] ELSE nav
      /\ at' = IF pc = "pps" THEN at + 1 ELSE at
      /\ held' = IF Calling THEN held + 1 ELSE held
      /\ pc' = pc
  BY DEF Passes
<1>3. nav.epoch \in Nat /\ nav.nmea \in Nat
  BY <1>1
<1>4. nmea' \in Nat /\ epoch' \in Nat \cup {Unset} /\ at' \in Nat
  BY <1>1, <1>2
<1>5. held' \in 0 .. Delay
  BY <1>1, <1>2, Constants
<1>6. nav' \in [epoch : Nat, nmea : Nat]
  BY <1>1, <1>2, <1>3
<1>7. epoch # Unset => epoch \in Nat /\ epoch' = epoch + s
  BY <1>1, <1>2
<1>8. Calling => nav'.epoch = nav.epoch + s /\ nav'.nmea = nav.nmea + 1
  BY <1>2
<1> QED BY <1>2, <1>4, <1>5, <1>6, <1>7, <1>8

LEMMA TickStep == ClockInv /\ Tick => ClockInv'
<1> SUFFICES ASSUME ClockInv, Tick PROVE ClockInv'
  OBVIOUS
<1>1. /\ phase < Sec - 1 /\ phase' = phase + 1 /\ pulse' = Later(pulse) /\ Passes(0)
      /\ UNCHANGED <<burst, locked, clean, ontime>>
  BY DEF Tick
<1>2. /\ nmea' \in Nat /\ epoch' \in Nat \cup {Unset} /\ nav' \in [epoch : Nat, nmea : Nat]
      /\ at' \in Nat /\ held' \in 0 .. Delay /\ pc' = pc
      /\ nmea' = nmea + 1
      /\ epoch = Unset => epoch' = Unset
      /\ epoch # Unset => epoch \in Nat /\ epoch' = epoch
      /\ Calling => /\ nav'.epoch = nav.epoch /\ nav'.nmea = nav.nmea + 1
                    /\ held' = held + 1
  <2>1. 0 \in {0, 1} /\ (epoch \in Nat => epoch + 0 = epoch) /\ nav.epoch + 0 = nav.epoch
    BY DEF ClockInv, Ranges
  <2> QED BY <1>1, <2>1, Ageing
<1>3. /\ phase \in Nat /\ phase' \in 0 .. Sec - 1 /\ pulse \in 0 .. PulseCap /\ pulse' \in 0 .. PulseCap
      /\ pulse = phase => pulse' = phase'
  BY <1>1, Constants DEF ClockInv, Ranges, Later
<1>4. Ranges'
  BY <1>1, <1>2, <1>3 DEF ClockInv, Ranges
<1>5. Sources'
  <2>1. \A e \in Nat : Secs(e) \in Nat
    BY Seconds
  <2> QED BY <1>1, <1>2, <1>3, <2>1, Constants DEF ClockInv, Ranges, Sources
<1>6. Snapped'
  <2>1. SUFFICES ASSUME Calling PROVE Snapped'
    BY <1>2 DEF Snapped, Calling
  <2>2. Secs(nav.epoch) \in Nat /\ nav.nmea \in Nat /\ nav.epoch \in Nat /\ held \in Nat
    BY Seconds DEF ClockInv, Ranges
  <2>3. nav'.epoch = nav.epoch /\ nav'.nmea = nav.nmea + 1 /\ held' = held + 1
    BY <1>2, <2>1
  <2>4. nav'.nmea <= phase' + Secs(nav'.epoch)
    BY <1>1, <1>3, <2>1, <2>2, <2>3 DEF ClockInv, Snapped
  <2>5. (ontime' => pulse' = phase') /\ (clean' => ontime' /\ locked' /\ nav'.epoch \in {0, 1})
    BY <1>1, <1>3, <2>1, <2>3 DEF ClockInv, Snapped
  <2>6. clean' /\ nav'.epoch = 0 => phase' - Latest <= nav'.nmea
    BY <1>1, <1>3, <2>1, <2>2, <2>3, Constants DEF ClockInv, Snapped
  <2>7. clean' /\ nav'.epoch = 1 =>
           phase' + Sec - Latest <= nav'.nmea /\ phase' <= Latest + held'
    BY <1>1, <1>3, <2>1, <2>2, <2>3, Constants DEF ClockInv, Snapped
  <2> QED BY <2>4, <2>5, <2>6, <2>7 DEF Snapped
<1> QED BY <1>4, <1>5, <1>6 DEF ClockInv

\* A second begins, with a pulse or without.
LEMMA SecondStep == ClockInv /\ (Pulse \/ NoPulse) => ClockInv'
<1> SUFFICES ASSUME ClockInv, Pulse \/ NoPulse PROVE ClockInv'
  OBVIOUS
<1>1. /\ phase = Sec - 1 /\ phase' = 0 /\ Passes(1) /\ burst' = "none"
      /\ \/ pulse' = 0 /\ locked' = (locked \/ InPeriod(Later(pulse))) /\ clean' = clean /\ ontime' = ontime
         \/ pulse' = Later(pulse) /\ locked' = locked /\ ~clean' /\ ~ontime'
      /\ clean' \in BOOLEAN /\ ontime' \in BOOLEAN
  BY DEF Pulse, NoPulse, ClockInv, Ranges
<1>2. /\ nmea' \in Nat /\ epoch' \in Nat \cup {Unset} /\ nav' \in [epoch : Nat, nmea : Nat]
      /\ at' \in Nat /\ held' \in 0 .. Delay /\ pc' = pc
      /\ nmea' = nmea + 1
      /\ epoch = Unset => epoch' = Unset
      /\ epoch # Unset => epoch \in Nat /\ epoch' = epoch + 1
      /\ Calling => /\ nav'.epoch = nav.epoch + 1 /\ nav'.nmea = nav.nmea + 1
                    /\ held' = held + 1 /\ held < Delay
  <2>1. 1 \in {0, 1}
    OBVIOUS
  <2> QED BY <1>1, <2>1, Ageing
<1>3. phase' \in 0 .. Sec - 1 /\ pulse' \in 0 .. PulseCap
  BY <1>1, Constants DEF ClockInv, Ranges, Later
<1>4. locked' \in BOOLEAN /\ (locked => locked')
  <2>1. locked \in BOOLEAN
    BY DEF ClockInv, Ranges
  <2> DEFINE in == InPeriod(Later(pulse))
  <2>2. in \in BOOLEAN
    BY DEF InPeriod
  <2>3. locked' = (locked \/ in) \/ locked' = locked
    BY <1>1
  <2> HIDE DEF in
  <2>4. CASE locked' = locked
    BY <2>1, <2>4
  <2>5. CASE locked' = (locked \/ in)
    BY <2>1, <2>2, <2>5
  <2> QED BY <2>3, <2>4, <2>5
<1>5. Ranges'
  <2>1. clean' \in BOOLEAN /\ ontime' \in BOOLEAN
    BY <1>1
  <2> QED BY <1>2, <1>3, <1>4, <2>1 DEF Ranges
<1>6. Sources'
  <2>1. SUFFICES ASSUME epoch # Unset PROVE Sources'
    BY <1>2 DEF Sources
  <2>2. epoch \in Nat /\ epoch' = epoch + 1 /\ nmea' = nmea + 1 /\ nmea \in Nat
    BY <1>2, <2>1 DEF ClockInv, Ranges
  <2>3. Secs(epoch') = Secs(epoch) + Sec /\ Secs(epoch) \in Nat
    BY <2>2, Seconds
  <2>4. nmea' <= phase' + Secs(epoch')
    BY <1>1, <2>1, <2>2, <2>3, Constants DEF ClockInv, Sources
  <2>5. phase' + Sec - Latest <= nmea'
    BY <1>1, <2>1, <2>2, Constants DEF ClockInv, Sources
  <2>6. phase' - Latest <= nmea'
    BY <1>1, <2>5, <2>2, Constants
  <2> QED BY <2>4, <2>5, <2>6 DEF Sources
<1>7. Snapped'
  <2>1. SUFFICES ASSUME Calling PROVE Snapped'
    BY <1>2 DEF Snapped, Calling
  <2>2. /\ nav.nmea \in Nat /\ nav.epoch \in Nat /\ held \in Nat /\ held < Delay
        /\ nav'.epoch = nav.epoch + 1 /\ nav'.nmea = nav.nmea + 1 /\ held' = held + 1
    BY <1>2, <2>1 DEF ClockInv, Ranges
  <2>3. Secs(nav'.epoch) = Secs(nav.epoch) + Sec /\ Secs(nav.epoch) \in Nat
    BY <2>2, Seconds
  <2>4. nav'.nmea <= phase' + Secs(nav'.epoch)
    BY <1>1, <2>1, <2>2, <2>3, Constants DEF ClockInv, Snapped
  <2>5. ontime' => pulse' = phase'
    BY <1>1
  <2>6. ASSUME clean'
        PROVE  /\ ontime' /\ locked' /\ nav'.epoch = 1
               /\ phase' + Sec - Latest <= nav'.nmea /\ phase' <= Latest + held'
    <3>1. clean /\ ontime' = ontime
      BY <1>1, <2>6
    <3>2. nav.epoch # 1
      BY <1>1, <2>1, <2>2, <3>1, Constants DEF ClockInv, Snapped
    <3>3. ontime /\ locked /\ nav.epoch = 0 /\ phase - Latest <= nav.nmea
      BY <2>1, <3>1, <3>2 DEF ClockInv, Snapped
    <3> QED BY <1>1, <1>4, <2>2, <3>1, <3>3, Constants
  <2> QED BY <2>4, <2>5, <2>6 DEF Snapped
<1> QED BY <1>5, <1>6, <1>7 DEF ClockInv

LEMMA SentenceStep == ClockInv /\ (TimeSentence \/ OtherSentence) => ClockInv'
<1> SUFFICES ASSUME ClockInv, TimeSentence \/ OtherSentence PROVE ClockInv'
  OBVIOUS
<1>1. /\ phase' = phase /\ phase <= Latest /\ phase \in Nat /\ nmea' = 0 /\ burst' # "none"
      /\ epoch' = 0 \/ epoch' = epoch
      /\ UNCHANGED <<pulse, locked, pc, call>>
  BY DEF TimeSentence, OtherSentence, Sending, ClockInv, Ranges
<1>2. Ranges'
  BY <1>1 DEF ClockInv, Ranges, call
<1>3. Sources'
  <2>1. \A e \in Nat : Secs(e) \in Nat
    BY Seconds
  <2>2. epoch' # Unset => Secs(epoch') \in Nat
    BY <1>1, <2>1 DEF ClockInv, Ranges
  <2> QED BY <1>1, <2>2, Constants DEF Sources
<1>4. Snapped'
  BY <1>1 DEF ClockInv, Snapped, Calling, call
<1> QED BY <1>2, <1>3, <1>4 DEF ClockInv

LEMMA ReadNavStep == ClockInv /\ ReadNav => ClockInv'
<1> SUFFICES ASSUME ClockInv, ReadNav PROVE ClockInv'
  OBVIOUS
<1>1. /\ epoch # Unset /\ nav' = [epoch |-> epoch, nmea |-> nmea] /\ held' = 0 /\ at' = 0
      /\ clean' = Complete /\ ontime' = (pulse = phase)
      /\ UNCHANGED <<phase, burst, pulse, locked, nmea, epoch>>
  BY DEF ReadNav, receiver, driver
<1>2. nav'.epoch = epoch /\ nav'.nmea = nmea /\ epoch \in Nat /\ nmea \in Nat
  BY <1>1 DEF ClockInv, Ranges
<1>3. Ranges'
  <2>1. nav' \in [epoch : Nat, nmea : Nat]
    BY <1>1, <1>2
  <2>2. Complete \in BOOLEAN /\ (pulse = phase) \in BOOLEAN /\ held' \in 0 .. Delay
    BY <1>1, Constants DEF Complete, ClockInv, Ranges
  <2> QED BY <1>1, <2>1, <2>2 DEF ClockInv, Ranges
<1>4. Sources'
  BY <1>1 DEF ClockInv, Sources
<1>5. Snapped'
  <2>1. /\ nmea <= phase + Secs(epoch) /\ phase - Latest <= nmea
        /\ burst = "none" => phase + Sec - Latest <= nmea
    BY <1>1 DEF ClockInv, Sources
  <2>2. ASSUME clean'
        PROVE  /\ ontime' /\ locked' /\ epoch \in {0, 1}
               /\ epoch = 1 => burst = "none" /\ phase <= Latest
    <3>1. Complete
      BY <1>1, <2>2, Zenon
    <3>2. pulse = phase /\ locked /\ epoch \in {0, 1} /\ (epoch = 1 => burst = "none" /\ phase <= Latest)
      BY <3>1 DEF Complete
    <3>3. ontime' /\ locked'
      BY <1>1, <3>2, Zenon
    <3> QED BY <3>2, <3>3
  <2>3. clean' /\ epoch = 1 => phase + Sec - Latest <= nmea /\ phase <= Latest + held'
    BY <1>1, <2>1, <2>2, Constants DEF ClockInv, Ranges
  <2> QED BY <1>1, <1>2, <2>1, <2>2, <2>3 DEF Snapped
<1> QED BY <1>3, <1>4, <1>5 DEF ClockInv

LEMMA ClockStep == ClockInv /\ [Next]_vars => ClockInv'
<1> SUFFICES ASSUME ClockInv, [Next]_vars PROVE ClockInv'
  OBVIOUS
<1>1. CASE UNCHANGED vars
  BY <1>1 DEF vars, receiver, driver, call, ClockInv, Ranges, Sources, Snapped, Calling
<1>2. CASE WaitPps \/ GetsEdge
  BY <1>2 DEF WaitPps, GetsEdge, receiver, call, ClockInv, Ranges, Sources, Snapped, Calling
<1>3. CASE WaitTimesOut
  BY <1>3 DEF WaitTimesOut, receiver, driver, call, ClockInv, Ranges, Sources, Snapped, Calling
<1>4. CASE GetPps
  BY <1>4 DEF GetPps, receiver, call, ClockInv, Ranges, Sources, Snapped, Calling
<1>5. CASE ReadNow
  BY <1>5 DEF ReadNow, receiver, driver, call, ClockInv, Ranges, Sources, Snapped, Calling
<1>6. CASE ReadPps
  <2>1. nav' \in [epoch : Nat, nmea : Nat] /\ at' \in Nat /\ held' \in 0 .. Delay
    BY <1>6, Constants DEF ReadPps, NoNav
  <2>2. ~Calling' /\ UNCHANGED <<receiver, driver>> /\ clean' = FALSE /\ ontime' = FALSE
    BY <1>6 DEF ReadPps, Calling
  <2> QED BY <2>1, <2>2 DEF receiver, driver, ClockInv, Ranges, Sources, Snapped
<1> QED BY <1>1, <1>2, <1>3, <1>4, <1>5, <1>6, TickStep, SecondStep, SentenceStep, ReadNavStep DEF Next

LEMMA Inductive == Spec => []ClockInv
BY Init0, ClockStep, PTL DEF Spec

-----------------------------------------------------------------------------

\* The value returned, with the pulse of this second and without.
LEMMA ErrorIs ==
  ASSUME ClockInv, pc = "pps"
  PROVE  /\ ~PpsOk => Error = nav.nmea - phase - Secs(nav.epoch)
         /\ PpsOk /\ ontime /\ NextSecond => Error = Sec - Secs(nav.epoch)
         /\ PpsOk /\ ontime /\ ~NextSecond => Error = - Secs(nav.epoch)
         /\ Secs(nav.epoch) \in Nat /\ nav.epoch \in Nat /\ nav.nmea \in Nat /\ phase \in Nat /\ at \in Nat
         /\ ontime => pulse = phase
         /\ nav.epoch >= 1 => Sec <= Secs(nav.epoch)
<1>1. /\ nav.epoch \in Nat /\ nav.nmea \in Nat /\ phase \in Nat /\ at \in Nat /\ pulse \in Nat
      /\ ontime => pulse = phase
  BY Constants DEF ClockInv, Ranges, Snapped, Calling
<1>2. Secs(nav.epoch) \in Nat
  BY <1>1, Seconds
<1>3. ~PpsOk => Error = nav.nmea - phase - Secs(nav.epoch)
  <2>1. ~PpsOk => Error = (nav.nmea - at - Secs(nav.epoch)) - (phase - at)
    BY DEF Error, Synced, Secs
  <2> QED BY <1>1, <1>2, <2>1
<1>4. PpsOk /\ ontime /\ NextSecond => Error = Sec - Secs(nav.epoch)
  <2>1. Sec * (1 - nav.epoch) = Sec - Secs(nav.epoch)
    BY <1>1, Constants DEF Secs
  <2>2. PpsOk /\ NextSecond => Error = (Sec * (1 - nav.epoch) + pulse - at) - (phase - at)
    BY DEF Error, Synced
  <2> QED BY <1>1, <1>2, <2>1, <2>2, Constants
<1>5. PpsOk /\ ontime /\ ~NextSecond => Error = - Secs(nav.epoch)
  <2>1. Sec * (0 - nav.epoch) = - Secs(nav.epoch)
    BY <1>1, Constants DEF Secs
  <2>2. PpsOk /\ ~NextSecond => Error = (Sec * (0 - nav.epoch) + pulse - at) - (phase - at)
    BY DEF Error, Synced
  <2> QED BY <1>1, <1>2, <2>1, <2>2, Constants
<1>6. nav.epoch >= 1 => Sec <= Secs(nav.epoch)
  BY <1>1, Constants DEF Secs
<1> QED BY <1>1, <1>2, <1>3, <1>4, <1>5, <1>6

(* While no pulse is missing, atgm_get_synced_unix_us never returns a time   *)
(* that is still to come: whichever sentences are lost, for however long,    *)
(* and wherever a pulse or a sentence falls in the call.                     *)
THEOREM NotAhead == Spec => []NeverAhead
<1>1. ASSUME ClockInv PROVE NeverAhead
  <2>1. SUFFICES ASSUME pc = "pps", ontime PROVE Error <= 0
    BY DEF NeverAhead, Returns
  <2>2. nav.nmea <= phase + Secs(nav.epoch)
    BY <1>1, <2>1 DEF ClockInv, Snapped, Calling
  <2>3. /\ Secs(nav.epoch) \in Nat /\ nav.epoch \in Nat /\ nav.nmea \in Nat /\ phase \in Nat
        /\ pulse = phase
    BY <1>1, <2>1, ErrorIs
  <2>4. CASE ~PpsOk
    BY <1>1, <2>1, <2>2, <2>3, <2>4, ErrorIs
  <2>5. CASE PpsOk /\ ~NextSecond
    BY <1>1, <2>1, <2>3, <2>5, ErrorIs
  <2>6. CASE PpsOk /\ NextSecond
    <3>1. nav.nmea > phase
      BY <2>3, <2>6 DEF NextSecond
    <3>2. nav.epoch # 0
      BY <2>2, <2>3, <3>1, Seconds
    <3>3. Sec <= Secs(nav.epoch)
      BY <1>1, <2>1, <2>3, <3>2, ErrorIs
    <3> QED BY <1>1, <2>1, <2>3, <2>6, <3>3, ErrorIs, Constants
  <2> QED BY <2>4, <2>5, <2>6
<1> QED BY <1>1, Inductive, PTL

(* A call that finds every sentence and every pulse so far received returns  *)
(* the true time: the threshold tells the seconds apart for every phase at   *)
(* which sentences come, although a second may begin during the call.        *)
THEOREM Exact == Spec => []Accurate
<1>1. ASSUME ClockInv PROVE Accurate
  <2>1. SUFFICES ASSUME pc = "pps", clean PROVE Error = 0
    BY DEF Accurate, Returns
  <2>2. /\ nav.nmea <= phase + Secs(nav.epoch) /\ ontime /\ locked /\ nav.epoch \in {0, 1}
        /\ nav.epoch = 1 => phase + Sec - Latest <= nav.nmea
    BY <1>1, <2>1 DEF ClockInv, Snapped, Calling
  <2>3. nav.nmea \in Nat /\ phase \in Nat /\ at \in Nat /\ pulse = phase
    BY <1>1, <2>1, <2>2, ErrorIs
  <2>4. phase < Sec
    BY <1>1, Constants DEF ClockInv, Ranges
  <2>5. PpsOk
    BY <2>2, <2>3, <2>4, Constants DEF PpsOk
  <2>6. CASE nav.epoch = 0
    <3>1. ~NextSecond
      BY <2>2, <2>3, <2>6, Seconds DEF NextSecond
    <3> QED BY <1>1, <2>1, <2>2, <2>5, <2>6, <3>1, ErrorIs, Seconds
  <2>7. CASE nav.epoch = 1
    <3>1. NextSecond
      BY <2>2, <2>3, <2>7, Constants DEF NextSecond
    <3> QED BY <1>1, <2>1, <2>2, <2>5, <2>7, <3>1, ErrorIs, Seconds, Constants
  <2> QED BY <2>2, <2>6, <2>7
<1> QED BY <1>1, Inductive, PTL

\* A pulse that is in the semaphore while the caller waits came after it began.
FreshSem == /\ pc \in {"idle", "waits", "now", "pps"}
            /\ pc = "waits" /\ sem => newer

(* atgm_wait_pps returns on no edge that was there before it was called.     *)
THEOREM EdgeIsFresh == Spec => FreshEdge
<1>1. Init => FreshSem
  BY DEF Init, FreshSem
<1>2. FreshSem /\ [Next]_vars => FreshSem'
  <2> SUFFICES ASSUME FreshSem, [Next]_vars PROVE FreshSem'
    OBVIOUS
  <2>1. CASE UNCHANGED vars
    BY <2>1 DEF FreshSem, vars, driver
  <2>2. CASE Tick \/ NoPulse
    BY <2>2 DEF FreshSem, Tick, NoPulse, Passes
  <2>3. CASE Pulse
    BY <2>3 DEF FreshSem, Pulse, Passes
  <2>4. CASE TimeSentence \/ OtherSentence
    BY <2>4 DEF FreshSem, TimeSentence, OtherSentence
  <2>5. CASE WaitPps \/ GetsEdge
    BY <2>5 DEF FreshSem, WaitPps, GetsEdge
  <2>6. CASE WaitTimesOut
    BY <2>6 DEF FreshSem, WaitTimesOut, driver
  <2>7. CASE GetPps
    BY <2>7 DEF FreshSem, GetPps
  <2>8. CASE ReadNav \/ ReadNow \/ ReadPps
    BY <2>8 DEF FreshSem, ReadNav, ReadNow, ReadPps, driver
  <2> QED BY <2>1, <2>2, <2>3, <2>4, <2>5, <2>6, <2>7, <2>8 DEF Next
<1>3. FreshSem /\ [Next]_vars => [GetsEdge => newer]_vars
  BY DEF FreshSem, GetsEdge
<1> QED BY <1>1, <1>2, <1>3, PTL DEF Spec, FreshEdge
-----------------------------------------------------------------------------
(* The ranges, which the bounds of the runs close                          *)

\* How long the silence has been when the phase Latest is reached again.
AtLatest == nmea + (IF phase <= Latest THEN Latest - phase ELSE Sec + Latest - phase)

\* Sentences stay out until their latest phase, not beyond the bounds.
SilenceInv ==
  /\ AtLatest <= MaxSilence
  /\ epoch <= MaxLag /\ (phase > Latest => epoch < MaxLag)

\* A call is shorter than what is left of the second after the latest phase.
CallInv ==
  /\ pc \in {"idle", "waits", "now", "pps"} /\ sem \in BOOLEAN /\ newer \in BOOLEAN
  /\ ~Calling => nav = NoNav /\ at = 0
  /\ Calling => /\ at <= held
                /\ phase - Latest <= nav.nmea /\ nav.nmea <= MaxSilence + held
                /\ nav.epoch <= MaxLag /\ (nav.epoch = MaxLag => phase <= Latest + held)

BoundsInv == SilenceInv /\ CallInv

BurstOK == burst \in {"none", "some", "time"}

\* When a pulse older than Timeout, or an uncounted one, is more than a second old.
PulseInv == pulse \in {phase, phase + Sec, PulseCap}
LEMMA Bounds ==
  /\ MaxSilence \in Nat /\ MaxLag \in Nat /\ Latest <= MaxSilence
  /\ Unset = -1 /\ Latest < Sec - 1
BY ClockAssumption DEF Unset

LEMMA BoundsInit == Init => BoundsInv
<1> SUFFICES ASSUME Init PROVE BoundsInv
  OBVIOUS
<1>1. phase = 0 /\ nmea = 0 /\ epoch = Unset
  BY DEF Init
<1>2. SilenceInv
  BY <1>1, Constants, Bounds DEF SilenceInv, AtLatest
<1>3. CallInv
  BY DEF Init, CallInv, Calling
<1> QED BY <1>2, <1>3 DEF BoundsInv

LEMMA CallFrame ==
  ASSUME CallInv, UNCHANGED <<phase, nav, at, held>>, pc' = pc \/ ~(Calling \/ Calling'),
         pc' \in {"idle", "waits", "now", "pps"}, sem' \in BOOLEAN, newer' \in BOOLEAN
  PROVE  CallInv'
BY DEF CallInv, Calling

LEMMA BoundsTime ==
  ASSUME ClockInv, BoundsInv, Tick \/ Pulse \/ NoPulse
  PROVE  BoundsInv'
<1> USE Constants, Bounds
<1>1. PICK s \in {0, 1} :
        /\ Passes(s)
        /\ \/ s = 0 /\ phase < Sec - 1 /\ phase' = phase + 1
              /\ (phase = Latest => nmea + Sec <= MaxSilence /\ epoch < MaxLag)
           \/ s = 1 /\ phase = Sec - 1 /\ phase' = 0
  BY DEF Tick, Pulse, NoPulse
<1>2. /\ nmea' = nmea + 1 /\ pc' = pc
      /\ epoch = Unset => epoch' = Unset
      /\ epoch # Unset => epoch \in Nat /\ epoch' = epoch + s
      /\ Calling => /\ nav'.epoch = nav.epoch + s /\ nav'.nmea = nav.nmea + 1
                    /\ held' = held + 1 /\ held < Delay
  BY <1>1, Ageing
<1>3. /\ nmea \in Nat /\ epoch \in Nat \cup {Unset} /\ phase \in 0 .. Sec - 1
      /\ nav.epoch \in Nat /\ nav.nmea \in Nat /\ at \in Nat /\ held \in 0 .. Delay
  BY DEF ClockInv, Ranges
<1>4. SilenceInv'
  <2>1. AtLatest <= MaxSilence /\ epoch <= MaxLag /\ (phase > Latest => epoch < MaxLag)
    BY DEF BoundsInv, SilenceInv
  <2>2. AtLatest' <= MaxSilence
    BY <1>1, <1>2, <1>3, <2>1 DEF AtLatest
  <2>3. epoch' <= MaxLag /\ (phase' > Latest => epoch' < MaxLag)
    BY <1>1, <1>2, <1>3, <2>1
  <2> QED BY <2>2, <2>3 DEF SilenceInv
<1>5. CallInv'
  <2>1. pc' \in {"idle", "waits", "now", "pps"} /\ sem' \in BOOLEAN /\ newer' \in BOOLEAN
    <3>1. sem' = sem \/ sem' = TRUE
      BY DEF Tick, Pulse, NoPulse
    <3>2. newer' = newer \/ newer' = (pc = "waits")
      BY DEF Tick, Pulse, NoPulse
    <3> QED BY <1>2, <3>1, <3>2 DEF BoundsInv, CallInv
  <2>2. CASE ~Calling
    <3>1. ~Calling' /\ nav' = NoNav /\ at' = 0
      BY <1>1, <1>2, <2>2 DEF BoundsInv, CallInv, Calling, Passes
    <3> QED BY <2>1, <3>1 DEF CallInv
  <2>3. CASE Calling
    <3>1. /\ at <= held /\ phase - Latest <= nav.nmea /\ nav.nmea <= MaxSilence + held
          /\ nav.epoch <= MaxLag /\ (nav.epoch = MaxLag => phase <= Latest + held)
      BY <2>3 DEF BoundsInv, CallInv
    <3>2. at' <= held'
      BY <1>1, <1>2, <1>3, <2>3, <3>1 DEF Passes
    <3>3. phase' - Latest <= nav'.nmea /\ nav'.nmea <= MaxSilence + held'
      BY <1>1, <1>2, <1>3, <2>3, <3>1
    <3>4. nav'.epoch <= MaxLag /\ (nav'.epoch = MaxLag => phase' <= Latest + held')
      BY <1>1, <1>2, <1>3, <2>3, <3>1
    <3>5. Calling'
      BY <1>2, <2>3 DEF Calling
    <3> QED BY <2>1, <3>2, <3>3, <3>4, <3>5 DEF CallInv
  <2> QED BY <2>2, <2>3
<1> QED BY <1>4, <1>5 DEF BoundsInv

LEMMA BoundsStep == ClockInv /\ BoundsInv /\ [Next]_vars => BoundsInv'
<1> SUFFICES ASSUME ClockInv, BoundsInv, [Next]_vars PROVE BoundsInv'
  OBVIOUS
<1> USE Constants, Bounds
<1>1. /\ SilenceInv /\ CallInv
      /\ pc \in {"idle", "waits", "now", "pps"} /\ sem \in BOOLEAN /\ newer \in BOOLEAN
  BY DEF BoundsInv, CallInv
<1>2. CASE UNCHANGED vars \/ WaitTimesOut
  <2>1. /\ UNCHANGED <<receiver, driver, newer, call>>
        /\ pc' = pc \/ (pc = "waits" /\ pc' = "idle")
    BY <1>2 DEF vars, WaitTimesOut
  <2>2. SilenceInv'
    BY <1>1, <2>1 DEF SilenceInv, AtLatest, receiver, driver
  <2>3. CallInv'
    BY <1>1, <2>1, CallFrame DEF receiver, driver, call, Calling
  <2> QED BY <2>2, <2>3 DEF BoundsInv
<1>3. CASE WaitPps \/ GetsEdge \/ GetPps
  <2>1. /\ UNCHANGED <<receiver, nmea, epoch, call>>
        /\ pc' = pc \/ (pc = "idle" /\ pc' = "waits") \/ (pc = "waits" /\ pc' = "idle")
        /\ sem' = sem \/ sem' = FALSE
        /\ newer' = newer \/ newer' = FALSE
    BY <1>3 DEF WaitPps, GetsEdge, GetPps
  <2>2. SilenceInv'
    BY <1>1, <2>1 DEF SilenceInv, AtLatest, receiver
  <2>3. sem' \in BOOLEAN /\ newer' \in BOOLEAN
    BY <1>1, <2>1
  <2>4. CallInv'
    BY <1>1, <2>1, <2>3, CallFrame DEF receiver, call, Calling
  <2> QED BY <2>2, <2>4 DEF BoundsInv
<1>4. CASE TimeSentence \/ OtherSentence
  <2>1. /\ phase' = phase /\ phase \in 0 .. Latest /\ nmea' = 0 /\ epoch' \in {0, epoch}
        /\ UNCHANGED <<sem, pc, newer, call>>
    BY <1>4 DEF TimeSentence, OtherSentence, Sending, ClockInv, Ranges
  <2>2. SilenceInv'
    BY <1>1, <2>1 DEF SilenceInv, AtLatest
  <2>3. CallInv'
    BY <1>1, <2>1, CallFrame DEF call
  <2> QED BY <2>2, <2>3 DEF BoundsInv
<1>5. CASE ReadNav
  <2>1. /\ epoch \in Nat /\ nmea \in Nat /\ phase \in 0 .. Sec - 1
        /\ phase - Latest <= nmea
    BY <1>5 DEF ReadNav, ClockInv, Ranges, Sources
  <2>2. /\ nav' = [epoch |-> epoch, nmea |-> nmea] /\ held' = 0 /\ at' = 0 /\ pc' = "now"
        /\ UNCHANGED <<phase, nmea, epoch, sem, newer>>
    BY <1>5 DEF ReadNav, receiver, driver
  <2>3. SilenceInv'
    BY <1>1, <2>2 DEF SilenceInv, AtLatest
  <2>4. nmea <= MaxSilence /\ epoch <= MaxLag /\ (epoch = MaxLag => phase <= Latest)
    BY <1>1, <2>1 DEF SilenceInv, AtLatest
  <2>5. nav'.epoch = epoch /\ nav'.nmea = nmea
    BY <2>2
  <2>6. CallInv'
    BY <1>1, <2>1, <2>2, <2>4, <2>5 DEF CallInv, Calling
  <2> QED BY <2>3, <2>6 DEF BoundsInv
<1>6. CASE ReadNow
  <2>1. pc = "now" /\ pc' = "pps" /\ UNCHANGED <<receiver, driver, newer, call>>
    BY <1>6 DEF ReadNow
  <2>2. SilenceInv'
    BY <1>1, <2>1 DEF SilenceInv, AtLatest, receiver, driver
  <2>3. CallInv'
    BY <1>1, <2>1 DEF CallInv, Calling, receiver, driver, call
  <2> QED BY <2>2, <2>3 DEF BoundsInv
<1>7. CASE ReadPps
  <2>1. /\ pc' = "idle" /\ nav' = NoNav /\ at' = 0
        /\ UNCHANGED <<receiver, driver, newer>>
    BY <1>7 DEF ReadPps
  <2>2. SilenceInv'
    BY <1>1, <2>1 DEF SilenceInv, AtLatest, receiver, driver
  <2>3. CallInv'
    BY <1>1, <2>1 DEF CallInv, Calling, driver
  <2> QED BY <2>2, <2>3 DEF BoundsInv
<1> QED BY <1>2, <1>3, <1>4, <1>5, <1>6, <1>7, BoundsTime DEF Next

(* Every age and every count stays in its range: the bounds on what the      *)
(* receiver leaves out are never passed by what was let in before.           *)
THEOREM TypeCorrect == Spec => []TypeOK
<1>1. Spec => [](ClockInv /\ BoundsInv)
  BY Init0, ClockStep, BoundsInit, BoundsStep, PTL DEF Spec
<1>2. ASSUME ClockInv, BoundsInv, BurstOK PROVE TypeOK
  <2> USE Constants, Bounds
  <2>1. /\ phase \in 0 .. Sec - 1 /\ pulse \in 0 .. PulseCap
        /\ nmea \in Nat /\ epoch \in Nat \cup {Unset} /\ nav \in [epoch : Nat, nmea : Nat]
        /\ at \in Nat /\ held \in 0 .. Delay
        /\ locked \in BOOLEAN /\ clean \in BOOLEAN /\ ontime \in BOOLEAN
    BY <1>2 DEF ClockInv, Ranges
  <2>2. nmea <= MaxSilence /\ epoch \in Unset .. MaxLag
    BY <1>2, <2>1 DEF BoundsInv, SilenceInv, AtLatest
  <2>3. nav.epoch <= MaxLag /\ nav.nmea <= MaxSilence + Delay /\ at <= Delay
    <3>1. CASE Calling
      BY <1>2, <2>1, <3>1 DEF BoundsInv, CallInv
    <3>2. CASE ~Calling
      BY <1>2, <2>1, <3>2 DEF BoundsInv, CallInv, NoNav
    <3> QED BY <3>1, <3>2
  <2>4. nav \in [epoch : 0 .. MaxLag, nmea : 0 .. MaxSilence + Delay]
    BY <2>1, <2>3
  <2> QED BY <1>2, <2>1, <2>2, <2>3, <2>4 DEF TypeOK, BoundsInv, CallInv, BurstOK
<1>3. Init => BurstOK
  BY DEF Init, BurstOK
<1>4. BurstOK /\ [Next]_vars => BurstOK'
  BY DEF BurstOK, vars, receiver, Next, Tick, Pulse, NoPulse, TimeSentence, OtherSentence, WaitPps,
         GetsEdge, WaitTimesOut, GetPps, ReadNav, ReadNow, ReadPps
<1>5. Spec => []BurstOK
  BY <1>3, <1>4, PTL DEF Spec
<1> QED BY <1>1, <1>2, <1>5, PTL

-----------------------------------------------------------------------------
(* Old pulses                                                              *)

LEMMA PulseStep ==
  ASSUME Timeout + Delay < 2 * Sec
  PROVE  ClockInv /\ PulseInv /\ [Next]_vars => PulseInv'
<1> SUFFICES ASSUME ClockInv, PulseInv, [Next]_vars PROVE PulseInv'
  OBVIOUS
<1>1. /\ phase \in 0 .. Sec - 1 /\ pulse \in 0 .. PulseCap
      /\ pulse = phase \/ pulse = phase + Sec \/ pulse = PulseCap
      /\ Sec \in Nat /\ PulseCap \in Nat /\ Sec < PulseCap /\ PulseCap <= 2 * Sec
  BY Constants DEF ClockInv, Ranges, PulseInv
<1>2. CASE Tick
  <2>1. phase' = phase + 1 /\ phase < Sec - 1 /\ pulse' = Later(pulse)
    BY <1>2 DEF Tick
  <2> QED BY <1>1, <2>1 DEF PulseInv, Later
<1>3. CASE NoPulse
  <2>1. phase' = 0 /\ phase = Sec - 1 /\ pulse' = Later(pulse)
    BY <1>3 DEF NoPulse
  <2> QED BY <1>1, <2>1 DEF PulseInv, Later
<1>4. CASE Pulse
  BY <1>4 DEF Pulse, PulseInv
<1>5. ASSUME phase' = phase, pulse' = pulse
      PROVE  PulseInv'
  BY <1>5 DEF PulseInv
<1> QED BY <1>2, <1>3, <1>4, <1>5 DEF Next, vars, receiver, driver, TimeSentence, OtherSentence,
           WaitPps, GetsEdge, WaitTimesOut, GetPps, ReadNav, ReadNow, ReadPps

(* A pulse that is too old to be used is not used, and any other is of this  *)
(* second or the one before: with a timeout and a call of less than two      *)
(* seconds together, as 1.2 s allows, the time is never wrong by more than   *)
(* a second and the age of the sentences.                                    *)
THEOREM ErrorBounded ==
  ASSUME Timeout + Delay < 2 * Sec
  PROVE  Spec => []Bounded
<1>1. Init => PulseInv
  BY DEF Init, PulseInv
<1>2. Spec => [](ClockInv /\ BoundsInv /\ PulseInv)
  BY <1>1, PulseStep, Init0, ClockStep, BoundsInit, BoundsStep, PTL DEF Spec
<1>3. ASSUME ClockInv, BoundsInv, PulseInv PROVE Bounded
  <2>1. SUFFICES ASSUME pc = "pps", nav.epoch <= 1
                 PROVE  Error \in - (Sec + Latest) .. Sec
    BY DEF Bounded, Returns
  <2>2. /\ nav.epoch \in Nat /\ nav.nmea \in Nat /\ phase \in 0 .. Sec - 1 /\ at \in Nat
        /\ pulse \in Nat /\ held <= Delay /\ held \in Nat /\ locked \in BOOLEAN
    BY <1>3, Constants DEF ClockInv, Ranges
  <2>3. /\ nav.nmea <= phase + Secs(nav.epoch) /\ phase - Latest <= nav.nmea /\ at <= held
    BY <1>3, <2>1 DEF ClockInv, Snapped, BoundsInv, CallInv, Calling
  <2>4. nav.epoch = 0 \/ nav.epoch = 1
    BY <2>1, <2>2
  <2>5. CASE ~PpsOk
    <3>1. Error = nav.nmea - phase - Secs(nav.epoch)
      BY <1>3, <2>1, <2>5, ErrorIs
    <3>2. Error \in Int /\ - (Sec + Latest) <= Error /\ Error <= Sec
      <4>1. CASE nav.epoch = 0
        BY <2>2, <2>3, <3>1, <4>1, Seconds, Constants
      <4>2. CASE nav.epoch = 1
        BY <2>2, <2>3, <3>1, <4>2, Seconds, Constants
      <4> QED BY <2>4, <4>1, <4>2
    <3> QED BY <3>2, Constants
  <2>6. CASE PpsOk
    <3>1. pulse = phase \/ pulse = phase + Sec
      BY <1>3, <2>2, <2>3, <2>6, Constants DEF PulseInv, PpsOk
    <3>2. NextSecond => nav.epoch = 1
      BY <2>2, <2>3, <2>4, <3>1, Seconds, Constants DEF NextSecond
    <3>3. CASE NextSecond
      <4>1. Error = (Sec * (1 - 1) + pulse - at) - (phase - at)
        BY <2>6, <3>2, <3>3 DEF Error, Synced
      <4> QED BY <2>2, <3>1, <4>1, Constants
    <3>4. CASE ~NextSecond
      <4>1. Error = (Sec * (0 - nav.epoch) + pulse - at) - (phase - at)
        BY <2>6, <3>4 DEF Error, Synced
      <4>2. CASE nav.epoch = 0
        BY <2>2, <3>1, <4>1, <4>2, Constants
      <4>3. CASE nav.epoch = 1
        BY <2>2, <3>1, <4>1, <4>3, Constants
      <4> QED BY <2>4, <4>2, <4>3
    <3> QED BY <3>3, <3>4
  <2> QED BY <2>5, <2>6
<1> QED BY <1>2, <1>3, PTL
=============================================================================
