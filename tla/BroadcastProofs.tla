--------------------------- MODULE BroadcastProofs ---------------------------
(***************************************************************************)
(* Proofs about Broadcast for every value of its constants: type           *)
(* correctness, and that no subscriber is handed a row twice or out of     *)
(* order.                                                                  *)
(*                                                                         *)
(* The inductive invariant is a conjunction of a record invariant for each *)
(* subscriber and of what the daemon's loop guarantees.  The record        *)
(* invariant places every row a subscriber holds either in its replay      *)
(* (seq <= pos <= base) or in the live range base < seq <= cursor, and     *)
(* ties the watermark to that boundary: while it is set it equals base,    *)
(* and once it is cleared the cursor has passed base.                      *)
(***************************************************************************)
EXTENDS Broadcast, TLAPS

(* The replay window and the watermark of a registered subscriber.         *)
WindowInv(r, c, n) ==
  r.phase \in Registered =>
    /\ r.base <= n /\ r.since <= r.base
    /\ r.lo <= r.pos /\ r.pos <= r.end /\ r.end <= r.base
    /\ \/ r.wm = r.base
       \/ r.wm = 0 /\ r.base <= c

(* Where the rows a subscriber holds come from.                            *)
RangeInv(r, c) ==
  /\ \A i \in DOMAIN r.out : r.out[i] <= r.pos \/ (r.base < r.out[i] /\ r.out[i] <= c)
  /\ r.phase \in PreAck \cup {"replay"} => \A i \in DOMAIN r.out : r.out[i] <= r.pos
  /\ \A i \in DOMAIN r.buf : r.base < r.buf[i] /\ r.buf[i] <= c
  /\ r.phase \notin PreAck \cup {"replay", "flush"} => r.buf = <<>>
  /\ r.phase \in PreAck \cup {"hello"} => r.lo = 0 /\ r.pos = 0 /\ r.end = 0
  /\ r.phase = "hello" => r.out = <<>> /\ r.base = 0 /\ r.wm = 0 /\ r.since = NoSince

RecInv(r, c, n) ==
  /\ r \in SubscriberType
  /\ r.read <= r.sent /\ r.sent <= Len(r.out)
  /\ WindowInv(r, c, n)
  /\ r.phase # "closed" => RangeInv(r, c)
  /\ r.phase = "closed" => r.buf = <<>>
  /\ InOrder(r)

(* The event loop: a pass has rows to go, and a subscribe task that is     *)
(* replaying or flushing holds the loop alone.                             *)
InTask(r) == r.phase \in {"replay", "flush"}

LoopInv ==
  /\ cursor <= Len(log) /\ sweepEnd <= Len(log)
  /\ loop = "sweep" => cursor < sweepEnd
  /\ \A s \in Sub : InTask(subs[s]) => loop = "task"
  /\ \A s, t \in Sub : InTask(subs[s]) /\ InTask(subs[t]) => s = t

IInv ==
  /\ TypeOK
  /\ LoopInv
  /\ \A s \in Sub : RecInv(subs[s], cursor, Len(log))

-----------------------------------------------------------------------------
(* What a record update leaves alone.  One fact for each shape of update   *)
(* the actions make, so that a later step needs no record reasoning.       *)

(* Everything but the wire side (out, sent, lag) of two records agrees.    *)
SameSubscription(e, r) ==
  /\ e.phase = r.phase /\ e.peer = r.peer /\ e.want = r.want /\ e.since = r.since
  /\ e.wm = r.wm /\ e.buf = r.buf /\ e.read = r.read
  /\ e.lo = r.lo /\ e.pos = r.pos /\ e.end = r.end /\ e.base = r.base

(* The wire side of a record.                                              *)
Carries(e, o, k, l) == e.out = o /\ e.sent = k /\ e.lag = l

Rewire(r, o, k, l) == [r EXCEPT !.out = o, !.sent = k, !.lag = l]

(* A new queue, sent count and lag change nothing else.                    *)
LEMMA RewireFacts ==
  ASSUME NEW r \in SubscriberType, NEW o \in Seq(Frame), NEW k \in Nat, NEW l \in Nat
  PROVE  /\ Rewire(r, o, k, l) \in SubscriberType
         /\ SameSubscription(Rewire(r, o, k, l), r)
         /\ Carries(Rewire(r, o, k, l), o, k, l)
  BY DEF SubscriberType, SameSubscription, Rewire, Carries

(* Enqueue changes the wire side only: the frame is appended once, or not  *)
(* at all when the peer is dead.                                           *)
LEMMA EnqueueFacts ==
  ASSUME NEW r \in SubscriberType, NEW f \in Frame
  PROVE  /\ Enqueue(r, f) \in SubscriberType
         /\ SameSubscription(Enqueue(r, f), r)
         /\ \/ Carries(Enqueue(r, f), Append(r.out, f), r.sent, r.lag + 1)
            \/ Carries(Enqueue(r, f), r.out, r.sent, LAG_LIMIT)
            \/ Carries(Enqueue(r, f), Append(r.out, f), r.sent + 1, 0)
<1>1. r.out \in Seq(Frame) /\ r.sent \in Nat /\ r.lag \in Nat
  BY DEF SubscriberType
<1>2. Append(r.out, f) \in Seq(Frame)
  BY <1>1
<1>3. LAG_LIMIT \in Nat /\ r.lag + 1 \in Nat /\ r.sent + 1 \in Nat
  BY <1>1, LimitsAssumption
<1>4. CASE Queued(r)
  <2>1. Enqueue(r, f) = Rewire(r, Append(r.out, f), r.sent, r.lag + 1)
    BY <1>4 DEF SubscriberType, Enqueue, Rewire
  <2>2. QED
    BY <1>1, <1>2, <1>3, <2>1, RewireFacts
<1>5. CASE ~Queued(r) /\ ~r.peer
  <2>1. Enqueue(r, f) = Rewire(r, r.out, r.sent, LAG_LIMIT)
    BY <1>5 DEF SubscriberType, Enqueue, Rewire
  <2>2. QED
    BY <1>1, <1>3, <2>1, RewireFacts
<1>6. CASE ~Queued(r) /\ r.peer /\ Room(r)
  <2>1. Enqueue(r, f) = Rewire(r, Append(r.out, f), r.sent + 1, 0)
    BY <1>6 DEF SubscriberType, Enqueue, Rewire
  <2>2. QED
    BY <1>1, <1>2, <1>3, <2>1, RewireFacts
<1>7. CASE ~Queued(r) /\ r.peer /\ ~Room(r)
  <2>1. Enqueue(r, f) = Rewire(r, Append(r.out, f), r.sent, r.lag + 1)
    BY <1>7 DEF SubscriberType, Enqueue, Rewire
  <2>2. QED
    BY <1>1, <1>2, <1>3, <2>1, RewireFacts
<1>8. QED
  BY <1>4, <1>5, <1>6, <1>7

(* One more frame at the end of a queue.                                   *)
LEMMA AppendFacts ==
  ASSUME NEW o \in Seq(Frame), NEW f \in Frame, NEW w, w = Append(o, f)
  PROVE  /\ w \in Seq(Frame)
         /\ Len(w) = Len(o) + 1 /\ Len(o) \in Nat
         /\ DOMAIN w = 1..(Len(o) + 1) /\ DOMAIN o = 1..Len(o)
         /\ w[Len(o) + 1] = f
         /\ \A i \in 1..Len(o) : w[i] = o[i] /\ o[i] \in Frame
  OBVIOUS

(* One more row at the end of a pre-ack buffer.                            *)
LEMMA AppendRowFacts ==
  ASSUME NEW o \in Seq(Nat \ {0}), NEW q \in Nat \ {0}, NEW w, w = Append(o, q)
  PROVE  /\ w \in Seq(Nat \ {0})
         /\ DOMAIN w = 1..(Len(o) + 1) /\ DOMAIN o = 1..Len(o) /\ Len(o) \in Nat
         /\ \A i \in 1..Len(o) : w[i] = o[i] /\ o[i] \in Nat
         /\ w[Len(o) + 1] = q
  OBVIOUS

(* The rows of a pre-ack buffer: ascending, and all in lo+1..hi.           *)
Ascending(o) == \A i, j \in DOMAIN o : i < j => o[i] < o[j]
Between(o, lo, hi) == \A i \in DOMAIN o : lo < o[i] /\ o[i] <= hi

(* A row above the ones in the buffer keeps it within bounds and sorted.   *)
LEMMA AppendRowOrder ==
  ASSUME NEW o \in Seq(Nat \ {0}), NEW q \in Nat \ {0}, NEW w, w = Append(o, q),
         NEW a \in Nat, NEW c \in Nat, a <= c, q = c + 1, Between(o, a, c), Ascending(o)
  PROVE  Between(w, a, q) /\ Ascending(w)
<1>1. \A i \in 1..(Len(o) + 1) : a < w[i] /\ w[i] <= q
  <2> TAKE i \in 1..(Len(o) + 1)
  <2>1. CASE i = Len(o) + 1
    BY <2>1, AppendRowFacts
  <2>2. CASE i \in 1..Len(o)
    BY <2>2, AppendRowFacts DEF Between
  <2>3. QED
    BY <2>1, <2>2, AppendRowFacts
<1>2. \A i, j \in 1..(Len(o) + 1) : i < j => w[i] < w[j]
  <2> TAKE i, j \in 1..(Len(o) + 1)
  <2>1. CASE j = Len(o) + 1
    BY <2>1, AppendRowFacts DEF Between
  <2>2. CASE j \in 1..Len(o)
    BY <2>2, AppendRowFacts DEF Ascending
  <2>3. QED
    BY SMTT(20), <2>1, <2>2, AppendRowFacts
<1>3. DOMAIN w = 1..(Len(o) + 1)
  BY AppendRowFacts
<1>4. QED
  BY <1>1, <1>2, <1>3 DEF Between, Ascending

(* The rest of an ascending buffer lies above its head.                    *)
LEMMA TailRowFacts ==
  ASSUME NEW o \in Seq(Nat \ {0}), o # <<>>, NEW w, w = Tail(o), Ascending(o)
  PROVE  /\ w \in Seq(Nat \ {0}) /\ Ascending(w)
         /\ 1 \in DOMAIN o /\ Head(o) = o[1] /\ o[1] \in Nat \ {0}
         /\ \A i \in DOMAIN w : i + 1 \in DOMAIN o /\ w[i] = o[i + 1] /\ o[1] < w[i]
<1>1. /\ w \in Seq(Nat \ {0}) /\ Len(o) \in Nat \ {0}
      /\ DOMAIN w = 1..(Len(o) - 1) /\ DOMAIN o = 1..Len(o)
      /\ Head(o) = o[1]
  OBVIOUS
<1>2. \A i \in 1..(Len(o) - 1) : w[i] = o[i + 1]
  OBVIOUS
<1>3. \A i \in DOMAIN w : i + 1 \in DOMAIN o /\ 1 < i + 1 /\ i \in Int
  BY <1>1
<1>4. 1 \in DOMAIN o /\ o[1] \in Nat \ {0}
  BY <1>1
<1>5. \A i \in DOMAIN w : o[1] < w[i]
  BY <1>1, <1>2, <1>3, <1>4 DEF Ascending
<1>6. Ascending(w)
  <2> SUFFICES ASSUME NEW i \in DOMAIN w, NEW j \in DOMAIN w, i < j
               PROVE  w[i] < w[j]
    BY DEF Ascending
  <2>1. i + 1 \in DOMAIN o /\ j + 1 \in DOMAIN o /\ i + 1 < j + 1
    BY <1>3
  <2>2. o[i + 1] < o[j + 1]
    BY <2>1 DEF Ascending
  <2>3. QED
    BY <1>1, <1>2, <2>2
<1>7. QED
  BY <1>1, <1>2, <1>3, <1>4, <1>5, <1>6

(* Frames are integers.                                                    *)
LEMMA FrameIsInt ==
  /\ Frame \subseteq Int
  /\ \A o \in Seq(Frame) : \A i \in DOMAIN o : o[i] \in Int
<1>1. Frame \subseteq Int
  BY DEF Frame, Ack, Beat, Reject
<1>2. \A o \in Seq(Frame) : \A i \in DOMAIN o : o[i] \in Frame
  OBVIOUS
<1>3. QED
  BY <1>1, <1>2

-----------------------------------------------------------------------------
(* The record invariant under the operators on subscribers.                *)

(* A frame that may be handed over next: control frames always, a row's    *)
(* frame when it lies above all that was handed over, below all that is    *)
(* held back, and in the replay window or the live range.                  *)
Admits(r, f, c) ==
  f > 0 => /\ \A i \in DOMAIN r.out : r.out[i] < f
           /\ \A j \in DOMAIN r.buf : f < r.buf[j]
           /\ f <= r.pos \/ (r.base < f /\ f <= c)
           /\ r.phase \in PreAck \cup {"replay"} => f <= r.pos

(* Appending an admissible frame keeps what is known of the frames handed  *)
(* over.                                                                   *)
LEMMA HandOver ==
  ASSUME NEW c \in Nat, NEW n \in Nat, NEW r, NEW e \in SubscriberType, NEW f \in Frame,
         RecInv(r, c, n), r.phase \in Registered, Admits(r, f, c),
         SameSubscription(e, r), e.out = Append(r.out, f),
         e.sent = r.sent \/ e.sent = r.sent + 1
  PROVE  RecInv(e, c, n)
<1>1. /\ r \in SubscriberType /\ WindowInv(r, c, n) /\ RangeInv(r, c) /\ InOrder(r)
      /\ r.read <= r.sent /\ r.sent <= Len(r.out) /\ r.phase # "closed"
  BY DEF RecInv, Registered
<1>2. /\ r.out \in Seq(Frame) /\ r.buf \in Seq(Nat \ {0}) /\ r.sent \in Nat /\ r.read \in Nat
      /\ r.pos \in Nat /\ r.base \in Nat
  BY <1>1 DEF SubscriberType
<1>3. f \in Int /\ \A i \in DOMAIN r.out : r.out[i] \in Int
  BY <1>2, FrameIsInt
<1>4. /\ Len(e.out) = Len(r.out) + 1 /\ Len(r.out) \in Nat
      /\ DOMAIN e.out = 1..(Len(r.out) + 1) /\ DOMAIN r.out = 1..Len(r.out)
      /\ e.out[Len(r.out) + 1] = f
      /\ \A i \in 1..Len(r.out) : e.out[i] = r.out[i]
  BY <1>2, AppendFacts
<1>5. \A j \in DOMAIN r.buf : r.buf[j] \in Nat \ {0}
  BY <1>2
<1>6. e.read <= e.sent /\ e.sent <= Len(e.out)
  BY <1>1, <1>2, <1>4 DEF SameSubscription
<1>7. WindowInv(e, c, n)
  BY <1>1 DEF WindowInv, SameSubscription
<1>8. RangeInv(e, c)
  <2>1. \A i \in DOMAIN e.out : e.out[i] <= r.pos \/ (r.base < e.out[i] /\ e.out[i] <= c)
    <3>1. \A i \in 1..Len(r.out) :
            e.out[i] <= r.pos \/ (r.base < e.out[i] /\ e.out[i] <= c)
      BY <1>1, <1>4 DEF RangeInv
    <3>2. f <= r.pos \/ (r.base < f /\ f <= c)
      BY <1>2, <1>3 DEF Admits
    <3>3. QED
      BY <1>4, <3>1, <3>2
  <2>2. r.phase \in PreAck \cup {"replay"} => \A i \in DOMAIN e.out : e.out[i] <= r.pos
    BY SMTT(20), <1>1, <1>2, <1>3, <1>4 DEF RangeInv, Admits
  <2>3. QED
    BY <1>1, <2>1, <2>2 DEF RangeInv, SameSubscription, Registered
<1>9. InOrder(e)
  <2>1. \A i, j \in DOMAIN e.out :
          i < j /\ e.out[i] > 0 /\ e.out[j] > 0 => e.out[i] < e.out[j]
    BY <1>1, <1>3, <1>4 DEF InOrder, Admits
  <2>2. \A i \in DOMAIN e.out, j \in DOMAIN r.buf : e.out[i] < r.buf[j]
    BY <1>1, <1>3, <1>4, <1>5 DEF InOrder, Admits
  <2>3. QED
    BY <1>1, <2>1, <2>2 DEF InOrder, SameSubscription
<1>10. QED
  BY <1>1, <1>6, <1>7, <1>8, <1>9 DEF RecInv, SameSubscription

(* Fewer or no more frames waiting: what was handed over is the same.      *)
LEMMA SameFrames ==
  ASSUME NEW c \in Nat, NEW n \in Nat, NEW r, NEW e \in SubscriberType,
         RecInv(r, c, n), SameSubscription(e, r), e.out = r.out,
         r.sent <= e.sent, e.sent <= Len(e.out)
  PROVE  RecInv(e, c, n)
<1>1. r \in SubscriberType
  BY DEF RecInv
<1>2. r.read \in Nat /\ r.sent \in Nat /\ e.sent \in Nat
  BY <1>1 DEF SubscriberType
<1>3. e.read <= e.sent
  BY <1>2 DEF RecInv, SameSubscription
<1>4. WindowInv(e, c, n) /\ InOrder(e) /\ (r.phase # "closed" => RangeInv(e, c))
  BY DEF RecInv, WindowInv, InOrder, RangeInv, SameSubscription
<1>5. QED
  BY <1>3, <1>4 DEF RecInv, SameSubscription

(* Enqueue keeps the record invariant.                                     *)
LEMMA EnqueueRec ==
  ASSUME NEW c \in Nat, NEW n \in Nat, NEW r, NEW f \in Frame,
         RecInv(r, c, n), r.phase \in Registered, Admits(r, f, c)
  PROVE  RecInv(Enqueue(r, f), c, n) /\ Enqueue(r, f).phase = r.phase
<1>1. r \in SubscriberType /\ r.sent <= Len(r.out)
  BY DEF RecInv
<1>2. Enqueue(r, f) \in SubscriberType /\ SameSubscription(Enqueue(r, f), r)
  BY <1>1, EnqueueFacts
<1>3. CASE \E l : Carries(Enqueue(r, f), r.out, r.sent, l)
  <2>1. r.sent \in Nat
    BY <1>1 DEF SubscriberType
  <2>2. QED
    BY <1>1, <1>2, <1>3, <2>1, SameFrames DEF Carries, SameSubscription
<1>4. CASE \E k \in {r.sent, r.sent + 1} : \E l : Carries(Enqueue(r, f), Append(r.out, f), k, l)
  BY <1>2, <1>4, HandOver DEF Carries, SameSubscription
<1>5. QED
  BY <1>1, <1>3, <1>4, EnqueueFacts

(* The record CloseSubscriber leaves.                                      *)
Closed(o, k) == [Unused EXCEPT !.phase = "closed", !.out = o, !.sent = k]

LEMMA ClosedRec ==
  ASSUME NEW c \in Nat, NEW n \in Nat, NEW o \in Seq(Frame), NEW k \in Nat, k <= Len(o),
         \A i, j \in DOMAIN o : i < j /\ o[i] > 0 /\ o[j] > 0 => o[i] < o[j]
  PROVE  RecInv(Closed(o, k), c, n) /\ Closed(o, k).phase = "closed"
<1>1. /\ Closed(o, k) \in SubscriberType /\ Closed(o, k).phase = "closed"
      /\ Closed(o, k).out = o /\ Closed(o, k).sent = k /\ Closed(o, k).buf = <<>>
      /\ Closed(o, k).read = 0
  <2>1. Unused \in SubscriberType /\ Unused.buf = <<>> /\ Unused.read = 0
    BY DEF Unused, SubscriberType, Phase, NoSince
  <2>2. "closed" \in Phase
    BY DEF Phase
  <2>3. QED
    BY <2>1, <2>2 DEF Closed, SubscriberType
<1>2. InOrder(Closed(o, k))
  BY <1>1 DEF InOrder
<1>3. WindowInv(Closed(o, k), c, n)
  BY <1>1 DEF WindowInv, Registered
<1>4. QED
  BY <1>1, <1>2, <1>3 DEF RecInv

(* _close_subscriber keeps the record invariant.                           *)
LEMMA CloseRec ==
  ASSUME NEW c \in Nat, NEW n \in Nat, NEW r, NEW terminal \in BOOLEAN, RecInv(r, c, n)
  PROVE  /\ RecInv(CloseSubscriber(r, terminal), c, n)
         /\ CloseSubscriber(r, terminal).phase = "closed"
<1> DEFINE say == terminal /\ ~Queued(r) /\ r.peer /\ Room(r)
<1>1. /\ r \in SubscriberType /\ InOrder(r) /\ r.sent <= Len(r.out)
  BY DEF RecInv
<1>2. r.out \in Seq(Frame) /\ r.sent \in Nat /\ Reject \in Frame /\ Reject = -2
  BY <1>1 DEF SubscriberType, Frame, Reject
<1>3. CASE say
  <2>1. PICK w : w = Append(r.out, Reject)
    OBVIOUS
  <2>2. /\ w \in Seq(Frame) /\ r.sent + 1 <= Len(w) /\ r.sent + 1 \in Nat
        /\ \A i, j \in DOMAIN w : i < j /\ w[i] > 0 /\ w[j] > 0 => w[i] < w[j]
    BY SMTT(20), <1>1, <1>2, <2>1, AppendFacts, FrameIsInt DEF InOrder
  <2>3. CloseSubscriber(r, terminal) = Closed(w, r.sent + 1)
    BY <1>3, <2>1 DEF CloseSubscriber, Closed
  <2>4. QED
    BY <2>2, <2>3, ClosedRec
<1>4. CASE ~say
  <2>1. PICK w : w = SubSeq(r.out, 1, r.sent)
    OBVIOUS
  <2>2. /\ w \in Seq(Frame) /\ Len(w) = r.sent /\ DOMAIN w = 1..r.sent
        /\ \A i \in 1..r.sent : i \in DOMAIN r.out /\ w[i] = r.out[i]
    BY <1>1, <1>2, <2>1
  <2>3. \A i, j \in DOMAIN w : i < j /\ w[i] > 0 /\ w[j] > 0 => w[i] < w[j]
    BY <1>1, <2>2 DEF InOrder
  <2>4. CloseSubscriber(r, terminal) = Closed(w, r.sent)
    BY <1>4, <2>1 DEF CloseSubscriber, Closed
  <2>5. w \in Seq(Frame) /\ r.sent \in Nat /\ r.sent <= Len(w)
    BY <1>2, <2>2
  <2>6. QED
    BY <2>3, <2>4, <2>5, ClosedRec
<1>5. QED
  BY <1>3, <1>4

(* The lag check after an enqueue keeps the record invariant.              *)
LEMMA EvictRec ==
  ASSUME NEW c \in Nat, NEW n \in Nat, NEW r, RecInv(r, c, n)
  PROVE  /\ RecInv(EvictIfLagging(r), c, n)
         /\ EvictIfLagging(r).phase \in {r.phase, "closed"}
  BY CloseRec DEF EvictIfLagging

(* A longer table and a higher cursor take nothing away.                   *)
LEMMA RecMonotone ==
  ASSUME NEW c \in Nat, NEW n \in Nat, NEW d \in Nat, NEW m \in Nat, NEW r,
         RecInv(r, c, n), c <= d, n <= m
  PROVE  RecInv(r, d, m)
<1>1. r \in SubscriberType
  BY DEF RecInv
<1>2. /\ r.base \in Nat /\ \A i \in DOMAIN r.out : r.out[i] \in Int
      /\ \A i \in DOMAIN r.buf : r.buf[i] \in Nat
  BY <1>1, FrameIsInt DEF SubscriberType
<1>3. WindowInv(r, d, m)
  BY <1>2 DEF RecInv, WindowInv
<1>4. r.phase # "closed" => RangeInv(r, d)
  BY <1>2 DEF RecInv, RangeInv
<1>5. QED
  BY <1>3, <1>4 DEF RecInv

(* A row above the watermark lies above the base, and above every row a    *)
(* subscriber outside its subscribe task holds.                            *)
LEMMA NextRowIsNew ==
  ASSUME NEW c \in Nat, NEW n \in Nat, NEW r, RecInv(r, c, n),
         r.phase \in Registered, ~(c + 1 <= r.wm)
  PROVE  /\ r.base <= c
         /\ \A i \in DOMAIN r.out : r.out[i] < c + 1
         /\ \A i \in DOMAIN r.buf : r.buf[i] < c + 1
<1>1. r \in SubscriberType /\ r.phase # "closed" /\ WindowInv(r, c, n) /\ RangeInv(r, c)
  BY DEF RecInv, Registered
<1>2. /\ r.base \in Nat /\ r.pos \in Nat /\ r.wm \in Nat /\ r.end \in Nat
      /\ \A i \in DOMAIN r.out : r.out[i] \in Int
      /\ \A i \in DOMAIN r.buf : r.buf[i] \in Nat
  BY <1>1, FrameIsInt DEF SubscriberType
<1>3. r.base <= c /\ r.pos <= r.base
  BY <1>1, <1>2 DEF WindowInv
<1>4. QED
  BY <1>1, <1>2, <1>3 DEF RangeInv

(* A record with its watermark cleared and a new pre-ack buffer.           *)
Rebuffer(r, b) == [r EXCEPT !.wm = 0, !.buf = b]

LEMMA RebufferFacts ==
  ASSUME NEW r \in SubscriberType, NEW b \in Seq(Nat \ {0})
  PROVE  LET m == Rebuffer(r, b)
         IN  /\ m \in SubscriberType /\ m.wm = 0 /\ m.buf = b
             /\ m.phase = r.phase /\ m.since = r.since /\ m.out = r.out
             /\ m.sent = r.sent /\ m.read = r.read
             /\ m.lo = r.lo /\ m.pos = r.pos /\ m.end = r.end /\ m.base = r.base
  BY DEF Rebuffer, SubscriberType

(* _fan_out of the row after the cursor keeps the record invariant, with   *)
(* the cursor moved on.                                                    *)
LEMMA FanOutRec ==
  ASSUME NEW c \in Nat, NEW n \in Nat, NEW r, RecInv(r, c, n), c < n, ~InTask(r),
         NEW q \in Nat, q = c + 1
  PROVE  /\ RecInv(FanOutTo(r, q), q, n)
         /\ FanOutTo(r, q).phase \in {r.phase, "closed"}
<1>1. r \in SubscriberType
  BY DEF RecInv
<1>2. r.buf \in Seq(Nat \ {0}) /\ r.out \in Seq(Frame)
  BY <1>1 DEF SubscriberType
<1>3. q \in Nat \ {0} /\ q \in Frame /\ c <= q /\ n <= n
  BY DEF Frame
<1>4. RecInv(r, q, n)
  BY <1>3, RecMonotone
<1>5. CASE r.phase \notin Registered \/ log[q] \notin r.want \/ q <= r.wm
  BY <1>4, <1>5 DEF FanOutTo
<1>6. CASE r.phase \in PreAck /\ log[q] \in r.want /\ ~(q <= r.wm)
           /\ Len(r.buf) >= PRE_ACK_BUFFER_FRAMES
  <2>1. FanOutTo(r, q) = CloseSubscriber(r, TRUE)
    BY <1>6 DEF FanOutTo, PreAck, Registered
  <2>2. RecInv(CloseSubscriber(r, TRUE), q, n) /\ CloseSubscriber(r, TRUE).phase = "closed"
    BY <1>4, CloseRec
  <2>3. QED
    BY <2>1, <2>2
<1>7. CASE r.phase \in PreAck /\ log[q] \in r.want /\ ~(q <= r.wm)
           /\ ~(Len(r.buf) >= PRE_ACK_BUFFER_FRAMES)
  <2>1. PICK b : b = Append(r.buf, q)
    OBVIOUS
  <2>2. /\ b \in Seq(Nat \ {0}) /\ DOMAIN b = 1..(Len(r.buf) + 1)
        /\ DOMAIN r.buf = 1..Len(r.buf) /\ b[Len(r.buf) + 1] = q /\ Len(r.buf) \in Nat
        /\ \A i \in 1..Len(r.buf) : b[i] = r.buf[i] /\ r.buf[i] \in Nat
    BY <1>2, <1>3, <2>1
  <2>3. PICK m : m = Rebuffer(r, b)
    OBVIOUS
  <2>4. FanOutTo(r, q) = m
    BY <1>7, <2>1, <2>3 DEF FanOutTo, PreAck, Registered, Rebuffer
  <2>5. /\ m \in SubscriberType /\ m.wm = 0 /\ m.buf = b
        /\ m.phase = r.phase /\ m.since = r.since /\ m.out = r.out
        /\ m.sent = r.sent /\ m.read = r.read
        /\ m.lo = r.lo /\ m.pos = r.pos /\ m.end = r.end /\ m.base = r.base
    BY <1>1, <2>2, <2>3, RebufferFacts
  <2>6. /\ r.base <= c /\ r.phase \in Registered
        /\ \A i \in DOMAIN r.out : r.out[i] < q
        /\ \A i \in DOMAIN r.buf : r.buf[i] < q
    BY <1>7, NextRowIsNew DEF PreAck, Registered
  <2>7. r.phase # "closed" /\ WindowInv(r, q, n) /\ RangeInv(r, q) /\ InOrder(r)
    BY <1>4, <2>6 DEF RecInv, Registered
  <2>8. r.base \in Nat /\ \A i \in DOMAIN r.out : r.out[i] \in Int
    BY <1>1, <1>2, FrameIsInt DEF SubscriberType
  <2>9. Between(b, r.base, q) /\ Ascending(b)
    <3>1. Between(r.buf, r.base, c)
      BY <2>7 DEF RecInv, RangeInv, Between
    <3>2. Ascending(r.buf)
      BY <2>7 DEF InOrder, Ascending
    <3>3. QED
      BY <1>2, <1>3, <2>1, <2>6, <2>8, <3>1, <3>2, AppendRowOrder
  <2>10. WindowInv(m, q, n)
    BY <2>5, <2>6, <2>7, <2>8 DEF WindowInv
  <2>11. RangeInv(m, q)
    <3>1. \A i \in DOMAIN b : r.base < b[i] /\ b[i] <= q
      BY <2>9 DEF Between
    <3>2. QED
      BY <1>7, <2>5, <2>7, <3>1 DEF RangeInv, PreAck
  <2>12. InOrder(m)
    <3>1. \A i, j \in DOMAIN b : i < j => b[i] < b[j]
      BY <2>9 DEF Ascending
    <3>2. \A i \in DOMAIN r.out, j \in DOMAIN b : r.out[i] < b[j]
      <4>1. \A i \in DOMAIN r.out, j \in DOMAIN r.buf : r.out[i] < r.buf[j]
        BY <2>7 DEF InOrder
      <4>2. \A i \in DOMAIN r.out, j \in 1..Len(r.buf) : r.out[i] < b[j]
        BY <2>2, <4>1
      <4>3. \A i \in DOMAIN r.out : r.out[i] < b[Len(r.buf) + 1]
        BY <2>2, <2>6
      <4>4. \A j \in DOMAIN b : j \in 1..Len(r.buf) \/ j = Len(r.buf) + 1
        BY <2>2
      <4>5. QED
        BY <4>2, <4>3, <4>4
    <3>3. QED
      BY <2>5, <2>7, <3>1, <3>2 DEF InOrder
  <2>13. QED
    BY <1>4, <2>4, <2>5, <2>7, <2>10, <2>11, <2>12 DEF RecInv
<1>8. CASE r.phase \in Registered \ PreAck /\ log[q] \in r.want /\ ~(q <= r.wm)
  <2>1. PICK m : m = Rebuffer(r, r.buf)
    OBVIOUS
  <2>2. FanOutTo(r, q) = EvictIfLagging(Enqueue(m, q))
    BY <1>1, <1>8, <2>1 DEF FanOutTo, Rebuffer, SubscriberType
  <2>3. /\ m \in SubscriberType /\ m.wm = 0 /\ m.buf = r.buf
        /\ m.phase = r.phase /\ m.since = r.since /\ m.out = r.out
        /\ m.sent = r.sent /\ m.read = r.read
        /\ m.lo = r.lo /\ m.pos = r.pos /\ m.end = r.end /\ m.base = r.base
    BY <1>1, <1>2, <2>1, RebufferFacts
  <2>4. /\ r.base <= c
        /\ \A i \in DOMAIN r.out : r.out[i] < q
    BY <1>8, NextRowIsNew
  <2>5. r.phase # "closed" /\ WindowInv(r, q, n) /\ RangeInv(r, q) /\ InOrder(r)
    BY <1>4, <1>8 DEF RecInv, Registered
  <2>6. r.base \in Nat
    BY <1>1 DEF SubscriberType
  <2>7. WindowInv(m, q, n)
    BY <2>3, <2>4, <2>5, <2>6 DEF WindowInv
  <2>8. RangeInv(m, q) /\ InOrder(m)
    BY <2>3, <2>5 DEF RangeInv, InOrder
  <2>9. RecInv(m, q, n)
    BY <1>4, <2>3, <2>5, <2>7, <2>8 DEF RecInv
  <2>10. m.buf = <<>> /\ m.phase = "live"
    BY <1>8, <2>3, <2>5 DEF RangeInv, InTask, Registered, PreAck
  <2>11. Admits(m, q, q)
    BY <2>3, <2>4, <2>6, <2>10 DEF Admits, PreAck
  <2>12. RecInv(Enqueue(m, q), q, n) /\ Enqueue(m, q).phase = r.phase
    <3>1. m.phase \in Registered /\ q \in Frame /\ q \in Nat
      BY <1>3, <1>8, <2>3
    <3>2. QED
      BY <2>3, <2>9, <2>11, <3>1, EnqueueRec
  <2>13. QED
    BY <1>3, <2>2, <2>12, EvictRec
<1>9. QED
  BY <1>5, <1>6, <1>7, <1>8 DEF Registered, PreAck

-----------------------------------------------------------------------------
(* The record invariant along a subscription's life.                       *)

Advance(r, q) == [r EXCEPT !.pos = q]

(* A replayed row: it lies above the rows replayed so far and, being at    *)
(* most base, below every buffered live row.                               *)
LEMMA ReplayRec ==
  ASSUME NEW c \in Nat, NEW n \in Nat, NEW r, RecInv(r, c, n),
         r.phase = "replay", r.pos < r.end,
         NEW q \in Nat, q = r.pos + 1,
         NEW m, m = Advance(r, q)
  PROVE  /\ RecInv(m, c, n) /\ m.phase = "replay"
         /\ RecInv(EvictIfLagging(Enqueue(m, q)), c, n)
         /\ EvictIfLagging(Enqueue(m, q)).phase \in {"replay", "closed"}
<1>1. r \in SubscriberType /\ WindowInv(r, c, n) /\ RangeInv(r, c) /\ InOrder(r)
  BY DEF RecInv
<1>2. /\ m \in SubscriberType /\ m.pos = q
      /\ m.phase = r.phase /\ m.since = r.since /\ m.wm = r.wm /\ m.buf = r.buf
      /\ m.out = r.out /\ m.sent = r.sent /\ m.read = r.read
      /\ m.lo = r.lo /\ m.end = r.end /\ m.base = r.base
  BY <1>1 DEF SubscriberType, Advance
<1>3. /\ r.pos \in Nat /\ r.end \in Nat /\ r.base \in Nat /\ r.lo \in Nat
      /\ \A i \in DOMAIN r.out : r.out[i] \in Int
      /\ \A i \in DOMAIN r.buf : r.buf[i] \in Nat
  BY SMTT(20), <1>1, FrameIsInt DEF SubscriberType
<1>4. r.lo <= r.pos /\ r.pos <= r.end /\ r.end <= r.base
  BY <1>1 DEF WindowInv, Registered
<1>5. WindowInv(m, c, n)
  BY <1>1, <1>2, <1>3, <1>4 DEF WindowInv
<1>6. \A i \in DOMAIN r.out : r.out[i] <= r.pos
  BY <1>1 DEF RangeInv
<1>7. RangeInv(m, c)
  <2>1. \A i \in DOMAIN m.out : m.out[i] <= m.pos
    BY <1>2, <1>3, <1>6
  <2>2. QED
    BY <1>1, <1>2, <2>1 DEF RangeInv, PreAck
<1>8. InOrder(m)
  BY <1>1, <1>2 DEF InOrder
<1>9. RecInv(m, c, n)
  BY <1>2, <1>5, <1>7, <1>8 DEF RecInv
<1>10. q <= r.base
  BY <1>3, <1>4
<1>11. \A j \in DOMAIN r.buf : q < r.buf[j]
  BY <1>1, <1>3, <1>10 DEF RangeInv
<1>12. Admits(m, q, c)
  BY <1>2, <1>3, <1>6, <1>11 DEF Admits
<1>13. q \in Frame /\ m.phase \in Registered
  BY <1>2, <1>3 DEF Frame, Registered
<1>14. RecInv(Enqueue(m, q), c, n) /\ Enqueue(m, q).phase = "replay"
  <2>1. m.phase = "replay"
    BY <1>2
  <2>2. QED
    BY <1>9, <1>12, <1>13, <2>1, EnqueueRec
<1>15. QED
  BY <1>2, <1>9, <1>14, EvictRec

(* A buffered row: the head of an ascending buffer whose rows all lie      *)
(* above what was handed over.                                             *)
LEMMA FlushRec ==
  ASSUME NEW c \in Nat, NEW n \in Nat, NEW r, RecInv(r, c, n),
         r.phase = "flush", r.buf # <<>>,
         NEW m, m = [r EXCEPT !.buf = Tail(r.buf)],
         NEW f, f = Head(r.buf)
  PROVE  /\ RecInv(EvictIfLagging(Enqueue(m, f)), c, n)
         /\ EvictIfLagging(Enqueue(m, f)).phase \in {"flush", "closed"}
<1>1. r \in SubscriberType /\ WindowInv(r, c, n) /\ RangeInv(r, c) /\ InOrder(r)
  BY DEF RecInv
<1>2. r.buf \in Seq(Nat \ {0}) /\ r.pos \in Nat /\ r.base \in Nat
  BY <1>1 DEF SubscriberType
<1>3. PICK b : b = Tail(r.buf)
  OBVIOUS
<1>4. Ascending(r.buf)
  BY <1>1 DEF InOrder, Ascending
<1>5. /\ b \in Seq(Nat \ {0}) /\ Ascending(b)
      /\ 1 \in DOMAIN r.buf /\ f = r.buf[1] /\ f \in Nat \ {0}
      /\ \A i \in DOMAIN b : i + 1 \in DOMAIN r.buf /\ b[i] = r.buf[i + 1] /\ f < b[i]
  <2>1. /\ b \in Seq(Nat \ {0}) /\ Ascending(b)
        /\ 1 \in DOMAIN r.buf /\ Head(r.buf) = r.buf[1] /\ r.buf[1] \in Nat \ {0}
        /\ \A i \in DOMAIN b : i + 1 \in DOMAIN r.buf /\ b[i] = r.buf[i + 1] /\ r.buf[1] < b[i]
    BY ZenonT(60), <1>2, <1>3, <1>4, TailRowFacts
  <2>2. QED
    BY <2>1
<1>6. /\ m \in SubscriberType /\ m.buf = b
      /\ m.phase = r.phase /\ m.since = r.since /\ m.wm = r.wm
      /\ m.out = r.out /\ m.sent = r.sent /\ m.read = r.read
      /\ m.lo = r.lo /\ m.pos = r.pos /\ m.end = r.end /\ m.base = r.base
  BY <1>1, <1>3, <1>5 DEF SubscriberType
<1>7. WindowInv(m, c, n)
  BY <1>1, <1>6 DEF WindowInv
<1>8. RangeInv(m, c)
  <2>1. \A i \in DOMAIN b : r.base < b[i] /\ b[i] <= c
    BY <1>1, <1>5 DEF RangeInv
  <2>2. QED
    BY <1>1, <1>6, <2>1 DEF RangeInv, PreAck
<1>9. InOrder(m)
  <2>1. \A i \in DOMAIN r.out, j \in DOMAIN b : r.out[i] < b[j]
    BY <1>1, <1>5 DEF InOrder
  <2>2. QED
    BY <1>1, <1>5, <1>6, <2>1 DEF InOrder, Ascending
<1>10. RecInv(m, c, n)
  BY <1>6, <1>7, <1>8, <1>9 DEF RecInv
<1>11. Admits(m, f, c)
  <2>1. (\A i \in DOMAIN r.out : r.out[i] < f) /\ r.base < f /\ f <= c
    BY <1>1, <1>5 DEF InOrder, RangeInv
  <2>2. QED
    BY <1>5, <1>6, <2>1 DEF Admits, PreAck
<1>12. f \in Frame /\ m.phase \in Registered
  BY <1>5, <1>6 DEF Frame, Registered
<1>13. RecInv(Enqueue(m, f), c, n) /\ Enqueue(m, f).phase = "flush"
  BY ZenonT(60), <1>6, <1>10, <1>11, <1>12, EnqueueRec
<1>14. QED
  BY <1>13, EvictRec

(* A heartbeat is admissible at any time.                                  *)
LEMMA HeartbeatRec ==
  ASSUME NEW c \in Nat, NEW n \in Nat, NEW r, RecInv(r, c, n)
  PROVE  RecInv(HeartbeatTo(r), c, n) /\ HeartbeatTo(r).phase \in {r.phase, "closed"}
<1>1. Beat \in Frame /\ Admits(r, Beat, c)
  BY DEF Frame, Beat, Admits
<1>2. CASE r.phase \in Registered
  <2>1. RecInv(Enqueue(r, Beat), c, n) /\ Enqueue(r, Beat).phase = r.phase
    BY <1>1, <1>2, EnqueueRec
  <2>2. QED
    BY <1>2, <2>1, EvictRec DEF HeartbeatTo
<1>3. CASE r.phase \notin Registered
  BY <1>3 DEF HeartbeatTo
<1>4. QED
  BY <1>2, <1>3

InPhase(r, p) == [r EXCEPT !.phase = p]

(* The phase moves of the subscribe task.                                  *)
Enters(r, p) ==
  \/ r.phase = "acking" /\ p = "acked"
  \/ r.phase \in {"acked", "replay"} /\ p = "flush"
  \/ r.phase = "flush" /\ p = "live" /\ r.buf = <<>>

(* Such a move keeps the record invariant.                                 *)
LEMMA PhaseRec ==
  ASSUME NEW c \in Nat, NEW n \in Nat, NEW r, RecInv(r, c, n), NEW p, Enters(r, p),
         NEW m, m = InPhase(r, p)
  PROVE  RecInv(m, c, n) /\ m.phase = p
<1>1. /\ r \in SubscriberType /\ WindowInv(r, c, n) /\ RangeInv(r, c) /\ InOrder(r)
      /\ r.read <= r.sent /\ r.sent <= Len(r.out)
  BY DEF RecInv, Enters
<1>2. p \in Phase
  BY DEF Phase, Enters
<1>3. /\ m \in SubscriberType /\ m.phase = p
      /\ m.since = r.since /\ m.wm = r.wm /\ m.buf = r.buf
      /\ m.out = r.out /\ m.sent = r.sent /\ m.read = r.read
      /\ m.lo = r.lo /\ m.pos = r.pos /\ m.end = r.end /\ m.base = r.base
  BY <1>1, <1>2 DEF SubscriberType, InPhase
<1>4. WindowInv(m, c, n)
  BY <1>1, <1>3 DEF WindowInv, Registered, Enters
<1>5. RangeInv(m, c)
  <2>1. /\ p # "hello"
        /\ p \in PreAck \cup {"replay"} => r.phase \in PreAck
        /\ p \notin PreAck \cup {"replay", "flush"} => r.buf = <<>>
        /\ p \in PreAck \cup {"hello"} => r.phase \in PreAck
    BY DEF PreAck, Enters
  <2>2. QED
    BY <1>1, <1>3, <2>1 DEF RangeInv
<1>6. InOrder(m)
  BY <1>1, <1>3 DEF InOrder
<1>7. QED
  BY <1>1, <1>3, <1>4, <1>5, <1>6 DEF RecInv, Enters

(* _replay begins: its window ends at the base.                            *)
LEMMA StartReplayRec ==
  ASSUME NEW c \in Nat, NEW n \in Nat, NEW r, RecInv(r, c, n), r.phase = "acked",
         NEW l \in Nat, NEW e \in Nat, l <= e, e <= r.base,
         NEW m, m = [r EXCEPT !.phase = "replay", !.lo = l, !.pos = l, !.end = e]
  PROVE  RecInv(m, c, n) /\ m.phase = "replay"
<1>1. /\ r \in SubscriberType /\ WindowInv(r, c, n) /\ RangeInv(r, c) /\ InOrder(r)
      /\ r.read <= r.sent /\ r.sent <= Len(r.out)
  BY DEF RecInv
<1>2. "replay" \in Phase
  BY DEF Phase
<1>3. /\ m \in SubscriberType /\ m.phase = "replay"
      /\ m.since = r.since /\ m.wm = r.wm /\ m.buf = r.buf
      /\ m.out = r.out /\ m.sent = r.sent /\ m.read = r.read
      /\ m.lo = l /\ m.pos = l /\ m.end = e /\ m.base = r.base
  BY <1>1, <1>2 DEF SubscriberType
<1>4. WindowInv(m, c, n)
  BY <1>1, <1>3 DEF WindowInv, Registered
<1>5. RangeInv(m, c)
  <2>1. \A i \in DOMAIN r.out : r.out[i] \in Int /\ r.out[i] <= 0
    BY <1>1, FrameIsInt DEF RangeInv, PreAck, SubscriberType
  <2>2. \A i \in DOMAIN m.out : m.out[i] <= m.pos
    BY <1>3, <2>1
  <2>3. QED
    BY <1>1, <1>3, <2>2 DEF RangeInv, PreAck
<1>6. InOrder(m)
  BY <1>1, <1>3 DEF InOrder
<1>7. QED
  BY <1>1, <1>3, <1>4, <1>5, <1>6 DEF RecInv

Enrolled(r, p, w, x, a, b) ==
  [r EXCEPT !.phase = p, !.want = w, !.since = x, !.wm = a, !.base = b]

(* Registration fixes the base and, with `since`, the watermark.           *)
LEMMA SubscribeRec ==
  ASSUME NEW c \in Nat, NEW n \in Nat, NEW r, RecInv(r, c, n), r.phase = "hello",
         NEW p \in {"acking", "orphan"}, NEW w \in SUBSET Event, NEW x \in Int, NEW a \in Nat, NEW b \in Nat,
         x <= b, b <= n, a = b \/ (a = 0 /\ b <= c),
         NEW m, m = Enrolled(r, p, w, x, a, b)
  PROVE  RecInv(m, c, n) /\ m.phase = p
<1>1. /\ r \in SubscriberType /\ RangeInv(r, c)
      /\ r.read <= r.sent /\ r.sent <= Len(r.out)
  BY DEF RecInv
<1>2. p \in Phase
  BY DEF Phase
<1>3. /\ m \in SubscriberType /\ m.phase = p
      /\ m.since = x /\ m.wm = a /\ m.buf = r.buf
      /\ m.out = r.out /\ m.sent = r.sent /\ m.read = r.read
      /\ m.lo = r.lo /\ m.pos = r.pos /\ m.end = r.end /\ m.base = b
  BY <1>1, <1>2 DEF SubscriberType, Enrolled
<1>4. r.out = <<>> /\ r.buf = <<>> /\ r.lo = 0 /\ r.pos = 0 /\ r.end = 0
  BY <1>1 DEF RangeInv, PreAck
<1>5. WindowInv(m, c, n)
  BY <1>3, <1>4 DEF WindowInv
<1>6. RangeInv(m, c)
  BY <1>3, <1>4 DEF RangeInv
<1>7. InOrder(m)
  BY <1>3, <1>4 DEF InOrder
<1>8. QED
  BY <1>1, <1>3, <1>5, <1>6, <1>7 DEF RecInv

Orphaned(r, w, b) == [r EXCEPT !.phase = "orphan", !.want = w, !.base = b]

(* A registration whose task died keeps the watermark at None.             *)
LEMMA OrphanRec ==
  ASSUME NEW c \in Nat, NEW n \in Nat, NEW r, RecInv(r, c, n), r.phase = "hello",
         NEW w \in SUBSET Event, c <= n
  PROVE  RecInv(Orphaned(r, w, c), c, n) /\ Orphaned(r, w, c).phase = "orphan"
<1>1. r \in SubscriberType /\ RangeInv(r, c)
  BY DEF RecInv
<1>2. r.wm = 0 /\ r.since = -1 /\ r.since \in Int
  BY <1>1 DEF RangeInv, NoSince
<1>3. PICK m : m = Enrolled(r, "orphan", w, r.since, r.wm, c)
  OBVIOUS
<1>4. RecInv(m, c, n) /\ m.phase = "orphan"
  BY <1>2, <1>3, SubscribeRec
<1>5. m = Orphaned(r, w, c)
  BY <1>1, <1>3 DEF Enrolled, Orphaned, SubscriberType
<1>6. QED
  BY <1>4, <1>5

Acked(r) == [r EXCEPT !.phase = "acked", !.out = Append(@, Ack), !.sent = @ + 1]

(* The ack is handed over like any control frame.                          *)
LEMMA SendAckRec ==
  ASSUME NEW c \in Nat, NEW n \in Nat, NEW r, RecInv(r, c, n), r.phase = "acking"
  PROVE  RecInv(Acked(r), c, n) /\ Acked(r).phase = "acked"
<1>1. r \in SubscriberType
  BY DEF RecInv
<1>2. /\ r.out \in Seq(Frame) /\ r.sent + 1 \in Nat /\ r.lag \in Nat
      /\ Ack \in Frame /\ Append(r.out, Ack) \in Seq(Frame)
  BY <1>1 DEF SubscriberType, Frame, Ack
<1>3. PICK e : e = Rewire(r, Append(r.out, Ack), r.sent + 1, r.lag)
  OBVIOUS
<1>4. /\ e \in SubscriberType /\ SameSubscription(e, r)
      /\ Carries(e, Append(r.out, Ack), r.sent + 1, r.lag)
  BY <1>1, <1>2, <1>3, RewireFacts
<1>5. Admits(r, Ack, c) /\ r.phase \in Registered
  BY DEF Admits, Ack, Registered
<1>6. RecInv(e, c, n)
  BY <1>2, <1>4, <1>5, HandOver DEF Carries
<1>7. e.phase = "acking"
  BY <1>4 DEF SameSubscription
<1>8. PICK m : m = InPhase(e, "acked")
  OBVIOUS
<1>9. RecInv(m, c, n) /\ m.phase = "acked"
  <2>1. Enters(e, "acked")
    BY <1>7 DEF Enters
  <2>2. QED
    BY <1>6, <1>8, <2>1, PhaseRec
<1>10. m = Acked(r)
  BY <1>1, <1>3, <1>8 DEF SubscriberType, Rewire, InPhase, Acked
<1>11. QED
  BY <1>9, <1>10

(* A fresh connection.                                                     *)
LEMMA AcceptRec ==
  ASSUME NEW c \in Nat, NEW n \in Nat
  PROVE  LET m == [Unused EXCEPT !.phase = "hello", !.peer = TRUE]
         IN  RecInv(m, c, n) /\ m.phase = "hello"
<1>1. PICK m : m = [Unused EXCEPT !.phase = "hello", !.peer = TRUE]
  OBVIOUS
<1>2. /\ Unused \in SubscriberType
      /\ Unused.buf = <<>> /\ Unused.out = <<>> /\ Unused.read = 0 /\ Unused.sent = 0
      /\ Unused.lo = 0 /\ Unused.pos = 0 /\ Unused.end = 0 /\ Unused.base = 0
      /\ Unused.wm = 0 /\ Unused.since = NoSince
  BY DEF Unused, SubscriberType, Phase, NoSince
<1>3. "hello" \in Phase
  BY DEF Phase
<1>4. /\ m \in SubscriberType /\ m.phase = "hello"
      /\ m.buf = <<>> /\ m.out = <<>> /\ m.read = 0 /\ m.sent = 0
      /\ m.lo = 0 /\ m.pos = 0 /\ m.end = 0 /\ m.base = 0
      /\ m.wm = 0 /\ m.since = NoSince
  BY <1>1, <1>2, <1>3 DEF SubscriberType
<1>5. WindowInv(m, c, n) /\ RangeInv(m, c) /\ InOrder(m)
  BY <1>4 DEF WindowInv, RangeInv, InOrder, Registered, PreAck
<1>6. RecInv(m, c, n)
  BY <1>4, <1>5 DEF RecInv
<1>7. QED
  BY <1>1, <1>4, <1>6

Cut(r) == SubSeq(r.out, 1, r.sent)

(* A dead peer's queue is discarded: the frames handed over are cut short. *)
LEMMA DrainErrorRec ==
  ASSUME NEW c \in Nat, NEW n \in Nat, NEW r, RecInv(r, c, n), r.phase \in Registered,
         NEW l \in Nat, NEW w, w = Cut(r)
  PROVE  RecInv(Rewire(r, w, r.sent, l), c, n) /\ Rewire(r, w, r.sent, l).phase = r.phase
<1>1. /\ r \in SubscriberType /\ WindowInv(r, c, n) /\ RangeInv(r, c) /\ InOrder(r)
      /\ r.read <= r.sent /\ r.sent <= Len(r.out) /\ r.phase # "closed"
  BY DEF RecInv, Registered
<1>2. r.out \in Seq(Frame) /\ r.sent \in Nat
  BY <1>1 DEF SubscriberType
<1>3. /\ w \in Seq(Frame) /\ Len(w) = r.sent /\ DOMAIN w = 1..r.sent
      /\ \A i \in 1..r.sent : i \in DOMAIN r.out /\ w[i] = r.out[i]
  BY <1>1, <1>2 DEF Cut
<1>4. PICK e : e = Rewire(r, w, r.sent, l)
  OBVIOUS
<1>5. e \in SubscriberType /\ SameSubscription(e, r) /\ Carries(e, w, r.sent, l)
  BY <1>1, <1>2, <1>3, <1>4, RewireFacts
<1>6. WindowInv(e, c, n)
  BY <1>1, <1>5 DEF WindowInv, SameSubscription
<1>7. RangeInv(e, c)
  <2>1. \A i \in DOMAIN w : w[i] <= r.pos \/ (r.base < w[i] /\ w[i] <= c)
    BY <1>1, <1>3 DEF RangeInv
  <2>2. r.phase \in PreAck \cup {"replay"} => \A i \in DOMAIN w : w[i] <= r.pos
    BY <1>1, <1>3 DEF RangeInv
  <2>3. QED
    BY <1>1, <1>5, <2>1, <2>2 DEF RangeInv, SameSubscription, Carries, Registered
<1>8. InOrder(e)
  <2>1. \A i, j \in DOMAIN w : i < j /\ w[i] > 0 /\ w[j] > 0 => w[i] < w[j]
    BY <1>1, <1>3 DEF InOrder
  <2>2. \A i \in DOMAIN w, j \in DOMAIN r.buf : w[i] < r.buf[j]
    BY <1>1, <1>3 DEF InOrder
  <2>3. QED
    BY <1>1, <1>5, <2>1, <2>2 DEF InOrder, SameSubscription, Carries
<1>9. e.read <= e.sent /\ e.sent <= Len(e.out)
  BY <1>1, <1>2, <1>3, <1>5 DEF SameSubscription, Carries
<1>10. RecInv(e, c, n)
  BY <1>1, <1>5, <1>6, <1>7, <1>8, <1>9 DEF RecInv, SameSubscription
<1>11. QED
  BY <1>4, <1>5, <1>10 DEF SameSubscription

(* The peer's own moves.                                                   *)
LEMMA PeerRec ==
  ASSUME NEW c \in Nat, NEW n \in Nat, NEW r, RecInv(r, c, n),
         NEW m,
         \/ m = [r EXCEPT !.peer = FALSE]
         \/ m = [r EXCEPT !.read = r.read + 1] /\ r.read < r.sent
  PROVE  RecInv(m, c, n) /\ m.phase = r.phase
<1>1. r \in SubscriberType /\ r.read <= r.sent /\ r.sent <= Len(r.out)
  BY DEF RecInv
<1>2. r.read \in Nat /\ r.sent \in Nat
  BY <1>1 DEF SubscriberType
<1>3. /\ m \in SubscriberType /\ m.phase = r.phase
      /\ m.since = r.since /\ m.wm = r.wm /\ m.buf = r.buf
      /\ m.out = r.out /\ m.sent = r.sent
      /\ m.lo = r.lo /\ m.pos = r.pos /\ m.end = r.end /\ m.base = r.base
      /\ m.read <= m.sent
  <2>1. CASE m = [r EXCEPT !.peer = FALSE]
    BY <1>1, <2>1 DEF SubscriberType
  <2>2. CASE m = [r EXCEPT !.read = r.read + 1] /\ r.read < r.sent
    <3>1. PICK k \in Nat : k = r.read + 1 /\ k <= r.sent
      BY <1>2, <2>2
    <3>2. m = [r EXCEPT !.read = k]
      BY <2>2, <3>1
    <3>3. QED
      BY <1>1, <3>1, <3>2 DEF SubscriberType
  <2>3. QED
    BY <2>1, <2>2
<1>4. WindowInv(m, c, n) /\ InOrder(m) /\ (r.phase # "closed" => RangeInv(m, c))
  BY <1>3 DEF RecInv, WindowInv, InOrder, RangeInv
<1>5. QED
  BY <1>1, <1>3, <1>4 DEF RecInv

-----------------------------------------------------------------------------
(* Steps of the specification.                                             *)

(* What the invariant says of each part of a state.                        *)
LEMMA Parts ==
  ASSUME IInv
  PROVE  /\ cursor \in Nat /\ Len(log) \in Nat /\ cursor <= Len(log)
         /\ \A s \in Sub : RecInv(subs[s], cursor, Len(log)) /\ subs[s] \in SubscriberType
         /\ loop # "task" => \A s \in Sub : ~InTask(subs[s])
<1>1. log \in Seq(Event) /\ cursor \in Nat /\ cursor <= Len(log)
  BY DEF IInv, TypeOK, LoopInv
<1>2. Len(log) \in Nat
  BY <1>1
<1>3. \A s \in Sub : RecInv(subs[s], cursor, Len(log))
  BY DEF IInv
<1>4. \A s \in Sub : subs[s] \in SubscriberType
  BY <1>3 DEF RecInv
<1>5. loop # "task" => \A s \in Sub : ~InTask(subs[s])
  BY DEF IInv, LoopInv
<1>6. QED
  BY <1>1, <1>2, <1>3, <1>4, <1>5

(* One connection changes.                                                 *)
LEMMA OneSubscriber ==
  ASSUME IInv, NEW s \in Sub, NEW m, RecInv(m, cursor, Len(log)),
         subs' = [subs EXCEPT ![s] = m], log' = log, cursor' = cursor
  PROVE  /\ subs' \in [Sub -> SubscriberType]
         /\ \A t \in Sub : RecInv(subs'[t], cursor', Len(log'))
         /\ subs'[s] = m /\ \A t \in Sub : t # s => subs'[t] = subs[t]
<1>1. subs \in [Sub -> SubscriberType] /\ m \in SubscriberType
  BY DEF IInv, TypeOK, RecInv
<1>2. subs'[s] = m /\ \A t \in Sub : t # s => subs'[t] = subs[t]
  BY <1>1
<1>3. \A t \in Sub : RecInv(subs'[t], cursor', Len(log'))
  BY <1>2 DEF IInv
<1>4. QED
  BY <1>1, <1>2, <1>3

(* One connection changes and nothing else does.                           *)
LEMMA QuietStep ==
  ASSUME IInv, NEW s \in Sub, NEW m, RecInv(m, cursor, Len(log)),
         InTask(m) => InTask(subs[s]),
         subs' = [subs EXCEPT ![s] = m],
         UNCHANGED <<tableVars, bellVars, loopVars, beats>>
  PROVE  IInv'
<1>1. /\ log' = log /\ prod' = prod /\ rings' = rings /\ eventfd' = eventfd /\ loop' = loop
      /\ stopping' = stopping /\ cursor' = cursor /\ sweepEnd' = sweepEnd /\ beats' = beats
  BY DEF tableVars, bellVars, loopVars
<1>2. /\ subs' \in [Sub -> SubscriberType]
      /\ \A t \in Sub : RecInv(subs'[t], cursor', Len(log'))
      /\ subs'[s] = m /\ \A t \in Sub : t # s => subs'[t] = subs[t]
  BY <1>1, OneSubscriber
<1>3. TypeOK'
  BY <1>1, <1>2 DEF IInv, TypeOK
<1>4. \A t \in Sub : InTask(subs'[t]) => InTask(subs[t])
  BY <1>2
<1>5. LoopInv'
  BY <1>1, <1>4 DEF IInv, LoopInv
<1>6. QED
  BY <1>2, <1>3, <1>5 DEF IInv

(* A step of the subscribe task at s, which alone holds the loop.          *)
LEMMA TaskStep ==
  ASSUME IInv, NEW s \in Sub, NEW m, RecInv(m, cursor, Len(log)),
         \A t \in Sub : InTask(subs[t]) => t = s,
         loop' \in {"task", "idle"}, InTask(m) => loop' = "task",
         subs' = [subs EXCEPT ![s] = m],
         UNCHANGED <<tableVars, bellVars, stopping, cursor, sweepEnd, beats>>
  PROVE  IInv'
<1>1. /\ log' = log /\ prod' = prod /\ rings' = rings /\ eventfd' = eventfd
      /\ stopping' = stopping /\ cursor' = cursor /\ sweepEnd' = sweepEnd /\ beats' = beats
  BY DEF tableVars, bellVars
<1>2. /\ subs' \in [Sub -> SubscriberType]
      /\ \A t \in Sub : RecInv(subs'[t], cursor', Len(log'))
      /\ subs'[s] = m /\ \A t \in Sub : t # s => subs'[t] = subs[t]
  BY <1>1, OneSubscriber
<1>3. TypeOK'
  BY <1>1, <1>2 DEF IInv, TypeOK
<1>4. \A t \in Sub : InTask(subs'[t]) => t = s /\ loop' = "task"
  BY <1>2
<1>5. LoopInv'
  BY <1>1, <1>4 DEF IInv, LoopInv
<1>6. QED
  BY <1>2, <1>3, <1>5 DEF IInv

(* Every connection may change, none of them into a subscribe task.        *)
LEMMA EveryStep ==
  ASSUME IInv,
         subs' = [t \in Sub |-> subs'[t]],
         \A t \in Sub : RecInv(subs'[t], cursor', Len(log')) /\ ~InTask(subs'[t]),
         log' = log, prod' = prod,
         rings' \in 0..BACKLOG, eventfd' \in BOOLEAN, stopping' \in BOOLEAN,
         loop' \in {"down", "booting", "idle", "woken", "sweep", "closing"},
         cursor' \in Nat, sweepEnd' \in Nat, beats' \in Nat,
         cursor' <= Len(log) /\ sweepEnd' <= Len(log),
         loop' = "sweep" => cursor' < sweepEnd'
  PROVE  IInv'
<1>1. \A t \in Sub : subs'[t] \in SubscriberType
  BY DEF RecInv
<1>2. subs' \in [Sub -> SubscriberType]
  BY <1>1
<1>3. TypeOK'
  BY <1>2 DEF IInv, TypeOK
<1>4. LoopInv'
  BY DEF LoopInv
<1>5. QED
  BY <1>3, <1>4 DEF IInv

(* The initial state.                                                      *)
LEMMA InitHolds == Init => IInv
<1> SUFFICES ASSUME Init PROVE IInv
  OBVIOUS
<1>1. /\ Unused \in SubscriberType /\ Unused.phase = "off"
      /\ Unused.buf = <<>> /\ Unused.out = <<>> /\ Unused.read = 0 /\ Unused.sent = 0
      /\ Unused.lo = 0 /\ Unused.pos = 0 /\ Unused.end = 0 /\ Unused.base = 0
  BY DEF Unused, SubscriberType, Phase, NoSince
<1>2. WindowInv(Unused, 0, 0) /\ RangeInv(Unused, 0) /\ InOrder(Unused)
  BY <1>1 DEF WindowInv, RangeInv, InOrder, Registered, PreAck
<1>3. RecInv(Unused, 0, 0)
  BY <1>1, <1>2 DEF RecInv
<1>4. \A s \in Sub : subs[s] = Unused
  BY DEF Init
<1>5. TypeOK
  <2>1. rings \in 0..BACKLOG /\ cursor \in Nat /\ sweepEnd \in Nat /\ beats \in Nat
    BY LimitsAssumption DEF Init
  <2>2. log \in Seq(Event) /\ prod \in [Producer -> {"idle", "committed"}]
    BY DEF Init
  <2>3. eventfd \in BOOLEAN /\ stopping \in BOOLEAN
    BY DEF Init
  <2>4. loop \in {"down", "booting", "idle", "woken", "sweep", "task", "closing"}
    BY DEF Init
  <2>5. subs \in [Sub -> SubscriberType]
    BY <1>1 DEF Init
  <2>6. QED
    BY <2>1, <2>2, <2>3, <2>4, <2>5 DEF TypeOK
<1>6. LoopInv
  BY <1>1, <1>4 DEF Init, LoopInv, InTask
<1>7. Len(log) = 0 /\ cursor = 0
  BY DEF Init
<1>8. QED
  BY <1>3, <1>4, <1>5, <1>6, <1>7 DEF IInv

(* A transaction: the table grows.                                         *)
LEMMA CommitStep ==
  ASSUME IInv, NEW p \in Producer, NEW rows \in Batches, Commit(p, rows)
  PROVE  IInv'
<1>1. rows \in Seq(Event)
  BY DEF Batches
<1>2. log \in Seq(Event) /\ log' = log \o rows
  BY DEF IInv, TypeOK, Commit
<1>3. log' \in Seq(Event) /\ Len(log') = Len(log) + Len(rows)
  BY <1>1, <1>2
<1>4. Len(log) \in Nat /\ Len(log') \in Nat /\ Len(log) <= Len(log')
  BY <1>1, <1>2, <1>3
<1>5. /\ rings' = rings /\ eventfd' = eventfd /\ loop' = loop /\ stopping' = stopping
      /\ cursor' = cursor /\ sweepEnd' = sweepEnd /\ subs' = subs /\ beats' = beats
      /\ prod' = [prod EXCEPT ![p] = "committed"]
  BY DEF Commit, bellVars, loopVars
<1>6. cursor <= cursor
  BY Parts
<1>7. \A s \in Sub : RecInv(subs'[s], cursor', Len(log'))
  BY <1>4, <1>5, <1>6, Parts, RecMonotone
<1>8. TypeOK'
  BY <1>3, <1>5 DEF IInv, TypeOK
<1>9. cursor' <= Len(log') /\ sweepEnd' <= Len(log')
  BY <1>4, <1>5 DEF IInv, LoopInv, TypeOK
<1>10. LoopInv'
  BY <1>5, <1>9 DEF IInv, LoopInv
<1>11. QED
  BY <1>7, <1>8, <1>10 DEF IInv

(* Steps that touch neither the table nor a connection.                    *)
LEMMA BellStep ==
  ASSUME IInv,
         \/ \E p \in Producer : Ring(p) \/ RingLost(p)
         \/ AcceptRing \/ AcceptRingTimeout \/ Wake \/ Select \/ SelectFails \/ Open
  PROVE  IInv'
<1>1. /\ TypeOK /\ LoopInv /\ subs' = subs /\ log' = log /\ cursor' = cursor
      /\ beats' = beats /\ stopping' = stopping
  BY DEF IInv, Ring, RingLost, AcceptRing, AcceptRingTimeout, Wake, Select, SelectFails, Open,
         tableVars, bellVars, loopVars
<1>2. Len(log) \in Nat /\ cursor \in Nat /\ sweepEnd \in Nat /\ cursor <= Len(log)
  BY Parts DEF IInv, TypeOK
<1>3. rings' \in 0..BACKLOG
  BY <1>1, LimitsAssumption
  DEF TypeOK, Ring, RingLost, AcceptRing, AcceptRingTimeout, Wake, Select, SelectFails, Open,
      tableVars, bellVars, loopVars
<1>4. eventfd' \in BOOLEAN /\ prod' \in [Producer -> {"idle", "committed"}]
  BY <1>1
  DEF TypeOK, Ring, RingLost, AcceptRing, AcceptRingTimeout, Wake, Select, SelectFails, Open,
      tableVars, bellVars, loopVars
<1>5. /\ sweepEnd' \in Nat /\ sweepEnd' <= Len(log)
      /\ loop' \in {"down", "booting", "idle", "woken", "sweep", "task", "closing"}
      /\ loop' = "sweep" => cursor < sweepEnd'
      /\ loop = "task" => loop' = "task"
  <2>1. CASE Select
    <3>1. SWEEP_LIMIT \in Nat \ {0}
      BY LimitsAssumption
    <3>2. QED
      BY <1>1, <1>2, <2>1, <3>1 DEF Select, Min2, AfterPass
  <2>2. CASE ~Select
    BY <1>1, <1>2, <2>2
    DEF TypeOK, LoopInv, Ring, RingLost, AcceptRing, AcceptRingTimeout, Wake, SelectFails, Open,
        tableVars, bellVars, loopVars, AfterPass
  <2>3. QED
    BY <2>1, <2>2
<1>6. TypeOK'
  BY <1>1, <1>3, <1>4, <1>5 DEF TypeOK
<1>7. LoopInv'
  BY <1>1, <1>2, <1>5 DEF LoopInv
<1>8. QED
  BY <1>1, <1>6, <1>7 DEF IInv

(* The cursor is seeded.                                                   *)
LEMMA BootStep == ASSUME IInv, Boot PROVE IInv'
<1>1. /\ log' = log /\ prod' = prod /\ rings' = rings /\ eventfd' = eventfd
      /\ stopping' = stopping /\ subs' = subs /\ beats' = beats
      /\ loop = "down" /\ loop' = "booting"
      /\ cursor' = Len(log) /\ sweepEnd' = Len(log)
  BY DEF Boot, tableVars, bellVars
<1>2. Len(log) <= Len(log)
  BY Parts
<1>3. \A s \in Sub : RecInv(subs[s], Len(log), Len(log))
  BY <1>2, Parts, RecMonotone
<1>4. TypeOK'
  BY <1>1, Parts DEF IInv, TypeOK
<1>5. LoopInv'
  BY <1>1, <1>2, Parts DEF LoopInv
<1>6. QED
  BY <1>1, <1>3, <1>4, <1>5 DEF IInv

(* A connection is closed and its record forgotten.                        *)
LEMMA CloseStep ==
  ASSUME IInv, NEW s \in Sub,
         HelloFails(s) \/ RejectVersion(s) \/ AckFails(s) \/ ReplayFails(s)
  PROVE  IInv'
<1>1. PICK b \in BOOLEAN : subs' = [subs EXCEPT ![s] = CloseSubscriber(subs[s], b)]
  BY DEF HelloFails, RejectVersion, AckFails, ReplayFails
<1>2. PICK m : m = CloseSubscriber(subs[s], b)
  OBVIOUS
<1>3. RecInv(m, cursor, Len(log)) /\ m.phase = "closed"
  BY <1>2, Parts, CloseRec
<1>4. subs' = [subs EXCEPT ![s] = m] /\ ~InTask(m)
  BY <1>1, <1>2, <1>3 DEF InTask
<1>5. UNCHANGED <<tableVars, bellVars, loopVars, beats>>
  BY DEF HelloFails, RejectVersion, AckFails, ReplayFails
<1>6. QED
  BY <1>3, <1>4, <1>5, QuietStep

(* A connection is accepted.                                               *)
LEMMA AcceptStep == ASSUME IInv, NEW s \in Sub, Accept(s) PROVE IInv'
<1>1. PICK m : m = [Unused EXCEPT !.phase = "hello", !.peer = TRUE]
  OBVIOUS
<1>2. RecInv(m, cursor, Len(log)) /\ m.phase = "hello"
  BY <1>1, Parts, AcceptRec
<1>3. subs' = [subs EXCEPT ![s] = m] /\ ~InTask(m)
  BY <1>1, <1>2 DEF Accept, InTask
<1>4. UNCHANGED <<tableVars, bellVars, loopVars, beats>>
  BY DEF Accept
<1>5. QED
  BY <1>2, <1>3, <1>4, QuietStep

(* A subscription is registered.                                           *)
LEMMA SubscribeStepHolds ==
  ASSUME IInv, NEW s \in Sub, NEW want \in Filter,
         NEW since \in {NoSince} \cup 0..Len(log), Subscribe(s, want, since)
  PROVE  IInv'
<1>1. /\ cursor \in Nat /\ Len(log) \in Nat /\ cursor <= Len(log)
      /\ RecInv(subs[s], cursor, Len(log)) /\ subs[s] \in SubscriberType
  BY Parts
<1>2. want \in SUBSET Event
  BY FilterAssumption
<1>3. PICK a \in Nat : a = IF since = NoSince THEN 0 ELSE Len(log)
  BY <1>1
<1>4. PICK b \in Nat : b = IF since = NoSince THEN cursor ELSE Len(log)
  BY <1>1
<1>5. since \in Int /\ since <= b /\ b <= Len(log) /\ (a = b \/ (a = 0 /\ b <= cursor))
  BY <1>1, <1>3, <1>4 DEF NoSince
<1>6. PICK m : m = Enrolled(subs[s], "acking", want, since, a, b)
  OBVIOUS
<1>7. subs[s].phase = "hello"
  BY DEF Subscribe
<1>8. RecInv(m, cursor, Len(log)) /\ m.phase = "acking"
  BY <1>1, <1>2, <1>5, <1>6, <1>7, SubscribeRec
<1>9. subs' = [subs EXCEPT ![s] = m] /\ ~InTask(m)
  BY <1>3, <1>4, <1>6, <1>8 DEF Subscribe, InTask, Enrolled
<1>10. UNCHANGED <<tableVars, bellVars, loopVars, beats>>
  BY DEF Subscribe
<1>11. QED
  BY <1>8, <1>9, <1>10, QuietStep

(* A subscription is registered and its task dies.                         *)
LEMMA SnapshotFailsStep ==
  ASSUME IInv, NEW s \in Sub, NEW want \in Filter, SnapshotFails(s, want)
  PROVE  IInv'
<1>1. /\ cursor \in Nat /\ Len(log) \in Nat /\ cursor <= Len(log)
      /\ RecInv(subs[s], cursor, Len(log)) /\ subs[s] \in SubscriberType
  BY Parts
<1>2. want \in SUBSET Event /\ subs[s].phase = "hello"
  BY FilterAssumption DEF SnapshotFails
<1>3. PICK m : m = Orphaned(subs[s], want, cursor)
  OBVIOUS
<1>4. RecInv(m, cursor, Len(log)) /\ m.phase = "orphan"
  BY <1>1, <1>2, <1>3, OrphanRec
<1>5. subs' = [subs EXCEPT ![s] = m] /\ ~InTask(m)
  BY <1>3, <1>4 DEF SnapshotFails, InTask, Orphaned
<1>6. UNCHANGED <<tableVars, bellVars, loopVars, beats>>
  BY DEF SnapshotFails
<1>7. QED
  BY <1>4, <1>5, <1>6, QuietStep

(* The ack goes out.                                                       *)
LEMMA SendAckStep == ASSUME IInv, NEW s \in Sub, SendAck(s) PROVE IInv'
<1>1. PICK m : m = Acked(subs[s])
  OBVIOUS
<1>2. subs[s].phase = "acking"
  BY DEF SendAck
<1>3. RecInv(m, cursor, Len(log)) /\ m.phase = "acked"
  <2>1. /\ cursor \in Nat /\ Len(log) \in Nat
        /\ RecInv(subs[s], cursor, Len(log))
    BY Parts
  <2>2. QED
    BY <1>1, <1>2, <2>1, SendAckRec
<1>4. subs' = [subs EXCEPT ![s] = m] /\ ~InTask(m)
  <2>1. subs' = [subs EXCEPT ![s] = Acked(subs[s])]
    BY DEF SendAck, Acked
  <2>2. QED
    BY <1>1, <1>3, <2>1 DEF InTask
<1>5. UNCHANGED <<tableVars, bellVars, loopVars, beats>>
  BY DEF SendAck
<1>6. QED
  BY <1>3, <1>4, <1>5, QuietStep

(* The subscribe task resumes after the ack.                               *)
LEMMA ResumeTaskStep == ASSUME IInv, NEW s \in Sub, ResumeTask(s) PROVE IInv'
<1>1. /\ cursor \in Nat /\ Len(log) \in Nat
      /\ RecInv(subs[s], cursor, Len(log)) /\ subs[s] \in SubscriberType
  BY Parts
<1>2. /\ subs[s].phase = "acked" /\ loop = "idle" /\ loop' = "task"
      /\ UNCHANGED <<tableVars, bellVars, stopping, cursor, sweepEnd, beats>>
  BY DEF ResumeTask, AtIdle
<1>3. \A t \in Sub : InTask(subs[t]) => t = s
  BY <1>2, Parts
<1>4. CASE subs[s].since = NoSince
  <2>1. PICK m : m = InPhase(subs[s], "flush")
    OBVIOUS
  <2>2. RecInv(m, cursor, Len(log))
    <3>1. Enters(subs[s], "flush")
      BY <1>2 DEF Enters
    <3>2. QED
      BY <1>1, <2>1, <3>1, PhaseRec
  <2>3. subs' = [subs EXCEPT ![s] = m]
    BY <1>4, <2>1 DEF ResumeTask, InPhase
  <2>4. QED
    BY <1>2, <1>3, <2>2, <2>3, TaskStep
<1>5. CASE subs[s].since # NoSince
  <2>1. WindowInv(subs[s], cursor, Len(log)) /\ subs[s].phase \in Registered
    BY <1>1, <1>2 DEF RecInv, Registered
  <2>2. subs[s].base \in Nat /\ subs[s].since \in Int /\ subs[s].since <= subs[s].base
    BY <1>1, <2>1 DEF WindowInv, SubscriberType
  <2>3. PICK l \in Nat : l = SinceSeq(subs[s]) /\ l <= subs[s].base
    BY <1>1, <2>2 DEF SinceSeq
  <2>4. PICK e \in Nat : /\ e = Min2(subs[s].base, l + REPLAY_LIMIT)
                         /\ l <= e /\ e <= subs[s].base
    BY <2>2, <2>3, LimitsAssumption DEF Min2
  <2>5. PICK m : m = [subs[s] EXCEPT !.phase = "replay", !.lo = l, !.pos = l, !.end = e]
    OBVIOUS
  <2>6. RecInv(m, cursor, Len(log))
    BY <1>1, <1>2, <2>3, <2>4, <2>5, StartReplayRec
  <2>7. subs' = [subs EXCEPT ![s] = m]
    BY <1>5, <2>3, <2>4, <2>5 DEF ResumeTask
  <2>8. QED
    BY <1>2, <1>3, <2>6, <2>7, TaskStep
<1>6. QED
  BY <1>4, <1>5

(* A replayed row, a buffered row, and the ends of both.                   *)
LEMMA ReplayRowStep == ASSUME IInv, NEW s \in Sub, ReplayRow(s) PROVE IInv'
<1>1. /\ cursor \in Nat /\ Len(log) \in Nat
      /\ RecInv(subs[s], cursor, Len(log)) /\ subs[s] \in SubscriberType
  BY Parts
<1>2. PICK q \in Nat : q = subs[s].pos + 1
  BY SMTT(20), <1>1 DEF SubscriberType
<1>3. PICK n : n = Advance(subs[s], q)
  OBVIOUS
<1>4. PICK m : m = IF log[q] \in subs[s].want THEN EvictIfLagging(Enqueue(n, q)) ELSE n
  OBVIOUS
<1>5. /\ subs[s].phase = "replay" /\ subs[s].pos < subs[s].end /\ loop = "task"
      /\ UNCHANGED <<tableVars, bellVars, stopping, cursor, sweepEnd, beats>>
  BY DEF ReplayRow
<1>6. subs' = [subs EXCEPT ![s] = m] /\ loop' = IF m.phase = "closed" THEN "idle" ELSE "task"
  BY <1>2, <1>3, <1>4 DEF ReplayRow, Advance
<1>7. /\ RecInv(n, cursor, Len(log)) /\ n.phase = "replay"
      /\ RecInv(EvictIfLagging(Enqueue(n, q)), cursor, Len(log))
      /\ EvictIfLagging(Enqueue(n, q)).phase \in {"replay", "closed"}
  BY <1>1, <1>2, <1>3, <1>5, ReplayRec
<1>8. RecInv(m, cursor, Len(log)) /\ m.phase \in {"replay", "closed"}
  BY <1>4, <1>7
<1>9. \A t \in Sub : InTask(subs[t]) => t = s
  BY <1>5 DEF IInv, LoopInv, InTask
<1>10. loop' \in {"task", "idle"} /\ (InTask(m) => loop' = "task")
  BY <1>6 DEF InTask
<1>11. QED
  BY <1>5, <1>6, <1>8, <1>9, <1>10, TaskStep

LEMMA FlushRowStep == ASSUME IInv, NEW s \in Sub, FlushRow(s) PROVE IInv'
<1>1. /\ cursor \in Nat /\ Len(log) \in Nat
      /\ RecInv(subs[s], cursor, Len(log)) /\ subs[s] \in SubscriberType
  BY Parts
<1>2. PICK n : n = [subs[s] EXCEPT !.buf = Tail(subs[s].buf)]
  OBVIOUS
<1>3. PICK f : f = Head(subs[s].buf)
  OBVIOUS
<1>4. PICK m : m = EvictIfLagging(Enqueue(n, f))
  OBVIOUS
<1>5. /\ subs[s].phase = "flush" /\ subs[s].buf # <<>> /\ loop = "task"
      /\ UNCHANGED <<tableVars, bellVars, stopping, cursor, sweepEnd, beats>>
  BY DEF FlushRow
<1>6. subs' = [subs EXCEPT ![s] = m] /\ loop' = IF m.phase = "closed" THEN "idle" ELSE "task"
  BY <1>2, <1>3, <1>4 DEF FlushRow
<1>7. RecInv(m, cursor, Len(log)) /\ m.phase \in {"flush", "closed"}
  BY <1>1, <1>2, <1>3, <1>4, <1>5, FlushRec
<1>8. \A t \in Sub : InTask(subs[t]) => t = s
  BY <1>5 DEF IInv, LoopInv, InTask
<1>9. loop' \in {"task", "idle"} /\ (InTask(m) => loop' = "task")
  BY <1>6 DEF InTask
<1>10. QED
  BY <1>5, <1>6, <1>7, <1>8, <1>9, TaskStep

LEMMA TaskEndStep ==
  ASSUME IInv, NEW s \in Sub, ReplayDone(s) \/ FlushDone(s)
  PROVE  IInv'
<1>1. /\ cursor \in Nat /\ Len(log) \in Nat
      /\ RecInv(subs[s], cursor, Len(log)) /\ subs[s] \in SubscriberType
      /\ subs \in [Sub -> SubscriberType]
  BY Parts DEF IInv, TypeOK
<1>2. CASE ReplayDone(s)
  <2>1. PICK m : m = InPhase(subs[s], "flush")
    OBVIOUS
  <2>2. subs[s].phase = "replay" /\ UNCHANGED <<tableVars, bellVars, loopVars, beats>>
    BY <1>2 DEF ReplayDone
  <2>3. subs' = [subs EXCEPT ![s] = m]
    BY <1>2, <2>1 DEF ReplayDone, InPhase
  <2>4. RecInv(m, cursor, Len(log))
    <3>1. Enters(subs[s], "flush")
      BY <2>2 DEF Enters
    <3>2. QED
      BY <1>1, <2>1, <3>1, PhaseRec
  <2>5. InTask(subs[s])
    BY <2>2 DEF InTask
  <2>6. QED
    BY <2>2, <2>3, <2>4, <2>5, QuietStep
<1>3. CASE FlushDone(s)
  <2>1. PICK m : m = InPhase(subs[s], "live")
    OBVIOUS
  <2>2. /\ subs[s].phase = "flush" /\ subs[s].buf = <<>> /\ loop = "task" /\ loop' = "idle"
        /\ UNCHANGED <<tableVars, bellVars, stopping, cursor, sweepEnd, beats>>
    BY <1>3 DEF FlushDone
  <2>3. subs' = [subs EXCEPT ![s] = m]
    BY <1>3, <2>1 DEF FlushDone, InPhase
  <2>4. RecInv(m, cursor, Len(log)) /\ m.phase = "live"
    <3>1. Enters(subs[s], "live")
      BY <2>2 DEF Enters
    <3>2. QED
      BY <1>1, <2>1, <3>1, PhaseRec
  <2>5. \A t \in Sub : InTask(subs[t]) => t = s
    BY <2>2 DEF IInv, LoopInv, InTask
  <2>6. ~InTask(m) /\ loop' \in {"task", "idle"}
    BY <2>2, <2>4 DEF InTask
  <2>7. QED
    BY <2>2, <2>3, <2>4, <2>5, <2>6, TaskStep
<1>4. QED
  BY <1>2, <1>3

(* The writability callback and the peer.                                  *)
LEMMA WireStep ==
  ASSUME IInv, NEW s \in Sub, Drain(s) \/ DrainError(s) \/ PeerReads(s) \/ PeerGone(s)
  PROVE  IInv'
<1>1. /\ cursor \in Nat /\ Len(log) \in Nat
      /\ RecInv(subs[s], cursor, Len(log)) /\ subs[s] \in SubscriberType
      /\ subs \in [Sub -> SubscriberType]
  BY Parts DEF IInv, TypeOK
<1>2. UNCHANGED <<tableVars, bellVars, loopVars, beats>>
  BY DEF Drain, DrainError, PeerReads, PeerGone
<1>3. /\ subs[s].out \in Seq(Frame) /\ Len(subs[s].out) \in Nat /\ subs[s].sent \in Nat
      /\ subs[s].lag \in Nat /\ subs[s].read \in Nat
  BY <1>1 DEF SubscriberType
<1>4. LAG_LIMIT \in Nat /\ SNDBUF \in Nat
  BY LimitsAssumption
<1>5. CASE Drain(s)
  <2>1. PICK k \in Nat : /\ k = Min2(Len(subs[s].out), subs[s].read + SNDBUF)
                         /\ subs[s].sent <= k /\ k <= Len(subs[s].out)
    BY SMTT(20), <1>3, <1>4, <1>5 DEF Drain, Min2
  <2>2. PICK l \in Nat : l = IF k = Len(subs[s].out) THEN 0 ELSE subs[s].lag
    BY <1>3
  <2>3. PICK m : m = Rewire(subs[s], subs[s].out, k, l)
    OBVIOUS
  <2>4. m \in SubscriberType /\ SameSubscription(m, subs[s]) /\ Carries(m, subs[s].out, k, l)
    BY <1>1, <1>3, <2>3, RewireFacts
  <2>5. RecInv(m, cursor, Len(log))
    BY <1>1, <2>1, <2>4, SameFrames DEF Carries
  <2>6. InTask(m) => InTask(subs[s])
    BY <2>4 DEF SameSubscription, InTask
  <2>7. subs' = [subs EXCEPT ![s] = m]
    BY <1>1, <1>5, <2>1, <2>2, <2>3 DEF Drain, Rewire, SubscriberType
  <2>8. QED
    BY <1>2, <2>5, <2>6, <2>7, QuietStep
<1>6. CASE DrainError(s)
  <2>1. PICK w : w = Cut(subs[s])
    OBVIOUS
  <2>2. PICK m : m = Rewire(subs[s], w, subs[s].sent, LAG_LIMIT)
    OBVIOUS
  <2>3. RecInv(m, cursor, Len(log)) /\ m.phase = subs[s].phase
    <3>1. subs[s].phase \in Registered
      BY <1>6 DEF DrainError
    <3>2. QED
      BY <1>1, <1>4, <2>1, <2>2, <3>1, DrainErrorRec
  <2>4. subs' = [subs EXCEPT ![s] = m]
    BY <1>1, <1>6, <2>1, <2>2 DEF DrainError, Rewire, Cut, SubscriberType
  <2>5. InTask(m) => InTask(subs[s])
    BY <2>3 DEF InTask
  <2>6. QED
    BY <1>2, <2>3, <2>4, <2>5, QuietStep
<1>7. CASE PeerReads(s) \/ PeerGone(s)
  <2>1. PICK m : /\ subs' = [subs EXCEPT ![s] = m]
                 /\ \/ m = [subs[s] EXCEPT !.peer = FALSE]
                    \/ /\ m = [subs[s] EXCEPT !.read = subs[s].read + 1]
                       /\ subs[s].read < subs[s].sent
    BY <1>1, <1>7 DEF PeerReads, PeerGone
  <2>2. RecInv(m, cursor, Len(log)) /\ m.phase = subs[s].phase
    BY <1>1, <2>1, PeerRec
  <2>3. InTask(m) => InTask(subs[s])
    BY <2>2 DEF InTask
  <2>4. QED
    BY <1>2, <2>1, <2>2, <2>3, QuietStep
<1>8. QED
  BY <1>5, <1>6, <1>7

(* One row goes out to every subscriber.                                   *)
LEMMA FanOutRowStep == ASSUME IInv, FanOutRow PROVE IInv'
<1>1. /\ cursor \in Nat /\ Len(log) \in Nat /\ sweepEnd \in Nat
      /\ cursor < sweepEnd /\ sweepEnd <= Len(log) /\ loop = "sweep"
  BY Parts DEF IInv, TypeOK, LoopInv, FanOutRow
<1>2. PICK q \in Nat : q = cursor + 1
  BY <1>1
<1>3. /\ log' = log /\ prod' = prod /\ rings' = rings /\ eventfd' = eventfd
      /\ stopping' = stopping /\ sweepEnd' = sweepEnd /\ beats' = beats
      /\ cursor' = q /\ subs' = [t \in Sub |-> FanOutTo(subs[t], q)]
  BY <1>2 DEF FanOutRow, tableVars, bellVars
<1>4. /\ loop' \in {"idle", "closing", "sweep"}
      /\ loop' = "sweep" => q # sweepEnd
  BY <1>2 DEF FanOutRow, AfterPass
<1>5. cursor < Len(log) /\ \A t \in Sub : ~InTask(subs[t])
  BY <1>1, Parts
<1>6. \A t \in Sub : /\ RecInv(FanOutTo(subs[t], q), q, Len(log))
                     /\ FanOutTo(subs[t], q).phase \in {subs[t].phase, "closed"}
  BY <1>1, <1>2, <1>5, Parts, FanOutRec
<1>7. \A t \in Sub : RecInv(subs'[t], cursor', Len(log')) /\ ~InTask(subs'[t])
  BY <1>3, <1>5, <1>6 DEF InTask
<1>8. subs' = [t \in Sub |-> subs'[t]]
  BY <1>3
<1>9. /\ cursor' <= Len(log) /\ sweepEnd' <= Len(log) /\ cursor' \in Nat
      /\ loop' = "sweep" => cursor' < sweepEnd'
  BY <1>1, <1>2, <1>3, <1>4
<1>10. /\ rings' \in 0..BACKLOG /\ eventfd' \in BOOLEAN /\ stopping' \in BOOLEAN
       /\ sweepEnd' \in Nat /\ beats' \in Nat
       /\ loop' \in {"down", "booting", "idle", "woken", "sweep", "closing"}
  BY <1>1, <1>3, <1>4 DEF IInv, TypeOK
<1>11. QED
  BY <1>3, <1>7, <1>8, <1>9, <1>10, EveryStep

(* A heartbeat, a stop, a shutdown and a crash.                            *)
LEMMA EveryoneStep ==
  ASSUME IInv, Heartbeat \/ Stop \/ Shutdown \/ Crash
  PROVE  IInv'
<1>1. /\ cursor \in Nat /\ Len(log) \in Nat /\ sweepEnd \in Nat /\ beats \in Nat
      /\ cursor <= Len(log) /\ sweepEnd <= Len(log) /\ rings \in 0..BACKLOG
  BY Parts DEF IInv, TypeOK, LoopInv
<1>2. eventfd \in BOOLEAN /\ stopping \in BOOLEAN
  BY DEF IInv, TypeOK
<1>3. /\ log' = log /\ prod' = prod /\ cursor' = cursor
      /\ sweepEnd' \in {sweepEnd, cursor} /\ beats' \in {beats, beats + 1}
      /\ loop' \in {"idle", "woken", "down"} /\ rings' \in {rings, 0}
      /\ (loop = "task" => loop' = "down" /\ subs' = ClosedAll)
  BY DEF Heartbeat, Stop, Shutdown, Crash, tableVars, bellVars, loopVars, AtIdle
<1>4. eventfd' \in BOOLEAN /\ stopping' \in BOOLEAN
  BY <1>2 DEF Heartbeat, Stop, Shutdown, Crash, tableVars, bellVars, loopVars, AtIdle
<1>5. rings' \in 0..BACKLOG /\ beats' \in Nat
  BY <1>1, <1>3, LimitsAssumption
<1>6. \A t \in Sub : /\ RecInv(subs[t], cursor, Len(log))
                     /\ RecInv(HeartbeatTo(subs[t]), cursor, Len(log))
                     /\ HeartbeatTo(subs[t]).phase \in {subs[t].phase, "closed"}
                     /\ RecInv(CloseSubscriber(subs[t], FALSE), cursor, Len(log))
                     /\ CloseSubscriber(subs[t], FALSE).phase = "closed"
  BY Parts, HeartbeatRec, CloseRec
<1>7. /\ \A t \in Sub : \/ subs'[t] = subs[t]
                         \/ subs'[t] = HeartbeatTo(subs[t])
                         \/ subs'[t] = CloseSubscriber(subs[t], FALSE)
      /\ subs' = [t \in Sub |-> subs'[t]]
  BY DEF Heartbeat, Stop, Shutdown, Crash, ClosedAll
<1>8. \A t \in Sub : RecInv(subs'[t], cursor', Len(log'))
  BY <1>3, <1>6, <1>7
<1>9. \A t \in Sub : ~InTask(subs'[t])
  <2>1. CASE loop = "task"
    BY <1>3, <1>6, <2>1 DEF ClosedAll, InTask, Registered
  <2>2. CASE loop # "task"
    BY <1>6, <1>7, <2>2, Parts DEF InTask
  <2>3. QED
    BY <2>1, <2>2
<1>10. /\ sweepEnd' \in Nat /\ sweepEnd' <= Len(log) /\ cursor' \in Nat /\ cursor' <= Len(log)
       /\ loop' \in {"down", "booting", "idle", "woken", "sweep", "closing"}
       /\ loop' # "sweep"
  BY <1>1, <1>3
<1>11. QED
  BY <1>3, <1>4, <1>5, <1>7, <1>8, <1>9, <1>10, EveryStep

-----------------------------------------------------------------------------
(* The invariant is inductive, and what follows from it.                   *)

(* Every step of the daemon, its producers and its peers keeps IInv.       *)
LEMMA NextHolds == ASSUME IInv, [Next]_vars PROVE IInv'
<1>1. CASE UNCHANGED vars
  BY <1>1 DEF vars, IInv, TypeOK, LoopInv
<1>2. ASSUME NEW p \in Producer, ProducerStep(p) \/ RingLost(p) PROVE IInv'
  BY <1>2, CommitStep, BellStep DEF ProducerStep
<1>3. ASSUME NEW s \in Sub, SubscribeStep(s) PROVE IInv'
  BY <1>3, AcceptStep, SubscribeStepHolds, SendAckStep, ResumeTaskStep, ReplayRowStep,
     FlushRowStep, TaskEndStep DEF SubscribeStep
<1>4. ASSUME NEW s \in Sub, Drain(s) \/ PeerReads(s) PROVE IInv'
  BY <1>4, WireStep
<1>5. ASSUME NEW s \in Sub, SubscriberFault(s) PROVE IInv'
  BY <1>5, CloseStep, SnapshotFailsStep, WireStep DEF SubscriberFault
<1>6. CASE DaemonStep
  BY <1>6, BellStep, FanOutRowStep, EveryoneStep, BootStep DEF DaemonStep
<1>7. CASE AcceptRingTimeout \/ SelectFails \/ Stop \/ Shutdown \/ Crash
  BY <1>7, BellStep, EveryoneStep
<1>8. QED
  BY <1>1, <1>2, <1>3, <1>4, <1>5, <1>6, <1>7 DEF Next, NormalNext, FaultNext

(* IInv holds in every reachable state, for every table, any number of     *)
(* subscribers and every choice of the limits.                             *)
THEOREM Invariance == Spec => []IInv
  BY InitHolds, NextHolds, PTL DEF Spec

(* Every variable of the daemon keeps its type.                            *)
THEOREM TypeCorrect == Spec => []TypeOK
<1>1. IInv => TypeOK
  BY DEF IInv
<1>2. QED
  BY Invariance, <1>1, PTL

(* No subscriber is ever handed a row twice or out of seq order, whichever *)
(* of _replay, the pre-ack buffer and _fan_out hands it over.              *)
THEOREM FeedIsOrdered == Spec => []NoDuplicateInSeqOrder
<1>1. IInv => NoDuplicateInSeqOrder
  BY DEF IInv, RecInv, NoDuplicateInSeqOrder
<1>2. QED
  BY Invariance, <1>1, PTL
=============================================================================
