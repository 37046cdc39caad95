------------------------- MODULE BroadcastFeedProofs -------------------------
(***************************************************************************)
(* Proofs about Broadcast for every value of its constants, on top of the  *)
(* invariant of BroadcastProofs: what goes out on a connection comes after *)
(* its ack and ends with its reject frame, the memory one subscriber can   *)
(* pin is bounded, and a registered subscriber that is not about to be     *)
(* evicted was handed exactly the rows it is owed.                         *)
(***************************************************************************)
EXTENDS BroadcastProofs

-----------------------------------------------------------------------------
(* The wire.  The invariant says of each phase what its wire can carry:    *)
(* heartbeats only until the ack; from the ack on, the ack among the       *)
(* frames the kernel took, so that no discarded queue can take it back; a  *)
(* reject frame only once the subscriber is closed.                        *)

(* The phases after the ack went out.                                      *)
Begun == {"acked", "replay", "flush", "live"}

FollowsAck(o) ==
  /\ \A i \in DOMAIN o : o[i] > 0 => \E j \in 1..(i - 1) : o[j] = Ack
  /\ \A i, j \in DOMAIN o : o[i] = Ack /\ o[j] = Ack => i = j

Clean(o) == \A i \in DOMAIN o : o[i] # Reject

AckInv(r) ==
  /\ FollowsAck(r.out)
  /\ r.phase # "closed" => Clean(r.out)
  /\ r.phase = "closed" => \A i \in DOMAIN r.out : r.out[i] = Reject => i = Len(r.out) /\ r.sent = i
  /\ r.phase \notin Begun \cup {"closed"} => \A i \in DOMAIN r.out : r.out[i] = Beat
  /\ r.phase \in Begun => \E j \in 1..r.sent : r.out[j] = Ack
  /\ r.phase = "acking" => r.sent = Len(r.out)

(* Between an enqueue and the lag check that follows it.                   *)
Counted(r) == Len(r.out) - r.sent <= r.lag /\ Len(r.buf) <= PRE_ACK_BUFFER_FRAMES

LagInv(r) ==
  /\ Counted(r)
  /\ r.lag >= LAG_LIMIT => r.lag = LAG_LIMIT /\ ~r.peer /\ r.sent = Len(r.out)

WireInv(r) == AckInv(r) /\ LagInv(r)

WInv == \A s \in Sub : WireInv(subs[s])

-----------------------------------------------------------------------------
(* Queues of frames.                                                       *)

(* A frame that may go out next.                                           *)
MayFollow(o, f) ==
  \/ f \in {Beat, Reject}
  \/ f > 0 /\ \E j \in DOMAIN o : o[j] = Ack
  \/ f = Ack /\ \A j \in DOMAIN o : o[j] # Ack

LEMMA AppendFollows ==
  ASSUME NEW o \in Seq(Frame), NEW f \in Frame, NEW w, w = Append(o, f),
         FollowsAck(o), MayFollow(o, f)
  PROVE  FollowsAck(w)
<1>1. /\ Len(o) \in Nat /\ DOMAIN o = 1..Len(o) /\ DOMAIN w = 1..(Len(o) + 1)
      /\ w[Len(o) + 1] = f /\ \A i \in 1..Len(o) : w[i] = o[i]
  BY AppendFacts
<1>2. f \in Int
  BY FrameIsInt
<1>3. ASSUME NEW i \in DOMAIN w, w[i] > 0 PROVE \E j \in 1..(i - 1) : w[j] = Ack
  <2>1. CASE i \in DOMAIN o
    <3>1. PICK j \in 1..(i - 1) : o[j] = Ack
      BY <1>1, <1>3, <2>1 DEF FollowsAck
    <3>2. QED
      BY <1>1, <2>1, <3>1
  <2>2. CASE i = Len(o) + 1
    <3>1. PICK j \in DOMAIN o : o[j] = Ack
      BY <1>1, <1>3, <2>2 DEF MayFollow, Ack, Beat, Reject
    <3>2. QED
      BY <1>1, <2>2, <3>1
  <2>3. QED
    BY <1>1, <2>1, <2>2
<1>4. ASSUME NEW i \in DOMAIN w, NEW j \in DOMAIN w, w[i] = Ack, w[j] = Ack PROVE i = j
  BY <1>1, <1>2, <1>4 DEF FollowsAck, MayFollow, Ack, Beat, Reject
<1>5. QED
  BY <1>3, <1>4 DEF FollowsAck

LEMMA CutFollows ==
  ASSUME NEW o \in Seq(Frame), NEW k \in Nat, k <= Len(o), FollowsAck(o),
         NEW w \in Seq(Frame), DOMAIN w = 1..k,
         \A i \in 1..k : i \in DOMAIN o /\ w[i] = o[i]
  PROVE  FollowsAck(w)
<1>1. ASSUME NEW i \in DOMAIN w, w[i] > 0 PROVE \E j \in 1..(i - 1) : w[j] = Ack
  <2>1. PICK j \in 1..(i - 1) : o[j] = Ack
    BY <1>1 DEF FollowsAck
  <2>2. QED
    BY <2>1
<1>2. \A i, j \in DOMAIN w : w[i] = Ack /\ w[j] = Ack => i = j
  BY DEF FollowsAck
<1>3. QED
  BY <1>1, <1>2 DEF FollowsAck

-----------------------------------------------------------------------------
(* The operators on subscribers.                                           *)

(* What the wire invariant needs of a record's neighbours.                 *)
Sized(r) == r \in SubscriberType /\ r.sent <= Len(r.out)

LEMMA SizedFacts ==
  ASSUME NEW r, Sized(r)
  PROVE  /\ r.out \in Seq(Frame) /\ Len(r.out) \in Nat /\ DOMAIN r.out = 1..Len(r.out)
         /\ r.sent \in Nat /\ r.lag \in Nat /\ r.sent <= Len(r.out)
         /\ r.buf \in Seq(Nat \ {0}) /\ Len(r.buf) \in Nat
         /\ r.peer \in BOOLEAN /\ r.phase \in Phase
  BY DEF Sized, SubscriberType

(* _close_subscriber: unsent frames are discarded, and a reject frame goes *)
(* out at a frame boundary only.                                           *)
LEMMA ClosedWire ==
  ASSUME NEW o \in Seq(Frame), NEW k \in Nat, k = Len(o), FollowsAck(o),
         \A i \in DOMAIN o : o[i] = Reject => i = Len(o)
  PROVE  WireInv(Closed(o, k))
<1>1. /\ Closed(o, k).phase = "closed" /\ Closed(o, k).out = o /\ Closed(o, k).sent = k
      /\ Closed(o, k).lag = 0 /\ Closed(o, k).buf = <<>>
  BY DEF Closed, Unused
<1>2. LAG_LIMIT \in Nat \ {0} /\ PRE_ACK_BUFFER_FRAMES \in Nat
  BY LimitsAssumption
<1>3. AckInv(Closed(o, k))
  BY <1>1 DEF AckInv, Begun
<1>4. LagInv(Closed(o, k))
  BY <1>1, <1>2 DEF LagInv, Counted
<1>5. QED
  BY <1>3, <1>4 DEF WireInv

LEMMA CloseWire ==
  ASSUME NEW r, Sized(r), FollowsAck(r.out), Clean(r.out), NEW terminal \in BOOLEAN
  PROVE  WireInv(CloseSubscriber(r, terminal))
<1> DEFINE say == terminal /\ ~Queued(r) /\ r.peer /\ Room(r)
<1>1. r.out \in Seq(Frame) /\ r.sent \in Nat /\ Len(r.out) \in Nat /\ r.sent <= Len(r.out)
  BY SizedFacts
<1>2. CASE say
  <2>1. PICK w : w = Append(r.out, Reject)
    OBVIOUS
  <2>2. Reject \in Frame /\ MayFollow(r.out, Reject)
    BY DEF Frame, MayFollow
  <2>3. FollowsAck(w)
    BY <1>1, <2>1, <2>2, AppendFollows
  <2>4. /\ w \in Seq(Frame) /\ Len(w) = Len(r.out) + 1 /\ DOMAIN w = 1..(Len(r.out) + 1)
        /\ DOMAIN r.out = 1..Len(r.out) /\ \A i \in 1..Len(r.out) : w[i] = r.out[i]
    BY <1>1, <2>1, <2>2, AppendFacts
  <2>5. \A i \in DOMAIN w : w[i] = Reject => i = Len(w)
    BY <1>1, <2>4 DEF Clean
  <2>6. r.sent + 1 = Len(w) /\ r.sent + 1 \in Nat
    BY <1>1, <1>2, <2>4 DEF Queued
  <2>7. CloseSubscriber(r, terminal) = Closed(w, r.sent + 1)
    BY <1>2, <2>1 DEF CloseSubscriber, Closed
  <2>8. QED
    BY <2>3, <2>4, <2>5, <2>6, <2>7, ClosedWire
<1>3. CASE ~say
  <2>1. PICK w : w = SubSeq(r.out, 1, r.sent)
    OBVIOUS
  <2>2. /\ w \in Seq(Frame) /\ Len(w) = r.sent /\ DOMAIN w = 1..r.sent
        /\ \A i \in 1..r.sent : i \in DOMAIN r.out /\ w[i] = r.out[i]
    BY <1>1, <2>1
  <2>3. FollowsAck(w)
    BY <1>1, <2>2, CutFollows
  <2>4. \A i \in DOMAIN w : w[i] # Reject
    BY <2>2 DEF Clean
  <2>5. CloseSubscriber(r, terminal) = Closed(w, r.sent)
    BY <1>3, <2>1 DEF CloseSubscriber, Closed
  <2>6. QED
    BY <1>1, <2>2, <2>3, <2>4, <2>5, ClosedWire
<1>4. QED
  BY <1>2, <1>3

(* Subscriber.enqueue: only after the ack for a row, and the lag counter   *)
(* counts every frame it leaves in the queue.                              *)
LEMMA EnqueueWire ==
  ASSUME NEW r, Sized(r), WireInv(r), r.phase \in Registered, NEW f \in Frame,
         f = Beat \/ (f > 0 /\ r.phase \in Begun),
         NEW e, e = Enqueue(r, f)
  PROVE  Sized(e) /\ AckInv(e) /\ Counted(e) /\ e.phase = r.phase
<1>1. /\ r.out \in Seq(Frame) /\ Len(r.out) \in Nat /\ DOMAIN r.out = 1..Len(r.out)
      /\ r.sent \in Nat /\ r.lag \in Nat /\ r.sent <= Len(r.out)
      /\ r \in SubscriberType
  BY SizedFacts DEF Sized
<1>2. LAG_LIMIT \in Nat /\ f \in Int /\ r.sent + 1 \in Nat /\ r.lag + 1 \in Nat
  BY <1>1, LimitsAssumption, FrameIsInt
<1>3. e \in SubscriberType /\ SameSubscription(e, r)
  BY <1>1, EnqueueFacts
<1>4. /\ e.phase = r.phase /\ e.buf = r.buf /\ r.phase # "closed" /\ f # Reject /\ f # Ack
      /\ AckInv(r) /\ LagInv(r)
  BY <1>3 DEF SameSubscription, Registered, Begun, Ack, Beat, Reject, WireInv
<1>5. MayFollow(r.out, f)
  BY <1>1, <1>4 DEF MayFollow, AckInv
<1>6. PICK w : w = Append(r.out, f)
  OBVIOUS
<1>7. /\ FollowsAck(w) /\ w \in Seq(Frame)
      /\ Len(w) = Len(r.out) + 1 /\ DOMAIN w = 1..(Len(r.out) + 1)
      /\ w[Len(r.out) + 1] = f /\ \A i \in 1..Len(r.out) : w[i] = r.out[i]
  <2>1. FollowsAck(r.out)
    BY <1>4 DEF AckInv
  <2>2. FollowsAck(w)
    <3>1. \A v : v = Append(r.out, f) => FollowsAck(v)
      BY <1>1, <1>5, <2>1, AppendFollows
    <3>2. QED
      BY <1>6, <3>1
  <2>3. /\ w \in Seq(Frame)
        /\ Len(w) = Len(r.out) + 1 /\ DOMAIN w = 1..(Len(r.out) + 1)
        /\ w[Len(r.out) + 1] = f /\ \A i \in 1..Len(r.out) : w[i] = r.out[i]
    BY <1>1, <1>6, AppendFacts
  <2>4. QED
    BY <2>2, <2>3
<1>8. Clean(w)
  BY <1>1, <1>4, <1>7 DEF AckInv, Clean
<1>9. /\ r.phase \notin Begun => \A i \in DOMAIN w : w[i] = Beat
      /\ r.phase \in Begun => \E j \in 1..r.sent : w[j] = Ack
  BY SMTT(20), <1>1, <1>4, <1>7 DEF AckInv
<1>10. r.phase = "acking" => ~Queued(r) /\ Room(r) /\ r.sent = Len(r.out)
  BY <1>1, <1>4 DEF AckInv, Queued, Room
<1>11. \/ ~Queued(r) /\ Carries(e, r.out, r.sent, LAG_LIMIT)
       \/ ~Queued(r) /\ Carries(e, w, r.sent + 1, 0)
       \/ Carries(e, w, r.sent, r.lag + 1) /\ (Queued(r) \/ ~Room(r))
  <2>1. CASE Queued(r)
    <3>1. e = Rewire(r, w, r.sent, r.lag + 1)
      BY <1>1, <1>6, <2>1 DEF SubscriberType, Enqueue, Rewire
    <3>2. QED
      BY <1>1, <1>2, <1>7, <2>1, <3>1, RewireFacts
  <2>2. CASE ~Queued(r) /\ ~r.peer
    <3>1. e = Rewire(r, r.out, r.sent, LAG_LIMIT)
      BY <1>1, <2>2 DEF SubscriberType, Enqueue, Rewire
    <3>2. QED
      BY <1>1, <1>2, <2>2, <3>1, RewireFacts
  <2>3. CASE ~Queued(r) /\ r.peer /\ Room(r)
    <3>1. e = Rewire(r, w, r.sent + 1, 0)
      BY <1>1, <1>6, <2>3 DEF SubscriberType, Enqueue, Rewire
    <3>2. QED
      BY <1>1, <1>2, <1>7, <2>3, <3>1, RewireFacts
  <2>4. CASE ~Queued(r) /\ r.peer /\ ~Room(r)
    <3>1. e = Rewire(r, w, r.sent, r.lag + 1)
      BY <1>1, <1>6, <2>4 DEF SubscriberType, Enqueue, Rewire
    <3>2. QED
      BY <1>1, <1>2, <1>7, <2>4, <3>1, RewireFacts
  <2>5. QED
    BY <2>1, <2>2, <2>3, <2>4
<1>12. CASE ~Queued(r) /\ Carries(e, r.out, r.sent, LAG_LIMIT)
  <2>1. Sized(e) /\ Counted(e)
    BY <1>1, <1>2, <1>3, <1>4, <1>12 DEF Sized, Counted, LagInv, Queued, Carries
  <2>2. AckInv(e)
    BY <1>4, <1>12 DEF AckInv, Carries
  <2>3. QED
    BY <1>4, <2>1, <2>2
<1>13. CASE ~Queued(r) /\ Carries(e, w, r.sent + 1, 0)
  <2>1. Sized(e) /\ Counted(e)
    BY <1>1, <1>3, <1>4, <1>7, <1>13 DEF Sized, Counted, LagInv, Queued, Carries
  <2>2. r.phase \in Begun => \E j \in 1..(r.sent + 1) : w[j] = Ack
    BY <1>1, <1>9
  <2>3. r.phase = "acking" => r.sent + 1 = Len(w)
    BY <1>7, <1>10
  <2>4. AckInv(e)
    BY <1>4, <1>7, <1>8, <1>9, <1>13, <2>2, <2>3 DEF AckInv, Carries
  <2>5. QED
    BY <1>4, <2>1, <2>4
<1>14. CASE Carries(e, w, r.sent, r.lag + 1) /\ (Queued(r) \/ ~Room(r))
  <2>1. Sized(e) /\ Counted(e)
    BY <1>1, <1>3, <1>4, <1>7, <1>14 DEF Sized, Counted, LagInv, Carries
  <2>2. r.phase # "acking"
    BY <1>10, <1>14
  <2>3. AckInv(e)
    BY <1>4, <1>7, <1>8, <1>9, <1>14, <2>2 DEF AckInv, Carries
  <2>4. QED
    BY <1>4, <2>1, <2>3
<1>15. QED
  BY <1>11, <1>12, <1>13, <1>14

(* The lag check: what survives it is below the limit.                     *)
LEMMA EvictWire ==
  ASSUME NEW r, Sized(r), AckInv(r), Counted(r), r.phase # "closed"
  PROVE  WireInv(EvictIfLagging(r))
<1>1. LAG_LIMIT \in Nat /\ r.lag \in Nat
  BY LimitsAssumption, SizedFacts
<1>2. CASE r.lag >= LAG_LIMIT
  BY <1>2, CloseWire DEF EvictIfLagging, AckInv
<1>3. CASE ~(r.lag >= LAG_LIMIT)
  BY <1>3 DEF EvictIfLagging, WireInv, LagInv
<1>4. QED
  BY <1>2, <1>3

(* A frame handed over.                                                    *)
LEMMA HandWire ==
  ASSUME NEW r, Sized(r), WireInv(r), r.phase \in Registered, NEW f \in Frame,
         f = Beat \/ (f > 0 /\ r.phase \in Begun)
  PROVE  WireInv(EvictIfLagging(Enqueue(r, f)))
<1>1. PICK e : e = Enqueue(r, f)
  OBVIOUS
<1>2. Sized(e) /\ AckInv(e) /\ Counted(e) /\ e.phase = r.phase
  BY <1>1, EnqueueWire
<1>3. e.phase # "closed"
  BY <1>2 DEF Registered
<1>4. QED
  BY <1>1, <1>2, <1>3, EvictWire

-----------------------------------------------------------------------------
(* The records a step leaves.                                              *)

(* A record with the same wire and no longer pre-ack buffer; a subscribe   *)
(* task moves from phase to phase only after the ack.                      *)
SameWire(m, r) ==
  /\ m.peer = r.peer /\ m.out = r.out /\ m.sent = r.sent /\ m.lag = r.lag
  /\ m.phase = r.phase \/ (m.phase \in Begun /\ r.phase \in Begun)
  /\ Len(m.buf) <= PRE_ACK_BUFFER_FRAMES

LEMMA SameWireHolds ==
  ASSUME NEW r, WireInv(r), NEW m, SameWire(m, r)
  PROVE  WireInv(m)
<1>1. AckInv(m)
  BY DEF WireInv, AckInv, SameWire, Begun
<1>2. LagInv(m)
  BY DEF WireInv, LagInv, Counted, SameWire
<1>3. QED
  BY <1>1, <1>2 DEF WireInv

(* _fan_out buffers a row before the ack and hands it over after it.       *)
LEMMA FanOutWire ==
  ASSUME NEW r, Sized(r), WireInv(r), NEW q \in Nat \ {0}
  PROVE  WireInv(FanOutTo(r, q))
<1>1. /\ r \in SubscriberType /\ r.buf \in Seq(Nat \ {0}) /\ Len(r.buf) \in Nat
      /\ Len(r.buf) <= PRE_ACK_BUFFER_FRAMES /\ PRE_ACK_BUFFER_FRAMES \in Nat
  BY SizedFacts, LimitsAssumption DEF Sized, WireInv, LagInv, Counted
<1>2. CASE r.phase \notin Registered \/ log[q] \notin r.want \/ q <= r.wm
  BY <1>2 DEF FanOutTo
<1>3. CASE r.phase \in PreAck /\ log[q] \in r.want /\ ~(q <= r.wm)
           /\ Len(r.buf) >= PRE_ACK_BUFFER_FRAMES
  <2>1. r.phase \in Registered /\ r.phase # "closed"
    BY <1>3 DEF PreAck, Registered
  <2>2. FanOutTo(r, q) = CloseSubscriber(r, TRUE)
    BY <1>3, <2>1 DEF FanOutTo
  <2>3. QED
    BY <2>1, <2>2, CloseWire DEF WireInv, AckInv
<1>4. CASE r.phase \in PreAck /\ log[q] \in r.want /\ ~(q <= r.wm)
           /\ ~(Len(r.buf) >= PRE_ACK_BUFFER_FRAMES)
  <2>1. PICK b : b = Append(r.buf, q)
    OBVIOUS
  <2>2. b \in Seq(Nat \ {0}) /\ Len(b) = Len(r.buf) + 1
    BY <1>1, <2>1
  <2>3. PICK m : m = Rebuffer(r, b)
    OBVIOUS
  <2>4. /\ m.phase = r.phase /\ m.out = r.out /\ m.sent = r.sent /\ m.buf = b
        /\ m.peer = r.peer /\ m.lag = r.lag
    BY <1>1, <2>2, <2>3 DEF Rebuffer, SubscriberType
  <2>5. SameWire(m, r)
    BY <1>1, <1>4, <2>2, <2>4 DEF SameWire
  <2>6. r.phase \in Registered
    BY <1>4 DEF PreAck, Registered
  <2>7. FanOutTo(r, q) = m
    BY <1>4, <2>1, <2>3, <2>6 DEF FanOutTo, Rebuffer
  <2>8. QED
    BY <2>5, <2>7, SameWireHolds
<1>5. CASE r.phase \in Registered \ PreAck /\ log[q] \in r.want /\ ~(q <= r.wm)
  <2>1. PICK m : m = [r EXCEPT !.wm = 0]
    OBVIOUS
  <2>2. /\ m \in SubscriberType
        /\ m.phase = r.phase /\ m.out = r.out /\ m.sent = r.sent /\ m.buf = r.buf
        /\ m.peer = r.peer /\ m.lag = r.lag
    BY <1>1, <2>1 DEF SubscriberType
  <2>3. Sized(m)
    BY <2>2 DEF Sized
  <2>4. WireInv(m)
    BY <1>1, <2>2, SameWireHolds DEF SameWire
  <2>5. m.phase \in Registered /\ m.phase \in Begun /\ q > 0 /\ q \in Frame
    BY <1>5, <2>2 DEF Registered, PreAck, Begun, Frame
  <2>6. WireInv(EvictIfLagging(Enqueue(m, q)))
    BY <2>3, <2>4, <2>5, HandWire
  <2>7. QED
    BY <1>5, <2>1, <2>6 DEF FanOutTo
<1>6. QED
  BY <1>2, <1>3, <1>4, <1>5

LEMMA HeartbeatWire ==
  ASSUME NEW r, Sized(r), WireInv(r) PROVE WireInv(HeartbeatTo(r))
<1>1. Beat \in Frame
  BY DEF Frame
<1>2. QED
  BY <1>1, HandWire DEF HeartbeatTo

-----------------------------------------------------------------------------
(* Steps of the specification.                                             *)

LEMMA WireParts ==
  ASSUME IInv, WInv, NEW s \in Sub
  PROVE  /\ WireInv(subs[s]) /\ Sized(subs[s]) /\ subs[s] \in SubscriberType
         /\ RecInv(subs[s], cursor, Len(log)) /\ subs \in [Sub -> SubscriberType]
  BY Parts DEF WInv, Sized, RecInv, IInv, TypeOK

LEMMA OneWire ==
  ASSUME IInv, WInv, NEW s \in Sub, NEW m, WireInv(m), subs' = [subs EXCEPT ![s] = m]
  PROVE  WInv'
<1>1. subs \in [Sub -> SubscriberType]
  BY DEF IInv, TypeOK
<1>2. \A t \in Sub : subs'[t] = IF t = s THEN m ELSE subs[t]
  BY <1>1
<1>3. QED
  BY <1>2 DEF WInv

LEMMA WireInit == Init => WInv
<1> SUFFICES ASSUME Init, NEW s \in Sub PROVE WireInv(subs[s])
  BY DEF WInv
<1>1. /\ subs[s].phase = "off" /\ subs[s].out = <<>> /\ subs[s].sent = 0
      /\ subs[s].lag = 0 /\ subs[s].buf = <<>>
  BY DEF Init, Unused
<1>2. LAG_LIMIT \in Nat \ {0} /\ PRE_ACK_BUFFER_FRAMES \in Nat
  BY LimitsAssumption
<1>3. AckInv(subs[s])
  BY <1>1 DEF AckInv, FollowsAck, Clean, Begun
<1>4. LagInv(subs[s])
  BY <1>1, <1>2 DEF LagInv, Counted
<1>5. QED
  BY <1>3, <1>4 DEF WireInv

(* A connection is accepted, registered, or refused.                       *)
LEMMA AcceptWire == ASSUME IInv, WInv, NEW s \in Sub, Accept(s) PROVE WInv'
<1>1. PICK m : m = [Unused EXCEPT !.phase = "hello", !.peer = TRUE]
  OBVIOUS
<1>2. m.phase = "hello" /\ m.out = <<>> /\ m.sent = 0 /\ m.lag = 0 /\ m.buf = <<>>
  BY <1>1 DEF Unused
<1>3. LAG_LIMIT \in Nat \ {0} /\ PRE_ACK_BUFFER_FRAMES \in Nat
  BY LimitsAssumption
<1>4. AckInv(m)
  BY <1>2 DEF AckInv, FollowsAck, Clean, Begun
<1>5. LagInv(m)
  BY <1>2, <1>3 DEF LagInv, Counted
<1>6. subs' = [subs EXCEPT ![s] = m]
  BY <1>1 DEF Accept
<1>7. QED
  BY <1>4, <1>5, <1>6, OneWire DEF WireInv

LEMMA RegisterWire ==
  ASSUME IInv, WInv, NEW s \in Sub, NEW want, NEW since,
         Subscribe(s, want, since) \/ SnapshotFails(s, want)
  PROVE  WInv'
<1>1. /\ WireInv(subs[s]) /\ Sized(subs[s]) /\ subs[s] \in SubscriberType
      /\ RecInv(subs[s], cursor, Len(log)) /\ subs[s].phase = "hello"
  BY WireParts DEF Subscribe, SnapshotFails
<1>2. subs[s].out = <<>> /\ subs[s].sent = 0
  <2>1. subs[s].out = <<>>
    BY <1>1 DEF RecInv, RangeInv
  <2>2. QED
    BY <1>1, <2>1, SizedFacts
<1>3. PICK m : /\ subs' = [subs EXCEPT ![s] = m]
               /\ m.phase \in {"acking", "orphan"} /\ m.peer = subs[s].peer
               /\ m.out = subs[s].out /\ m.sent = subs[s].sent
               /\ m.lag = subs[s].lag /\ m.buf = subs[s].buf
  <2>1. CASE Subscribe(s, want, since)
    <3>1. PICK a, b : subs' = [subs EXCEPT ![s] = Enrolled(subs[s], "acking", want, since, a, b)]
      BY <2>1 DEF Subscribe, Enrolled
    <3>2. PICK m : m = Enrolled(subs[s], "acking", want, since, a, b)
      OBVIOUS
    <3>3. /\ m.phase = "acking" /\ m.peer = subs[s].peer
          /\ m.out = subs[s].out /\ m.sent = subs[s].sent
          /\ m.lag = subs[s].lag /\ m.buf = subs[s].buf
      BY <1>1, <3>2 DEF Enrolled, SubscriberType
    <3>4. subs' = [subs EXCEPT ![s] = m]
      BY <3>1, <3>2
    <3>5. QED
      BY <3>3, <3>4
  <2>2. CASE SnapshotFails(s, want)
    <3>1. subs' = [subs EXCEPT ![s] = Orphaned(subs[s], want, cursor)]
      BY <2>2 DEF SnapshotFails, Orphaned
    <3>2. PICK m : m = Orphaned(subs[s], want, cursor)
      OBVIOUS
    <3>3. /\ m.phase = "orphan" /\ m.peer = subs[s].peer
          /\ m.out = subs[s].out /\ m.sent = subs[s].sent
          /\ m.lag = subs[s].lag /\ m.buf = subs[s].buf
      BY <1>1, <3>2 DEF Orphaned, SubscriberType
    <3>4. subs' = [subs EXCEPT ![s] = m]
      BY <3>1, <3>2
    <3>5. QED
      BY <3>3, <3>4
  <2>3. QED
    BY <2>1, <2>2
<1>4. AckInv(m)
  BY <1>2, <1>3 DEF AckInv, FollowsAck, Clean, Begun
<1>5. LagInv(m)
  BY <1>1, <1>3 DEF WireInv, LagInv, Counted
<1>6. QED
  BY <1>3, <1>4, <1>5, OneWire DEF WireInv

LEMMA RefuseWire ==
  ASSUME IInv, WInv, NEW s \in Sub,
         HelloFails(s) \/ RejectVersion(s) \/ AckFails(s) \/ ReplayFails(s)
  PROVE  WInv'
<1>1. PICK b \in BOOLEAN : subs' = [subs EXCEPT ![s] = CloseSubscriber(subs[s], b)]
  BY DEF HelloFails, RejectVersion, AckFails, ReplayFails
<1>2. subs[s].phase # "closed"
  BY DEF HelloFails, RejectVersion, AckFails, ReplayFails
<1>3. WireInv(CloseSubscriber(subs[s], b))
  BY <1>2, WireParts, CloseWire DEF WireInv, AckInv
<1>4. QED
  BY <1>1, <1>3, OneWire

(* The ack is the first frame that is not a heartbeat, and the kernel took *)
(* it together with all before it.                                         *)
LEMMA SendAckWire == ASSUME IInv, WInv, NEW s \in Sub, SendAck(s) PROVE WInv'
<1>1. PICK r : r = subs[s]
  OBVIOUS
<1>2. /\ WireInv(r) /\ Sized(r) /\ r \in SubscriberType /\ r.phase = "acking" /\ r.peer
  BY <1>1, WireParts DEF SendAck
<1>3. /\ r.out \in Seq(Frame) /\ Len(r.out) \in Nat /\ DOMAIN r.out = 1..Len(r.out)
      /\ r.sent \in Nat /\ r.lag \in Nat /\ LAG_LIMIT \in Nat
  BY <1>2, SizedFacts, LimitsAssumption
<1>4. /\ FollowsAck(r.out) /\ r.sent = Len(r.out)
      /\ \A i \in DOMAIN r.out : r.out[i] = Beat
  BY <1>2 DEF WireInv, AckInv, Begun
<1>5. Ack \in Frame /\ MayFollow(r.out, Ack)
  BY <1>4 DEF Frame, MayFollow, Ack, Beat
<1>6. PICK w : w = Append(r.out, Ack)
  OBVIOUS
<1>7. FollowsAck(w)
  <2>1. \A v : v = Append(r.out, Ack) => FollowsAck(v)
    BY <1>3, <1>4, <1>5, AppendFollows
  <2>2. QED
    BY <1>6, <2>1
<1>8. /\ Len(w) = Len(r.out) + 1 /\ DOMAIN w = 1..(Len(r.out) + 1)
      /\ w[Len(r.out) + 1] = Ack /\ \A i \in 1..Len(r.out) : w[i] = r.out[i]
  BY <1>3, <1>5, <1>6, AppendFacts
<1>9. PICK m : m = Acked(r)
  OBVIOUS
<1>10. /\ m.phase = "acked" /\ m.out = w /\ m.sent = r.sent + 1 /\ m.lag = r.lag
       /\ m.buf = r.buf /\ m.peer = r.peer
  BY <1>2, <1>6, <1>9 DEF Acked, SubscriberType
<1>11. AckInv(m)
  <2>1. Clean(w)
    BY <1>3, <1>4, <1>8 DEF Clean, Ack, Beat, Reject
  <2>2. \E j \in 1..(r.sent + 1) : w[j] = Ack
    BY <1>3, <1>4, <1>8
  <2>3. QED
    BY <1>7, <1>10, <2>1, <2>2 DEF AckInv, Begun
<1>12. LagInv(m)
  BY <1>2, <1>3, <1>4, <1>8, <1>10 DEF WireInv, LagInv, Counted
<1>13. subs' = [subs EXCEPT ![s] = m]
  BY <1>1, <1>9 DEF SendAck, Acked
<1>14. QED
  BY <1>11, <1>12, <1>13, OneWire DEF WireInv

(* The subscribe task resumes, replays, flushes and ends.                  *)
LEMMA TaskWire ==
  ASSUME IInv, WInv, NEW s \in Sub, ResumeTask(s) \/ ReplayDone(s) \/ FlushDone(s)
  PROVE  WInv'
<1>1. PICK r : r = subs[s]
  OBVIOUS
<1>2. WireInv(r) /\ r \in SubscriberType /\ Len(r.buf) <= PRE_ACK_BUFFER_FRAMES
  BY <1>1, WireParts DEF WireInv, LagInv, Counted
<1>3. r.phase \in Begun
  BY <1>1 DEF ResumeTask, ReplayDone, FlushDone, Begun
<1>4. \E m : subs' = [subs EXCEPT ![s] = m] /\ SameWire(m, r)
  <2>1. CASE ResumeTask(s) /\ r.since # NoSince
    <3>1. PICK a, b, c : subs' = [subs EXCEPT ![s] =
                           [r EXCEPT !.phase = "replay", !.lo = a, !.pos = b, !.end = c]]
      BY <1>1, <2>1 DEF ResumeTask
    <3>2. PICK m : m = [r EXCEPT !.phase = "replay", !.lo = a, !.pos = b, !.end = c]
      OBVIOUS
    <3>3. /\ m.phase = "replay" /\ m.peer = r.peer /\ m.out = r.out /\ m.sent = r.sent
          /\ m.lag = r.lag /\ m.buf = r.buf
      BY <1>2, <3>2 DEF SubscriberType
    <3>4. SameWire(m, r)
      BY <1>2, <1>3, <3>3 DEF SameWire, Begun
    <3>5. QED
      BY <3>1, <3>2, <3>4
  <2>2. CASE (ResumeTask(s) /\ r.since = NoSince) \/ ReplayDone(s) \/ FlushDone(s)
    <3>1. PICK p \in {"flush", "live"} : subs' = [subs EXCEPT ![s] = InPhase(r, p)]
      <4>1. subs \in [Sub -> SubscriberType]
        BY WireParts
      <4>2. CASE ReplayDone(s) \/ FlushDone(s)
        BY <1>1, <4>1, <4>2 DEF ReplayDone, FlushDone, InPhase
      <4>3. CASE ResumeTask(s) /\ r.since = NoSince
        BY <1>1, <4>3 DEF ResumeTask, InPhase
      <4>4. QED
        BY <2>2, <4>2, <4>3
    <3>2. PICK m : m = InPhase(r, p)
      OBVIOUS
    <3>3. /\ m.phase = p /\ m.peer = r.peer /\ m.out = r.out /\ m.sent = r.sent
          /\ m.lag = r.lag /\ m.buf = r.buf
      BY <1>2, <3>2 DEF InPhase, SubscriberType
    <3>4. SameWire(m, r)
      BY <1>2, <1>3, <3>3 DEF SameWire, Begun
    <3>5. QED
      BY <3>1, <3>2, <3>4
  <2>3. QED
    BY <2>1, <2>2
<1>5. QED
  BY <1>2, <1>4, SameWireHolds, OneWire

(* A replayed row.                                                         *)
LEMMA ReplayWire == ASSUME IInv, WInv, NEW s \in Sub, ReplayRow(s) PROVE WInv'
<1>1. PICK r : r = subs[s]
  OBVIOUS
<1>2. /\ WireInv(r) /\ Sized(r) /\ r \in SubscriberType /\ r.phase = "replay"
      /\ Len(r.buf) <= PRE_ACK_BUFFER_FRAMES
  BY <1>1, WireParts DEF WireInv, LagInv, Counted, ReplayRow
<1>3. PICK q \in Nat \ {0} : q = r.pos + 1
  BY <1>2 DEF SubscriberType
<1>4. PICK n : n = Advance(r, q)
  OBVIOUS
<1>5. /\ n \in SubscriberType /\ n.phase = r.phase /\ n.peer = r.peer /\ n.out = r.out
      /\ n.sent = r.sent /\ n.lag = r.lag /\ n.buf = r.buf
  BY <1>2, <1>4 DEF Advance, SubscriberType
<1>6. WireInv(n) /\ Sized(n)
  BY <1>2, <1>5, SameWireHolds DEF SameWire, Sized
<1>7. q > 0 /\ q \in Frame /\ n.phase \in Begun /\ n.phase \in Registered
  BY <1>2, <1>5 DEF Frame, Begun, Registered
<1>8. WireInv(EvictIfLagging(Enqueue(n, q)))
  BY <1>6, <1>7, HandWire
<1>9. \/ subs' = [subs EXCEPT ![s] = n]
      \/ subs' = [subs EXCEPT ![s] = EvictIfLagging(Enqueue(n, q))]
  BY <1>1, <1>3, <1>4 DEF ReplayRow, Advance
<1>10. QED
  BY <1>6, <1>8, <1>9, OneWire

(* A row of the pre-ack buffer.                                            *)
LEMMA FlushWire == ASSUME IInv, WInv, NEW s \in Sub, FlushRow(s) PROVE WInv'
<1>1. PICK r : r = subs[s]
  OBVIOUS
<1>2. /\ WireInv(r) /\ Sized(r) /\ r \in SubscriberType /\ r.phase = "flush"
      /\ r.buf \in Seq(Nat \ {0}) /\ r.buf # <<>>
      /\ Len(r.buf) <= PRE_ACK_BUFFER_FRAMES /\ PRE_ACK_BUFFER_FRAMES \in Nat
  BY <1>1, WireParts, LimitsAssumption DEF WireInv, LagInv, Counted, FlushRow, SubscriberType
<1>3. PICK b : b = Tail(r.buf)
  OBVIOUS
<1>4. PICK f : f = Head(r.buf)
  OBVIOUS
<1>5. b \in Seq(Nat \ {0}) /\ Len(b) <= PRE_ACK_BUFFER_FRAMES /\ f \in Nat \ {0}
  BY <1>2, <1>3, <1>4
<1>6. PICK n : n = [r EXCEPT !.buf = b]
  OBVIOUS
<1>7. /\ n \in SubscriberType /\ n.phase = r.phase /\ n.peer = r.peer /\ n.out = r.out
      /\ n.sent = r.sent /\ n.lag = r.lag /\ n.buf = b
  BY <1>2, <1>5, <1>6 DEF SubscriberType
<1>8. WireInv(n) /\ Sized(n)
  BY <1>2, <1>5, <1>7, SameWireHolds DEF SameWire, Sized
<1>9. f > 0 /\ f \in Frame /\ n.phase \in Begun /\ n.phase \in Registered
  BY <1>2, <1>5, <1>7 DEF Frame, Begun, Registered
<1>10. WireInv(EvictIfLagging(Enqueue(n, f)))
  BY <1>8, <1>9, HandWire
<1>11. subs' = [subs EXCEPT ![s] = EvictIfLagging(Enqueue(n, f))]
  BY <1>1, <1>3, <1>4, <1>6 DEF FlushRow
<1>12. QED
  BY <1>10, <1>11, OneWire

(* The writability callback and the peer.                                  *)
LEMMA PeerWire ==
  ASSUME IInv, WInv, NEW s \in Sub, Drain(s) \/ DrainError(s) \/ PeerReads(s) \/ PeerGone(s)
  PROVE  WInv'
<1>1. PICK r : r = subs[s]
  OBVIOUS
<1>2. /\ WireInv(r) /\ Sized(r) /\ r \in SubscriberType /\ subs \in [Sub -> SubscriberType]
      /\ AckInv(r) /\ LagInv(r)
  BY <1>1, WireParts DEF WireInv
<1>3. /\ r.out \in Seq(Frame) /\ Len(r.out) \in Nat /\ DOMAIN r.out = 1..Len(r.out)
      /\ r.sent \in Nat /\ r.read \in Nat /\ r.lag \in Nat /\ r.sent <= Len(r.out)
      /\ LAG_LIMIT \in Nat \ {0} /\ SNDBUF \in Nat
  BY <1>2, SizedFacts, LimitsAssumption DEF SubscriberType
<1>4. CASE Drain(s)
  <2>1. PICK k \in Nat : /\ k = Min2(Len(r.out), r.read + SNDBUF)
                         /\ r.sent < k /\ k <= Len(r.out)
    BY SMTT(20), <1>1, <1>3, <1>4 DEF Drain, Min2
  <2>2. PICK l \in Nat : l = IF k = Len(r.out) THEN 0 ELSE r.lag
    BY <1>3
  <2>3. PICK m : m = Rewire(r, r.out, k, l)
    OBVIOUS
  <2>4. SameSubscription(m, r) /\ Carries(m, r.out, k, l)
    BY <1>2, <1>3, <2>3, RewireFacts
  <2>5. r.peer /\ r.phase \in Registered /\ r.phase # "acking" /\ r.phase # "closed"
    BY <1>1, <1>2, <1>3, <1>4 DEF Drain, Queued, AckInv, Registered
  <2>6. AckInv(m)
    <3>1. r.phase \in Begun => \E j \in 1..k : r.out[j] = Ack
      BY <1>2, <1>3, <2>1 DEF AckInv
    <3>2. QED
      BY <1>2, <2>4, <2>5, <3>1 DEF AckInv, SameSubscription, Carries
  <2>7. LagInv(m)
    BY <1>2, <1>3, <2>1, <2>2, <2>4, <2>5 DEF LagInv, Counted, SameSubscription, Carries
  <2>8. subs' = [subs EXCEPT ![s] = m]
    BY <1>1, <1>2, <1>4, <2>1, <2>2, <2>3 DEF Drain, Rewire, SubscriberType
  <2>9. QED
    BY <2>6, <2>7, <2>8, OneWire DEF WireInv
<1>5. CASE DrainError(s)
  <2>1. PICK w : w = Cut(r)
    OBVIOUS
  <2>2. /\ w \in Seq(Frame) /\ Len(w) = r.sent /\ DOMAIN w = 1..r.sent
        /\ \A i \in 1..r.sent : i \in DOMAIN r.out /\ w[i] = r.out[i]
    BY <1>3, <2>1 DEF Cut
  <2>3. FollowsAck(w)
    BY <1>2, <1>3, <2>2, CutFollows DEF AckInv
  <2>4. PICK m : m = Rewire(r, w, r.sent, LAG_LIMIT)
    OBVIOUS
  <2>5. SameSubscription(m, r) /\ Carries(m, w, r.sent, LAG_LIMIT)
    BY <1>2, <1>3, <2>2, <2>4, RewireFacts
  <2>6. ~r.peer /\ r.phase # "closed"
    BY <1>1, <1>5 DEF DrainError, Registered
  <2>7. AckInv(m)
    BY SMTT(20), <1>2, <1>3, <2>2, <2>3, <2>5, <2>6 DEF AckInv, Clean, SameSubscription, Carries
  <2>8. LagInv(m)
    BY <1>2, <1>3, <2>2, <2>5, <2>6 DEF LagInv, Counted, SameSubscription, Carries
  <2>9. subs' = [subs EXCEPT ![s] = m]
    BY <1>1, <1>2, <1>5, <2>1, <2>4 DEF DrainError, Rewire, Cut, SubscriberType
  <2>10. QED
    BY <2>7, <2>8, <2>9, OneWire DEF WireInv
<1>6. CASE PeerReads(s)
  <2>1. PICK m : m = [r EXCEPT !.read = r.read + 1]
    OBVIOUS
  <2>2. /\ m.phase = r.phase /\ m.peer = r.peer /\ m.out = r.out /\ m.sent = r.sent
        /\ m.lag = r.lag /\ m.buf = r.buf
    BY <1>2, <2>1 DEF SubscriberType
  <2>3. SameWire(m, r)
    BY <1>2, <2>2 DEF SameWire, LagInv, Counted
  <2>4. subs' = [subs EXCEPT ![s] = m]
    BY <1>1, <1>2, <1>6, <2>1 DEF PeerReads
  <2>5. QED
    BY <1>2, <2>3, <2>4, SameWireHolds, OneWire
<1>7. CASE PeerGone(s)
  <2>1. PICK m : m = [r EXCEPT !.peer = FALSE]
    OBVIOUS
  <2>2. /\ m.phase = r.phase /\ m.out = r.out /\ m.sent = r.sent /\ ~m.peer
        /\ m.lag = r.lag /\ m.buf = r.buf
    BY <1>2, <2>1 DEF SubscriberType
  <2>3. AckInv(m) /\ LagInv(m)
    BY <1>2, <2>2 DEF AckInv, LagInv, Counted
  <2>4. subs' = [subs EXCEPT ![s] = m]
    BY <1>1, <1>2, <1>7, <2>1 DEF PeerGone
  <2>5. QED
    BY <2>3, <2>4, OneWire DEF WireInv
<1>8. QED
  BY <1>4, <1>5, <1>6, <1>7

(* One row to everyone, a heartbeat, and the end of the daemon.            *)
LEMMA EveryoneWire ==
  ASSUME IInv, WInv, FanOutRow \/ Heartbeat \/ Stop \/ Shutdown \/ Crash
  PROVE  WInv'
<1>1. cursor + 1 \in Nat \ {0}
  BY Parts
<1>2. \A t \in Sub : WireInv(subs[t]) /\ Sized(subs[t])
  BY WireParts
<1>3. \A t \in Sub : WireInv(FanOutTo(subs[t], cursor + 1)) /\ WireInv(HeartbeatTo(subs[t]))
  BY <1>1, <1>2, FanOutWire, HeartbeatWire
<1>4. \A t \in Sub : subs[t].phase \in Registered \cup {"hello"} =>
                       WireInv(CloseSubscriber(subs[t], FALSE))
  BY <1>2, CloseWire DEF WireInv, AckInv, Registered
<1>5. \A t \in Sub : \/ subs'[t] = subs[t]
                     \/ subs'[t] = FanOutTo(subs[t], cursor + 1)
                     \/ subs'[t] = HeartbeatTo(subs[t])
                     \/ /\ subs[t].phase \in Registered \cup {"hello"}
                        /\ subs'[t] = CloseSubscriber(subs[t], FALSE)
  BY DEF FanOutRow, Heartbeat, Stop, Shutdown, Crash, ClosedAll
<1>6. QED
  BY <1>2, <1>3, <1>4, <1>5 DEF WInv

-----------------------------------------------------------------------------
(* Every step keeps the wire invariant, and what follows from it.          *)

LEMMA NextWire == ASSUME IInv, WInv, [Next]_vars PROVE WInv'
<1>1. CASE UNCHANGED subs
  BY <1>1 DEF WInv
<1>2. ASSUME NEW s \in Sub, SubscribeStep(s) PROVE WInv'
  BY <1>2, AcceptWire, RegisterWire, SendAckWire, TaskWire, ReplayWire, FlushWire
     DEF SubscribeStep
<1>3. ASSUME NEW s \in Sub, Drain(s) \/ PeerReads(s) PROVE WInv'
  BY <1>3, PeerWire
<1>4. ASSUME NEW s \in Sub, SubscriberFault(s) PROVE WInv'
  BY <1>4, RefuseWire, RegisterWire, PeerWire DEF SubscriberFault
<1>5. CASE FanOutRow \/ Heartbeat \/ Stop \/ Shutdown \/ Crash
  BY <1>5, EveryoneWire
<1>6. CASE \/ \E p \in Producer : ProducerStep(p) \/ RingLost(p)
           \/ AcceptRing \/ Wake \/ Select \/ Boot \/ Open
           \/ AcceptRingTimeout \/ SelectFails \/ UNCHANGED vars
  <2>1. subs' = subs
    BY <1>6 DEF ProducerStep, Commit, Ring, RingLost, AcceptRing, Wake, Select, Boot, Open,
                AcceptRingTimeout, SelectFails, tableVars, bellVars, loopVars, vars
  <2>2. QED
    BY <1>1, <2>1
<1>7. QED
  BY <1>2, <1>3, <1>4, <1>5, <1>6 DEF Next, NormalNext, FaultNext, DaemonStep

LEMMA WireInvariance == Spec => [](IInv /\ WInv)
<1>1. Init => IInv /\ WInv
  BY InitHolds, WireInit
<1>2. (IInv /\ WInv) /\ [Next]_vars => (IInv /\ WInv)'
  BY NextHolds, NextWire
<1>3. QED
  BY <1>1, <1>2, PTL DEF Spec

(* Whatever overlaps the ack (a pass, a heartbeat, a failed or torn down   *)
(* connection): a row's frame never precedes the one subscribe_ack, and a  *)
(* subscribe_rejected is the last frame of a closed connection and follows *)
(* only frames that were sent.                                             *)
THEOREM AckComesFirst == Spec => []EventsFollowAck
<1>1. IInv /\ WInv => EventsFollowAck
  BY DEF WInv, WireInv, AckInv, FollowsAck, Clean, EventsFollowAck
<1>2. QED
  BY WireInvariance, <1>1, PTL

(* The backlog of a subscriber stays within the lag counter and the caps   *)
(* of the queue and of the pre-ack buffer (Subscriber.enqueue, _fan_out).  *)
THEOREM BacklogIsBounded == Spec => []BoundedBacklog
<1>1. IInv /\ WInv => BoundedBacklog
  <2> SUFFICES ASSUME IInv, WInv, NEW s \in Sub
               PROVE  /\ Len(subs[s].out) - subs[s].sent <= subs[s].lag
                      /\ subs[s].lag >= LAG_LIMIT =>
                           subs[s].lag = LAG_LIMIT /\ ~subs[s].peer /\ ~Queued(subs[s])
                      /\ Len(subs[s].buf) <= PRE_ACK_BUFFER_FRAMES
    BY DEF BoundedBacklog
  <2>1. LagInv(subs[s]) /\ Sized(subs[s])
    BY WireParts DEF WireInv
  <2>2. QED
    BY <2>1, SizedFacts DEF LagInv, Counted, Queued
<1>2. QED
  BY WireInvariance, <1>1, PTL

-----------------------------------------------------------------------------
(* The feed.  It rests on the two invariants before it: IInv says where    *)
(* the base of a subscription lies with respect to the cursor and the      *)
(* watermark, so that a row _fan_out skips is not owed and a row it hands  *)
(* over is; WInv says that a counter below the limit means no frame was    *)
(* refused.                                                                *)

InOut(o, q) == \E i \in DOMAIN o : o[i] = q

(* Owed and ExactFeed for one record, a table and a cursor.                *)
OwedAt(r, q, table, c) ==
  /\ table[q] \in r.want
  /\ q \in (r.lo + 1)..r.pos \/ q \in (r.base + 1)..c

FeedInv(r, table, c) ==
  r.phase \in Registered /\ r.lag < LAG_LIMIT =>
    \A q \in 1..Len(table) : Handed(r, q) <=> OwedAt(r, q, table, c)

(* A daemon that is down or boots has nobody registered.                   *)
DownInv == loop \in {"down", "booting"} => \A s \in Sub : subs[s].phase \notin Registered

FInv == DownInv /\ \A s \in Sub : FeedInv(subs[s], log, cursor)

AllInv == IInv /\ WInv /\ FInv

-----------------------------------------------------------------------------
(* Frames handed over.                                                     *)

LEMMA HandedParts ==
  ASSUME NEW r, NEW q PROVE Handed(r, q) <=> InOut(r.out, q) \/ InOut(r.buf, q)
  BY DEF Handed, InOut

LEMMA FrameAppended ==
  ASSUME NEW o \in Seq(Frame), NEW f \in Frame
  PROVE  \A q : InOut(Append(o, f), q) <=> InOut(o, q) \/ f = q
<1> DEFINE n == Len(o)
           w == Append(o, f)
<1> HIDE DEF n, w
<1>2. /\ n \in Nat /\ DOMAIN o = 1..n /\ DOMAIN w = 1..(n + 1)
      /\ w[n + 1] = f /\ \A i \in 1..n : w[i] = o[i]
  BY AppendFacts DEF n, w
<1>3. SUFFICES ASSUME NEW q PROVE InOut(w, q) <=> InOut(o, q) \/ f = q
  BY DEF w
<1>4. InOut(w, q) => InOut(o, q) \/ f = q
  BY <1>2 DEF InOut
<1>5. InOut(o, q) => InOut(w, q)
  BY <1>2 DEF InOut
<1>6. f = q => InOut(w, q)
  <2>1. n + 1 \in DOMAIN w
    BY <1>2
  <2>2. QED
    BY <1>2, <2>1 DEF InOut
<1>7. QED
  BY <1>4, <1>5, <1>6

LEMMA RowAppended ==
  ASSUME NEW o \in Seq(Nat \ {0}), NEW f \in Nat \ {0}
  PROVE  \A q : InOut(Append(o, f), q) <=> InOut(o, q) \/ f = q
<1> DEFINE n == Len(o)
           w == Append(o, f)
<1> HIDE DEF n, w
<1>2. /\ n \in Nat /\ DOMAIN o = 1..n /\ DOMAIN w = 1..(n + 1)
      /\ w[n + 1] = f /\ \A i \in 1..n : w[i] = o[i]
  BY AppendRowFacts DEF n, w
<1>3. SUFFICES ASSUME NEW q PROVE InOut(w, q) <=> InOut(o, q) \/ f = q
  BY DEF w
<1>4. InOut(w, q) => InOut(o, q) \/ f = q
  BY <1>2 DEF InOut
<1>5. InOut(o, q) => InOut(w, q)
  BY <1>2 DEF InOut
<1>6. f = q => InOut(w, q)
  <2>1. n + 1 \in DOMAIN w
    BY <1>2
  <2>2. QED
    BY <1>2, <2>1 DEF InOut
<1>7. QED
  BY <1>4, <1>5, <1>6

LEMMA InTail ==
  ASSUME NEW o \in Seq(Nat \ {0}), o # <<>>, NEW q
  PROVE  InOut(o, q) <=> InOut(Tail(o), q) \/ q = Head(o)
<1>1. PICK t : t = Tail(o)
  OBVIOUS
<1>2. /\ Len(o) \in Nat /\ Len(o) >= 1 /\ DOMAIN o = 1..Len(o) /\ DOMAIN t = 1..(Len(o) - 1)
      /\ Head(o) = o[1] /\ \A i \in 1..(Len(o) - 1) : t[i] = o[i + 1]
  BY <1>1
<1>3. ASSUME NEW i \in DOMAIN o, o[i] = q, i # 1 PROVE InOut(t, q)
  <2>1. i - 1 \in DOMAIN t /\ t[i - 1] = o[i]
    BY <1>2, <1>3
  <2>2. QED
    BY <1>3, <2>1 DEF InOut
<1>4. ASSUME NEW i \in DOMAIN t, t[i] = q PROVE InOut(o, q)
  <2>1. i + 1 \in DOMAIN o /\ o[i + 1] = t[i]
    BY <1>2, <1>4
  <2>2. QED
    BY <1>4, <2>1 DEF InOut
<1>5. q = Head(o) => InOut(o, q)
  <2>1. 1 \in DOMAIN o
    BY <1>2
  <2>2. QED
    BY <1>2, <2>1 DEF InOut
<1>6. QED
  BY <1>1, <1>2, <1>3, <1>4, <1>5 DEF InOut

-----------------------------------------------------------------------------
(* The feed of one record.                                                 *)

(* The same subscription as far as what is owed goes.                      *)
SameClaim(m, r) ==
  /\ m.want = r.want /\ m.base = r.base
  /\ m.phase \in Registered => r.phase \in Registered

(* Nothing is handed over and nothing more is owed.                        *)
LEMMA FeedSame ==
  ASSUME NEW r, NEW m, NEW table, NEW c \in Nat, FeedInv(r, table, c),
         r.lo \in Nat, m.lo \in Nat,
         SameClaim(m, r), m.lag < LAG_LIMIT => r.lag < LAG_LIMIT,
         \/ m.lo = r.lo /\ m.pos = r.pos
         \/ m.lo = m.pos /\ r.lo = r.pos,
         \A q \in Nat \ {0} : Handed(m, q) <=> Handed(r, q)
  PROVE  FeedInv(m, table, c)
<1> SUFFICES ASSUME m.phase \in Registered, m.lag < LAG_LIMIT, NEW q \in 1..Len(table)
             PROVE  Handed(m, q) <=> OwedAt(m, q, table, c)
  BY DEF FeedInv
<1>1. q \in Nat \ {0}
  OBVIOUS
<1>2. Handed(r, q) <=> OwedAt(r, q, table, c)
  BY DEF FeedInv, SameClaim
<1>3. q \in (m.lo + 1)..m.pos <=> q \in (r.lo + 1)..r.pos
  BY <1>1
<1>4. QED
  BY <1>1, <1>2, <1>3 DEF OwedAt, SameClaim

(* One row is handed over and is what the subscriber is owed in addition.  *)
LEMMA FeedOne ==
  ASSUME NEW r, NEW m, NEW table, NEW c \in Nat, NEW d \in Nat, FeedInv(r, table, c),
         SameClaim(m, r), r.lag < LAG_LIMIT, NEW q \in Nat,
         \A x \in 1..Len(table) : Handed(m, x) <=> Handed(r, x) \/ x = q,
         \A x \in 1..Len(table) : OwedAt(m, x, table, d) <=> OwedAt(r, x, table, c) \/ x = q
  PROVE  FeedInv(m, table, d)
  BY DEF FeedInv, SameClaim

(* A frame handed over and not evicted: the counter was and is below the   *)
(* limit, and the frame is the next one of the connection.                 *)
LEMMA HandedOver ==
  ASSUME NEW r, Sized(r), WireInv(r), r.phase \in Registered, NEW f \in Frame,
         NEW m, m = EvictIfLagging(Enqueue(r, f)), m.phase # "closed"
  PROVE  /\ r.lag < LAG_LIMIT /\ m.lag < LAG_LIMIT
         /\ m.out = Append(r.out, f) /\ m.buf = r.buf /\ m.phase = r.phase
         /\ m.want = r.want /\ m.base = r.base /\ m.lo = r.lo /\ m.pos = r.pos
<1>1. r.lag \in Nat /\ r.sent \in Nat /\ Len(r.out) \in Nat /\ r \in SubscriberType
      /\ LAG_LIMIT \in Nat \ {0}
  BY SizedFacts, LimitsAssumption DEF Sized
<1>2. PICK e : e = Enqueue(r, f)
  OBVIOUS
<1>3. e \in SubscriberType /\ SameSubscription(e, r)
  BY <1>1, <1>2, EnqueueFacts
<1>4. e.lag < LAG_LIMIT /\ m = e
  <2>1. CASE e.lag >= LAG_LIMIT
    <3>1. m = CloseSubscriber(e, TRUE)
      BY <1>2, <2>1 DEF EvictIfLagging
    <3>2. m.phase = "closed"
      BY <3>1 DEF CloseSubscriber, Unused
    <3>3. QED
      BY <3>2
  <2>2. CASE ~(e.lag >= LAG_LIMIT)
    <3>1. e.lag \in Nat
      BY <1>3 DEF SubscriberType
    <3>2. EvictIfLagging(e) = e
      BY <2>2 DEF EvictIfLagging
    <3>3. e.lag < LAG_LIMIT
      BY <1>1, <2>2, <3>1
    <3>4. QED
      BY <1>2, <3>2, <3>3
  <2>3. QED
    BY <2>1, <2>2
<1>5. r.lag >= LAG_LIMIT => ~r.peer /\ r.sent = Len(r.out)
  BY DEF WireInv, LagInv
<1>6. r.lag < LAG_LIMIT /\ e.out = Append(r.out, f)
  <2>1. CASE Queued(r)
    <3>1. e.lag = r.lag + 1 /\ e.out = Append(r.out, f)
      BY <1>1, <1>2, <2>1 DEF Enqueue, SubscriberType
    <3>2. QED
      BY <1>1, <1>4, <3>1
  <2>2. CASE ~Queued(r) /\ ~r.peer
    <3>1. e.lag = LAG_LIMIT
      BY <1>1, <1>2, <2>2 DEF Enqueue, SubscriberType
    <3>2. QED
      BY <1>1, <1>4, <3>1
  <2>3. CASE ~Queued(r) /\ r.peer
    <3>1. e.out = Append(r.out, f)
      BY <1>1, <1>2, <2>3 DEF Enqueue, SubscriberType
    <3>2. QED
      BY <1>1, <1>5, <2>3, <3>1
  <2>4. QED
    BY <2>1, <2>2, <2>3
<1>7. QED
  BY <1>3, <1>4, <1>6 DEF SameSubscription

LEMMA ClosedFeed ==
  ASSUME NEW m, m.phase \notin Registered, NEW table, NEW c PROVE FeedInv(m, table, c)
  BY DEF FeedInv

LEMMA CloseLeaves == ASSUME NEW r, NEW b PROVE CloseSubscriber(r, b).phase \notin Registered
<1>1. CloseSubscriber(r, b).phase = "closed"
  BY DEF CloseSubscriber, Unused
<1>2. QED
  BY <1>1 DEF Registered

(* What the lemmas below know of a record.                                 *)
Known(r, table, c) ==
  Sized(r) /\ WireInv(r) /\ RecInv(r, c, Len(table)) /\ FeedInv(r, table, c)

LEMMA KnownFacts ==
  ASSUME NEW r, NEW table, NEW c \in Nat, Known(r, table, c)
  PROVE  /\ r \in SubscriberType /\ r.out \in Seq(Frame) /\ r.buf \in Seq(Nat \ {0})
         /\ r.lo \in Nat /\ r.pos \in Nat /\ r.end \in Nat /\ r.base \in Nat
         /\ r.wm \in Nat /\ r.lag \in Nat /\ r.phase \in Phase
  BY DEF Known, Sized, SubscriberType

(* _fan_out hands the row after the cursor to those it is owed to.         *)
LEMMA FanOutFeed ==
  ASSUME NEW c \in Nat, NEW r, Known(r, log, c), log \in Seq(Event), c < Len(log),
         NEW q \in Nat \ {0}, q = c + 1
  PROVE  FeedInv(FanOutTo(r, q), log, q)
<1>1. /\ r \in SubscriberType /\ r.out \in Seq(Frame) /\ r.buf \in Seq(Nat \ {0})
      /\ r.lo \in Nat /\ r.pos \in Nat /\ r.end \in Nat /\ r.base \in Nat
      /\ r.wm \in Nat /\ r.lag \in Nat
      /\ Sized(r) /\ WireInv(r) /\ RecInv(r, c, Len(log)) /\ FeedInv(r, log, c)
  BY KnownFacts DEF Known
<1>2. Len(log) \in Nat /\ q \in 1..Len(log) /\ q \in Frame
  BY DEF Frame
<1>3. CASE r.phase \notin Registered
  BY <1>3, ClosedFeed DEF FanOutTo
<1>4. CASE r.phase \in Registered /\ q <= r.wm
  <2>1. r.base >= q
    BY <1>1, <1>4 DEF RecInv, WindowInv
  <2>2. \A x \in 1..Len(log) : OwedAt(r, x, log, q) <=> OwedAt(r, x, log, c)
    BY <1>1, <1>2, <2>1 DEF OwedAt
  <2>3. FeedInv(r, log, q)
    BY <1>1, <2>2 DEF FeedInv
  <2>4. QED
    BY <1>4, <2>3 DEF FanOutTo
<1>5. CASE r.phase \in Registered /\ log[q] \notin r.want
  <2>1. \A x \in 1..Len(log) : OwedAt(r, x, log, q) <=> OwedAt(r, x, log, c)
    BY <1>1, <1>2, <1>5 DEF OwedAt
  <2>2. FeedInv(r, log, q)
    BY <1>1, <2>1 DEF FeedInv
  <2>3. QED
    BY <1>5, <2>2 DEF FanOutTo
<1>6. CASE r.phase \in Registered /\ log[q] \in r.want /\ ~(q <= r.wm)
  <2>1. r.base <= c
    BY <1>1, <1>6, NextRowIsNew
  <2>2. \A x \in 1..Len(log) : OwedAt(r, x, log, q) <=> OwedAt(r, x, log, c) \/ x = q
    BY <1>1, <1>2, <1>6, <2>1 DEF OwedAt
  <2>3. CASE r.phase \in PreAck /\ Len(r.buf) >= PRE_ACK_BUFFER_FRAMES
    <3>1. FanOutTo(r, q) = CloseSubscriber(r, TRUE)
      BY <1>6, <2>3 DEF FanOutTo
    <3>2. QED
      BY <3>1, CloseLeaves, ClosedFeed
  <2>4. CASE r.phase \in PreAck /\ ~(Len(r.buf) >= PRE_ACK_BUFFER_FRAMES)
    <3>1. PICK b : b = Append(r.buf, q)
      OBVIOUS
    <3>2. b \in Seq(Nat \ {0}) /\ \A x : InOut(b, x) <=> InOut(r.buf, x) \/ q = x
      <4>1. b \in Seq(Nat \ {0})
        BY <1>1, <3>1
      <4>2. \A x : InOut(Append(r.buf, q), x) <=> InOut(r.buf, x) \/ q = x
        BY <1>1, RowAppended
      <4>3. QED
        BY <3>1, <4>1, <4>2
    <3>3. PICK m : m = Rebuffer(r, b)
      OBVIOUS
    <3>4. /\ m.phase = r.phase /\ m.out = r.out /\ m.buf = b /\ m.lag = r.lag
          /\ m.want = r.want /\ m.base = r.base /\ m.lo = r.lo /\ m.pos = r.pos
      BY <1>1, <3>2, <3>3 DEF Rebuffer, SubscriberType
    <3>5. \A x : Handed(m, x) <=> Handed(r, x) \/ x = q
      BY <3>2, <3>4, HandedParts
    <3>6. \A x \in 1..Len(log) : OwedAt(m, x, log, q) <=> OwedAt(r, x, log, c) \/ x = q
      BY <2>2, <3>4 DEF OwedAt
    <3>7. FeedInv(m, log, q)
      <4>1. CASE r.lag < LAG_LIMIT
        BY <1>1, <3>4, <3>5, <3>6, <4>1, FeedOne DEF SameClaim
      <4>2. CASE ~(r.lag < LAG_LIMIT)
        BY <3>4, <4>2 DEF FeedInv
      <4>3. QED
        BY <4>1, <4>2
    <3>8. FanOutTo(r, q) = m
      BY <1>6, <2>4, <3>1, <3>3 DEF FanOutTo, Rebuffer
    <3>9. QED
      BY <3>7, <3>8
  <2>5. CASE r.phase \notin PreAck
    <3>1. PICK n : n = [r EXCEPT !.wm = 0]
      OBVIOUS
    <3>2. /\ n \in SubscriberType /\ n.peer = r.peer /\ n.sent = r.sent
          /\ n.phase = r.phase /\ n.out = r.out /\ n.buf = r.buf /\ n.lag = r.lag
          /\ n.want = r.want /\ n.base = r.base /\ n.lo = r.lo /\ n.pos = r.pos
      BY <1>1, <3>1 DEF SubscriberType
    <3>3. Sized(n)
      BY <1>1, <3>2 DEF Sized
    <3>4. WireInv(n)
      BY <1>1, <3>2, SameWireHolds DEF SameWire, WireInv, LagInv, Counted
    <3>5. PICK m : m = EvictIfLagging(Enqueue(n, q))
      OBVIOUS
    <3>6. FanOutTo(r, q) = m
      BY <1>6, <2>5, <3>1, <3>5 DEF FanOutTo
    <3>7. CASE m.phase = "closed"
      BY <3>6, <3>7, ClosedFeed DEF Registered
    <3>8. CASE m.phase # "closed"
      <4>1. /\ n.lag < LAG_LIMIT /\ m.lag < LAG_LIMIT
            /\ m.out = Append(n.out, q) /\ m.buf = n.buf /\ m.phase = n.phase
            /\ m.want = n.want /\ m.base = n.base /\ m.lo = n.lo /\ m.pos = n.pos
        BY <1>2, <1>6, <3>2, <3>3, <3>4, <3>5, <3>8, HandedOver
      <4>2. \A x : InOut(m.out, x) <=> InOut(r.out, x) \/ q = x
        <5>1. \A x : InOut(Append(r.out, q), x) <=> InOut(r.out, x) \/ q = x
          BY <1>1, <1>2, FrameAppended
        <5>2. QED
          BY <3>2, <4>1, <5>1
      <4>3. \A x : Handed(m, x) <=> Handed(r, x) \/ x = q
        BY <3>2, <4>1, <4>2, HandedParts
      <4>4. \A x \in 1..Len(log) : OwedAt(m, x, log, q) <=> OwedAt(r, x, log, c) \/ x = q
        BY <2>2, <3>2, <4>1 DEF OwedAt
      <4>5. FeedInv(m, log, q)
        BY <1>1, <3>2, <4>1, <4>3, <4>4, FeedOne DEF SameClaim
      <4>6. QED
        BY <3>6, <4>5
    <3>9. QED
      BY <3>7, <3>8
  <2>6. QED
    BY <2>3, <2>4, <2>5
<1>7. QED
  BY <1>3, <1>4, <1>5, <1>6

(* A replayed row is owed from the moment the replay has passed it.        *)
LEMMA ReplayFeed ==
  ASSUME NEW c \in Nat, NEW r, Known(r, log, c), log \in Seq(Event),
         r.phase = "replay", r.pos < r.end, NEW q \in Nat \ {0}, q = r.pos + 1,
         NEW n, n = Advance(r, q),
         NEW m, m = IF log[q] \in r.want THEN EvictIfLagging(Enqueue(n, q)) ELSE n
  PROVE  FeedInv(m, log, c)
<1>1. /\ r \in SubscriberType /\ r.out \in Seq(Frame) /\ r.buf \in Seq(Nat \ {0})
      /\ r.lo \in Nat /\ r.pos \in Nat /\ r.end \in Nat /\ r.base \in Nat /\ r.lag \in Nat
      /\ Sized(r) /\ WireInv(r) /\ RecInv(r, c, Len(log)) /\ FeedInv(r, log, c)
  BY KnownFacts DEF Known
<1>2. /\ n \in SubscriberType /\ n.peer = r.peer /\ n.sent = r.sent
      /\ n.phase = r.phase /\ n.out = r.out /\ n.buf = r.buf /\ n.lag = r.lag
      /\ n.want = r.want /\ n.base = r.base /\ n.lo = r.lo /\ n.pos = q
  BY <1>1 DEF Advance, SubscriberType
<1>3. r.phase \in Registered /\ q \in Frame /\ q > 0 /\ n.phase \in Begun
  BY <1>2 DEF Registered, Frame, Begun
<1>4. r.lo <= r.pos /\ q <= Len(log) /\ Len(log) \in Nat
  BY <1>1, <1>3 DEF RecInv, WindowInv
<1>5. \A x \in 1..Len(log) :
        x \in (r.lo + 1)..q <=> x \in (r.lo + 1)..r.pos \/ x = q
  BY <1>1, <1>4
<1>6. CASE log[q] \notin r.want
  <2>1. \A x \in 1..Len(log) : OwedAt(n, x, log, c) <=> OwedAt(r, x, log, c)
    BY <1>2, <1>5, <1>6 DEF OwedAt
  <2>2. \A x : Handed(n, x) <=> Handed(r, x)
    BY <1>2 DEF Handed
  <2>3. FeedInv(n, log, c)
    BY <1>1, <1>2, <2>1, <2>2 DEF FeedInv
  <2>4. QED
    BY <1>6, <2>3
<1>7. CASE log[q] \in r.want
  <2>1. m = EvictIfLagging(Enqueue(n, q))
    BY <1>7
  <2>2. CASE m.phase = "closed"
    BY <2>2, ClosedFeed DEF Registered
  <2>3. CASE m.phase # "closed"
    <3>1. Sized(n) /\ WireInv(n)
      BY <1>1, <1>2, SameWireHolds DEF Sized, SameWire, WireInv, LagInv, Counted
    <3>2. /\ n.lag < LAG_LIMIT /\ m.lag < LAG_LIMIT
          /\ m.out = Append(n.out, q) /\ m.buf = n.buf /\ m.phase = n.phase
          /\ m.want = n.want /\ m.base = n.base /\ m.lo = n.lo /\ m.pos = n.pos
      BY <1>2, <1>3, <2>1, <2>3, <3>1, HandedOver
    <3>3. \A x : InOut(Append(r.out, q), x) <=> InOut(r.out, x) \/ q = x
      BY <1>1, <1>3, FrameAppended
    <3>4. \A x : Handed(m, x) <=> Handed(r, x) \/ x = q
      <4>1. \A x : InOut(m.out, x) <=> InOut(r.out, x) \/ q = x
        BY ZenonT(60), <1>2, <3>2, <3>3
      <4>2. QED
        BY <1>2, <3>2, <4>1, HandedParts
    <3>5. \A x \in 1..Len(log) : OwedAt(m, x, log, c) <=> OwedAt(r, x, log, c) \/ x = q
      BY <1>2, <1>5, <1>7, <3>2 DEF OwedAt
    <3>6. SameClaim(m, r) /\ r.lag < LAG_LIMIT
      BY <1>2, <3>2 DEF SameClaim
    <3>7. \A x \in 1..Len(log) : Handed(m, x) <=> Handed(r, x) \/ x = q
      BY <3>4
    <3>8. QED
      BY <1>1, <3>5, <3>6, <3>7 DEF FeedInv, SameClaim
  <2>4. QED
    BY <2>2, <2>3
<1>8. QED
  BY <1>6, <1>7

WithBuffer(r, b) == [r EXCEPT !.buf = b]

(* A row moves from the pre-ack buffer to the connection.                  *)
LEMMA FlushFeed ==
  ASSUME NEW c \in Nat, NEW r, Known(r, log, c), r.phase = "flush", r.buf # <<>>,
         NEW n, n = WithBuffer(r, Tail(r.buf)),
         NEW f, f = Head(r.buf), NEW m, m = EvictIfLagging(Enqueue(n, f))
  PROVE  FeedInv(m, log, c)
<1>1. /\ r \in SubscriberType /\ r.out \in Seq(Frame) /\ r.buf \in Seq(Nat \ {0})
      /\ r.lo \in Nat /\ r.pos \in Nat /\ r.lag \in Nat
      /\ Sized(r) /\ WireInv(r) /\ FeedInv(r, log, c)
  BY KnownFacts DEF Known
<1>2. PICK b : b = Tail(r.buf)
  OBVIOUS
<1>3. r.phase \in Registered
  BY DEF Registered
<1>4. b \in Seq(Nat \ {0}) /\ Len(b) <= Len(r.buf) /\ f \in Nat \ {0} /\ f \in Frame
  BY <1>1, <1>2 DEF Frame
<1>5. \A x : InOut(r.buf, x) <=> InOut(b, x) \/ x = f
  BY <1>1, <1>2, InTail
<1>6. /\ n \in SubscriberType /\ n.peer = r.peer /\ n.sent = r.sent
      /\ n.phase = r.phase /\ n.out = r.out /\ n.buf = b /\ n.lag = r.lag
      /\ n.want = r.want /\ n.base = r.base /\ n.lo = r.lo /\ n.pos = r.pos
  BY <1>1, <1>2, <1>4 DEF WithBuffer, SubscriberType
<1>7. CASE m.phase = "closed"
  BY <1>7, ClosedFeed DEF Registered
<1>8. CASE m.phase # "closed"
  <2>1. Sized(n)
    BY <1>1, <1>6 DEF Sized
  <2>2. WireInv(n)
    <3>1. Len(b) <= PRE_ACK_BUFFER_FRAMES
      <4>1. Len(r.buf) <= PRE_ACK_BUFFER_FRAMES
        BY <1>1 DEF WireInv, LagInv, Counted
      <4>2. Len(b) \in Nat /\ Len(r.buf) \in Nat
        BY <1>1, <1>4
      <4>3. PRE_ACK_BUFFER_FRAMES \in Nat
        BY LimitsAssumption
      <4>4. QED
        BY <1>4, <4>1, <4>2, <4>3
    <3>2. SameWire(n, r)
      BY <1>4, <1>6, <3>1 DEF SameWire
    <3>3. QED
      BY <1>1, <3>2, SameWireHolds
  <2>3. n.phase \in Registered /\ f \in Frame
    BY <1>3, <1>4, <1>6
  <2>4. /\ n.lag < LAG_LIMIT /\ m.lag < LAG_LIMIT
        /\ m.out = Append(n.out, f) /\ m.buf = n.buf /\ m.phase = n.phase
        /\ m.want = n.want /\ m.base = n.base /\ m.lo = n.lo /\ m.pos = n.pos
    BY <1>8, <2>1, <2>2, <2>3, HandedOver
  <2>5. \A x : InOut(Append(r.out, f), x) <=> InOut(r.out, x) \/ f = x
    BY <1>1, <1>4, FrameAppended
  <2>6. \A x : Handed(m, x) <=> Handed(r, x)
    BY <1>5, <1>6, <2>4, <2>5, HandedParts
  <2>7. SameClaim(m, r) /\ m.lo = r.lo /\ m.pos = r.pos /\ r.lag < LAG_LIMIT
    BY <1>6, <2>4 DEF SameClaim
  <2>8. QED
    BY <1>1, <2>6, <2>7, FeedSame
<1>9. QED
  BY <1>7, <1>8

(* A control frame is no row.                                              *)
LEMMA ControlFeed ==
  ASSUME NEW c \in Nat, NEW r, Known(r, log, c), NEW f \in {Beat, Ack},
         NEW m, m.out = Append(r.out, f), m.buf = r.buf, SameClaim(m, r),
         m.lo = r.lo, m.pos = r.pos, m.lag < LAG_LIMIT => r.lag < LAG_LIMIT
  PROVE  FeedInv(m, log, c)
<1>1. r.out \in Seq(Frame) /\ r.lo \in Nat /\ f \in Frame /\ FeedInv(r, log, c)
  BY KnownFacts DEF Frame, Known
<1>2. \A x : InOut(Append(r.out, f), x) <=> InOut(r.out, x) \/ f = x
  BY <1>1, FrameAppended
<1>3. \A x \in Nat \ {0} : f # x
  BY DEF Beat, Ack
<1>4. \A x \in Nat \ {0} : Handed(m, x) <=> Handed(r, x)
  BY <1>2, <1>3, HandedParts
<1>5. QED
  BY <1>1, <1>4, FeedSame

LEMMA HeartbeatFeed ==
  ASSUME NEW c \in Nat, NEW r, Known(r, log, c) PROVE FeedInv(HeartbeatTo(r), log, c)
<1>1. CASE r.phase \notin Registered
  BY <1>1 DEF HeartbeatTo, FeedInv
<1>2. CASE r.phase \in Registered
  <2>1. PICK m : m = EvictIfLagging(Enqueue(r, Beat))
    OBVIOUS
  <2>2. CASE m.phase = "closed"
    BY <1>2, <2>1, <2>2, ClosedFeed DEF Registered, HeartbeatTo
  <2>3. CASE m.phase # "closed"
    <3>1. Beat \in Frame /\ Sized(r) /\ WireInv(r)
      BY DEF Frame, Known
    <3>2. /\ r.lag < LAG_LIMIT /\ m.lag < LAG_LIMIT
          /\ m.out = Append(r.out, Beat) /\ m.buf = r.buf /\ m.phase = r.phase
          /\ m.want = r.want /\ m.base = r.base /\ m.lo = r.lo /\ m.pos = r.pos
      BY <1>2, <2>1, <2>3, <3>1, HandedOver
    <3>3. FeedInv(m, log, c)
      BY <3>2, ControlFeed DEF SameClaim
    <3>4. QED
      BY <1>2, <2>1, <3>3 DEF HeartbeatTo
  <2>4. QED
    BY <2>2, <2>3
<1>3. QED
  BY <1>1, <1>2

-----------------------------------------------------------------------------
(* Steps of the specification.                                             *)

LEMMA FeedParts ==
  ASSUME AllInv
  PROVE  /\ cursor \in Nat /\ log \in Seq(Event) /\ Len(log) \in Nat /\ cursor <= Len(log)
         /\ \A s \in Sub : Known(subs[s], log, cursor)
         /\ subs \in [Sub -> SubscriberType]
  BY Parts, WireParts DEF AllInv, FInv, Known, IInv, TypeOK

LEMMA OneFeed ==
  ASSUME AllInv, NEW s \in Sub, NEW m, FeedInv(m, log, cursor), subs' = [subs EXCEPT ![s] = m],
         log' = log, cursor' = cursor,
         \/ loop' \notin {"down", "booting"}
         \/ loop' = loop /\ (m.phase \in Registered => subs[s].phase \in Registered)
  PROVE  FInv'
<1>1. \A t \in Sub : subs'[t] = IF t = s THEN m ELSE subs[t]
  BY FeedParts
<1>2. DownInv'
  BY <1>1 DEF AllInv, FInv, DownInv
<1>3. \A t \in Sub : FeedInv(subs'[t], log', cursor')
  BY <1>1 DEF AllInv, FInv
<1>4. QED
  BY <1>2, <1>3 DEF FInv

LEMMA FeedInit == Init => FInv
  BY DEF Init, FInv, DownInv, FeedInv, Unused, Registered

(* A connection that is not registered afterwards.                         *)
LEMMA UnregisteredFeed ==
  ASSUME AllInv, NEW s \in Sub,
         Accept(s) \/ HelloFails(s) \/ RejectVersion(s) \/ AckFails(s) \/ ReplayFails(s)
  PROVE  FInv'
<1>1. PICK m : subs' = [subs EXCEPT ![s] = m] /\ m.phase \notin Registered
  <2>1. CASE Accept(s)
    <3>1. PICK m : m = [Unused EXCEPT !.phase = "hello", !.peer = TRUE]
      OBVIOUS
    <3>2. m.phase = "hello"
      BY <3>1 DEF Unused
    <3>3. QED
      BY <2>1, <3>1, <3>2 DEF Accept, Registered
  <2>2. CASE HelloFails(s) \/ RejectVersion(s) \/ AckFails(s) \/ ReplayFails(s)
    <3>1. PICK b : subs' = [subs EXCEPT ![s] = CloseSubscriber(subs[s], b)]
      BY <2>2 DEF HelloFails, RejectVersion, AckFails, ReplayFails
    <3>2. QED
      BY <3>1, CloseLeaves
  <2>3. QED
    BY <2>1, <2>2
<1>2. log' = log /\ cursor' = cursor /\ loop' = loop
  BY DEF Accept, HelloFails, RejectVersion, AckFails, ReplayFails, tableVars, loopVars
<1>3. QED
  BY <1>1, <1>2, ClosedFeed, OneFeed

(* A registration owes nothing yet: the base is at or past the cursor.     *)
LEMMA RegisterFeed ==
  ASSUME AllInv, NEW s \in Sub, NEW want, NEW since,
         Subscribe(s, want, since) \/ SnapshotFails(s, want)
  PROVE  FInv'
<1>1. PICK r : r = subs[s]
  OBVIOUS
<1>2. /\ r \in SubscriberType /\ r.phase = "hello" /\ RecInv(r, cursor, Len(log))
      /\ cursor \in Nat /\ Len(log) \in Nat /\ cursor <= Len(log)
  BY <1>1, FeedParts, KnownFacts DEF Known, Subscribe, SnapshotFails
<1>3. r.out = <<>> /\ r.buf = <<>> /\ r.lo = 0 /\ r.pos = 0
  BY <1>2 DEF RecInv, RangeInv, PreAck
<1>4. PICK m : /\ subs' = [subs EXCEPT ![s] = m] /\ m.out = <<>> /\ m.buf = <<>>
               /\ m.lo = 0 /\ m.pos = 0 /\ m.base \in Nat /\ cursor <= m.base
  <2>1. CASE Subscribe(s, want, since)
    <3>1. PICK a : a = IF since = NoSince THEN 0 ELSE Len(log)
      OBVIOUS
    <3>2. PICK b : b = IF since = NoSince THEN cursor ELSE Len(log)
      OBVIOUS
    <3>3. PICK m : m = Enrolled(r, "acking", want, since, a, b)
      OBVIOUS
    <3>4. /\ m.out = r.out /\ m.buf = r.buf /\ m.lo = r.lo /\ m.pos = r.pos /\ m.base = b
      BY <1>2, <3>3 DEF Enrolled, SubscriberType
    <3>5. subs' = [subs EXCEPT ![s] = m]
      BY <1>1, <2>1, <3>1, <3>2, <3>3 DEF Subscribe, Enrolled
    <3>6. b \in Nat /\ cursor <= b
      BY <1>2, <3>2
    <3>7. QED
      BY <1>3, <3>4, <3>5, <3>6
  <2>2. CASE SnapshotFails(s, want)
    <3>1. PICK m : m = Orphaned(r, want, cursor)
      OBVIOUS
    <3>2. /\ m.out = r.out /\ m.buf = r.buf /\ m.lo = r.lo /\ m.pos = r.pos /\ m.base = cursor
      BY <1>2, <3>1 DEF Orphaned, SubscriberType
    <3>3. subs' = [subs EXCEPT ![s] = m]
      BY <1>1, <2>2, <3>1 DEF SnapshotFails, Orphaned
    <3>4. m.base \in Nat /\ cursor <= m.base
      BY <1>2, <3>2
    <3>5. QED
      BY <1>3, <3>2, <3>3, <3>4
  <2>3. QED
    BY <2>1, <2>2
<1>5. FeedInv(m, log, cursor)
  <2>1. \A q : ~Handed(m, q)
    BY <1>4 DEF Handed
  <2>2. \A q \in 1..Len(log) : ~OwedAt(m, q, log, cursor)
    BY <1>2, <1>4 DEF OwedAt
  <2>3. QED
    BY <2>1, <2>2 DEF FeedInv
<1>6. log' = log /\ cursor' = cursor /\ loop' = "idle"
  BY DEF Subscribe, SnapshotFails, tableVars, loopVars, AtIdle
<1>7. QED
  BY <1>4, <1>5, <1>6, OneFeed

LEMMA SendAckFeed == ASSUME AllInv, NEW s \in Sub, SendAck(s) PROVE FInv'
<1>1. PICK r : r = subs[s]
  OBVIOUS
<1>2. Known(r, log, cursor) /\ r \in SubscriberType /\ cursor \in Nat /\ r.phase = "acking"
  BY <1>1, FeedParts, KnownFacts DEF SendAck
<1>3. PICK m : m = Acked(r)
  OBVIOUS
<1>4. /\ m.out = Append(r.out, Ack) /\ m.buf = r.buf /\ m.lag = r.lag
      /\ m.want = r.want /\ m.base = r.base /\ m.lo = r.lo /\ m.pos = r.pos
  BY <1>2, <1>3 DEF Acked, SubscriberType
<1>5. FeedInv(m, log, cursor)
  BY <1>2, <1>4, ControlFeed DEF SameClaim, Registered
<1>6. /\ subs' = [subs EXCEPT ![s] = m]
      /\ log' = log /\ cursor' = cursor /\ loop' = "idle"
  BY <1>1, <1>3 DEF SendAck, Acked, tableVars, loopVars, AtIdle
<1>7. QED
  BY <1>5, <1>6, OneFeed

(* The subscribe task.                                                     *)
LEMMA TaskFeed ==
  ASSUME AllInv, NEW s \in Sub, ResumeTask(s) \/ ReplayDone(s) \/ FlushDone(s)
  PROVE  FInv'
<1>1. PICK r : r = subs[s]
  OBVIOUS
<1>2. /\ Known(r, log, cursor) /\ r \in SubscriberType /\ cursor \in Nat /\ log \in Seq(Event)
      /\ FeedInv(r, log, cursor) /\ r.lo \in Nat /\ RecInv(r, cursor, Len(log))
      /\ subs \in [Sub -> SubscriberType]
  BY <1>1, FeedParts, KnownFacts DEF Known
<1>3. r.phase \in Registered
  BY <1>1 DEF ResumeTask, ReplayDone, FlushDone, Registered
<1>4. PICK m : /\ subs' = [subs EXCEPT ![s] = m]
               /\ m.out = r.out /\ m.buf = r.buf /\ m.lag = r.lag /\ m.want = r.want
               /\ m.base = r.base /\ m.lo \in Nat
               /\ (m.lo = r.lo /\ m.pos = r.pos) \/ (m.lo = m.pos /\ r.lo = r.pos)
  <2>1. CASE ResumeTask(s) /\ r.since # NoSince
    <3>1. PICK a : a = SinceSeq(r)
      OBVIOUS
    <3>2. PICK z : z = Min2(r.base, a + REPLAY_LIMIT)
      OBVIOUS
    <3>3. PICK m : m = [r EXCEPT !.phase = "replay", !.lo = a, !.pos = a, !.end = z]
      OBVIOUS
    <3>4. a \in Nat
      <4>1. Len(log) \in Nat
        BY <1>2
      <4>2. QED
        BY <3>1, <4>1 DEF SinceSeq
    <3>5. /\ m.out = r.out /\ m.buf = r.buf /\ m.lag = r.lag /\ m.want = r.want
          /\ m.base = r.base /\ m.lo = a /\ m.pos = a
      BY <1>2, <3>3 DEF SubscriberType
    <3>6. r.phase = "acked"
      BY <1>1, <2>1 DEF ResumeTask
    <3>7. r.lo = 0 /\ r.pos = 0
      BY <1>2, <3>6 DEF RecInv, RangeInv, PreAck
    <3>8. subs' = [subs EXCEPT ![s] = m]
      BY <1>1, <2>1, <3>1, <3>2, <3>3 DEF ResumeTask
    <3>9. QED
      BY <3>4, <3>5, <3>7, <3>8
  <2>2. CASE (ResumeTask(s) /\ r.since = NoSince) \/ ReplayDone(s) \/ FlushDone(s)
    <3>1. PICK p : subs' = [subs EXCEPT ![s] = InPhase(r, p)]
      <4>1. CASE ReplayDone(s) \/ FlushDone(s)
        BY <1>1, <1>2, <4>1 DEF ReplayDone, FlushDone, InPhase
      <4>2. CASE ResumeTask(s) /\ r.since = NoSince
        BY <1>1, <4>2 DEF ResumeTask, InPhase
      <4>3. QED
        BY <2>2, <4>1, <4>2
    <3>2. PICK m : m = InPhase(r, p)
      OBVIOUS
    <3>3. /\ m.out = r.out /\ m.buf = r.buf /\ m.lag = r.lag /\ m.want = r.want
          /\ m.base = r.base /\ m.lo = r.lo /\ m.pos = r.pos
      BY <1>2, <3>2 DEF InPhase, SubscriberType
    <3>4. QED
      BY <1>2, <3>1, <3>2, <3>3
  <2>3. QED
    BY <2>1, <2>2
<1>5. \A q : Handed(m, q) <=> Handed(r, q)
  BY <1>4 DEF Handed
<1>6. FeedInv(m, log, cursor)
  BY <1>2, <1>3, <1>4, <1>5, FeedSame DEF SameClaim
<1>7. log' = log /\ cursor' = cursor /\ loop' \in {"task", "idle"}
  BY DEF ResumeTask, ReplayDone, FlushDone, tableVars, loopVars
<1>8. QED
  BY <1>4, <1>6, <1>7, OneFeed

LEMMA RowFeed == ASSUME AllInv, NEW s \in Sub, ReplayRow(s) \/ FlushRow(s) PROVE FInv'
<1>1. PICK r : r = subs[s]
  OBVIOUS
<1>2. /\ Known(r, log, cursor) /\ r \in SubscriberType /\ cursor \in Nat /\ log \in Seq(Event)
  BY <1>1, FeedParts, KnownFacts
<1>3. CASE ReplayRow(s)
  <2>1. PICK q \in Nat \ {0} : q = r.pos + 1
    BY <1>2 DEF SubscriberType
  <2>2. PICK n : n = Advance(r, q)
    OBVIOUS
  <2>3. PICK m : m = IF log[q] \in r.want THEN EvictIfLagging(Enqueue(n, q)) ELSE n
    OBVIOUS
  <2>4. r.phase = "replay" /\ r.pos < r.end
    BY <1>1, <1>3 DEF ReplayRow
  <2>5. FeedInv(m, log, cursor)
    BY <1>2, <2>1, <2>2, <2>3, <2>4, ReplayFeed
  <2>6. subs' = [subs EXCEPT ![s] = m]
    BY <1>1, <1>3, <2>1, <2>2, <2>3 DEF ReplayRow, Advance
  <2>7. log' = log /\ cursor' = cursor /\ loop' \in {"task", "idle"}
    BY <1>3 DEF ReplayRow, tableVars
  <2>8. QED
    BY <2>5, <2>6, <2>7, OneFeed
<1>4. CASE FlushRow(s)
  <2>1. PICK f : f = Head(r.buf)
    OBVIOUS
  <2>2. PICK n : n = WithBuffer(r, Tail(r.buf))
    OBVIOUS
  <2>3. PICK m : m = EvictIfLagging(Enqueue(n, f))
    OBVIOUS
  <2>4. r.phase = "flush" /\ r.buf # <<>>
    BY <1>1, <1>4 DEF FlushRow
  <2>5. FeedInv(m, log, cursor)
    BY <1>2, <2>1, <2>2, <2>3, <2>4, FlushFeed
  <2>6. subs' = [subs EXCEPT ![s] = m]
    BY <1>1, <1>4, <2>1, <2>2, <2>3 DEF FlushRow, WithBuffer
  <2>7. log' = log /\ cursor' = cursor /\ loop' \in {"task", "idle"}
    BY <1>4 DEF FlushRow, tableVars
  <2>8. QED
    BY <2>5, <2>6, <2>7, OneFeed
<1>5. QED
  BY <1>3, <1>4

(* The writability callback and the peer: a counter that goes down was     *)
(* below the limit, since at the limit the peer is dead.                   *)
LEMMA PeerFeed ==
  ASSUME AllInv, NEW s \in Sub, Drain(s) \/ DrainError(s) \/ PeerReads(s) \/ PeerGone(s)
  PROVE  FInv'
<1>1. PICK r : r = subs[s]
  OBVIOUS
<1>2. /\ Known(r, log, cursor) /\ r \in SubscriberType /\ cursor \in Nat
      /\ r.lo \in Nat /\ r.lag \in Nat /\ LAG_LIMIT \in Nat \ {0}
      /\ FeedInv(r, log, cursor) /\ LagInv(r) /\ subs \in [Sub -> SubscriberType]
  BY <1>1, FeedParts, KnownFacts, LimitsAssumption DEF Known, WireInv
<1>3. log' = log /\ cursor' = cursor /\ loop' = loop
  BY DEF Drain, DrainError, PeerReads, PeerGone, tableVars, loopVars
<1>4. CASE DrainError(s)
  <2>1. PICK w : w = Cut(r)
    OBVIOUS
  <2>2. PICK m : m = Rewire(r, w, r.sent, LAG_LIMIT)
    OBVIOUS
  <2>3. m.lag = LAG_LIMIT /\ m.phase = r.phase
    BY <1>2, <2>2 DEF Rewire, SubscriberType
  <2>4. subs' = [subs EXCEPT ![s] = m]
    BY <1>1, <1>2, <1>4, <2>1, <2>2 DEF DrainError, Rewire, Cut, SubscriberType
  <2>5. FeedInv(m, log, cursor)
    BY <1>2, <2>3 DEF FeedInv
  <2>6. QED
    BY <1>1, <1>3, <2>3, <2>4, <2>5, OneFeed
<1>5. CASE Drain(s) \/ PeerReads(s) \/ PeerGone(s)
  <2>1. PICK m : /\ subs' = [subs EXCEPT ![s] = m]
                 /\ m.phase = r.phase /\ m.out = r.out /\ m.buf = r.buf
                 /\ m.want = r.want /\ m.base = r.base /\ m.lo = r.lo /\ m.pos = r.pos
                 /\ m.lag < LAG_LIMIT => r.lag < LAG_LIMIT
    <3>1. CASE Drain(s)
      <4>1. PICK k : k = Min2(Len(r.out), r.read + SNDBUF)
        OBVIOUS
      <4>2. PICK l : l = IF k = Len(r.out) THEN 0 ELSE r.lag
        OBVIOUS
      <4>3. PICK m : m = Rewire(r, r.out, k, l)
        OBVIOUS
      <4>4. /\ m.phase = r.phase /\ m.out = r.out /\ m.buf = r.buf
            /\ m.want = r.want /\ m.base = r.base /\ m.lo = r.lo /\ m.pos = r.pos
        BY <1>2, <4>3 DEF Rewire, SubscriberType
      <4>5. r.lag < LAG_LIMIT
        BY <1>1, <1>2, <3>1 DEF Drain, LagInv
      <4>6. subs' = [subs EXCEPT ![s] = m]
        BY <1>1, <1>2, <3>1, <4>1, <4>2, <4>3 DEF Drain, Rewire, SubscriberType
      <4>7. QED
        BY <4>4, <4>5, <4>6
    <3>2. CASE PeerReads(s) \/ PeerGone(s)
      <4>1. PICK m : /\ subs' = [subs EXCEPT ![s] = m]
                     /\ m = [r EXCEPT !.read = r.read + 1] \/ m = [r EXCEPT !.peer = FALSE]
        BY <1>1, <1>2, <3>2 DEF PeerReads, PeerGone
      <4>2. /\ m.phase = r.phase /\ m.out = r.out /\ m.buf = r.buf /\ m.lag = r.lag
            /\ m.want = r.want /\ m.base = r.base /\ m.lo = r.lo /\ m.pos = r.pos
        BY <1>2, <4>1 DEF SubscriberType
      <4>3. QED
        BY <4>1, <4>2
    <3>3. QED
      BY <1>5, <3>1, <3>2
  <2>2. \A q : Handed(m, q) <=> Handed(r, q)
    BY <2>1 DEF Handed
  <2>3. FeedInv(m, log, cursor)
    BY <1>2, <2>1, <2>2, FeedSame DEF SameClaim
  <2>4. QED
    BY <1>1, <1>3, <2>1, <2>3, OneFeed
<1>6. QED
  BY <1>4, <1>5

LEMMA FanOutRowFeed == ASSUME AllInv, FanOutRow PROVE FInv'
<1>1. /\ cursor \in Nat /\ log \in Seq(Event) /\ Len(log) \in Nat
      /\ \A t \in Sub : Known(subs[t], log, cursor)
  BY FeedParts
<1>2. cursor < Len(log)
  BY <1>1 DEF AllInv, IInv, LoopInv, FanOutRow, TypeOK
<1>3. PICK q \in Nat \ {0} : q = cursor + 1
  BY <1>1
<1>4. \A t \in Sub : FeedInv(FanOutTo(subs[t], q), log, q)
  BY <1>1, <1>2, <1>3, FanOutFeed
<1>5. /\ log' = log /\ cursor' = q /\ subs' = [t \in Sub |-> FanOutTo(subs[t], q)]
      /\ loop' \notin {"down", "booting"}
  BY <1>3 DEF FanOutRow, tableVars, AfterPass
<1>6. DownInv'
  BY <1>5 DEF DownInv
<1>7. \A t \in Sub : FeedInv(subs'[t], log', cursor')
  BY <1>4, <1>5
<1>8. QED
  BY <1>6, <1>7 DEF FInv

(* A heartbeat, a stop, a shutdown and a crash.                            *)
LEMMA EveryoneFeed == ASSUME AllInv, Heartbeat \/ Stop \/ Shutdown \/ Crash PROVE FInv'
<1>1. \A t \in Sub : /\ FeedInv(subs[t], log, cursor)
                     /\ FeedInv(HeartbeatTo(subs[t]), log, cursor)
                     /\ FeedInv(CloseSubscriber(subs[t], FALSE), log, cursor)
                     /\ CloseSubscriber(subs[t], FALSE).phase \notin Registered
  BY FeedParts, HeartbeatFeed, CloseLeaves, ClosedFeed DEF Known
<1>2. log' = log /\ cursor' = cursor
  BY DEF Heartbeat, Stop, Shutdown, Crash, tableVars, loopVars
<1>3. \A t \in Sub : \/ subs'[t] = subs[t]
                     \/ subs'[t] = HeartbeatTo(subs[t])
                     \/ subs'[t] = CloseSubscriber(subs[t], FALSE)
  BY DEF Heartbeat, Stop, Shutdown, Crash, ClosedAll
<1>4. DownInv'
  <2>1. CASE Heartbeat \/ Stop
    BY <2>1 DEF Heartbeat, Stop, loopVars, AtIdle, DownInv
  <2>2. CASE Shutdown \/ Crash
    <3>1. subs' = ClosedAll
      BY <2>2 DEF Shutdown, Crash
    <3>2. \A t \in Sub : ClosedAll[t].phase \notin Registered
      BY <1>1 DEF ClosedAll
    <3>3. QED
      BY <3>1, <3>2 DEF DownInv
  <2>3. QED
    BY <2>1, <2>2
<1>5. \A t \in Sub : FeedInv(subs'[t], log', cursor')
  BY <1>1, <1>2, <1>3
<1>6. QED
  BY <1>4, <1>5 DEF FInv

(* A longer table owes nobody more before the cursor gets there.           *)
LEMMA CommitFeed == ASSUME AllInv, NEW p, NEW rows \in Batches, Commit(p, rows) PROVE FInv'
<1>1. /\ cursor \in Nat /\ log \in Seq(Event) /\ Len(log) \in Nat /\ cursor <= Len(log)
      /\ \A t \in Sub : Known(subs[t], log, cursor)
  BY FeedParts
<1>2. log' = log \o rows /\ cursor' = cursor /\ loop' = loop /\ subs' = subs
  BY DEF Commit, loopVars
<1>3. rows \in Seq(Event)
  BY DEF Batches
<1>4. /\ Len(log') \in Nat /\ Len(log) <= Len(log')
      /\ \A q \in 1..Len(log) : log'[q] = log[q]
  BY <1>1, <1>2, <1>3
<1>5. ASSUME NEW t \in Sub PROVE FeedInv(subs[t], log', cursor)
  <2>1. PICK r : r = subs[t]
    OBVIOUS
  <2>2. /\ RecInv(r, cursor, Len(log)) /\ FeedInv(r, log, cursor) /\ r \in SubscriberType
        /\ r.pos \in Nat /\ r.end \in Nat /\ r.base \in Nat /\ r.lo \in Nat
    BY <1>1, <2>1, KnownFacts DEF Known
  <2>3. SUFFICES ASSUME r.phase \in Registered, r.lag < LAG_LIMIT, NEW q \in 1..Len(log')
                 PROVE  Handed(r, q) <=> OwedAt(r, q, log', cursor)
    BY <2>1 DEF FeedInv
  <2>4. r.pos <= Len(log)
    BY <1>1, <2>2, <2>3 DEF RecInv, WindowInv
  <2>5. CASE q \in 1..Len(log)
    <3>1. Handed(r, q) <=> OwedAt(r, q, log, cursor)
      BY <2>2, <2>3, <2>5 DEF FeedInv
    <3>2. QED
      BY <1>4, <2>5, <3>1 DEF OwedAt
  <2>6. CASE q > Len(log)
    <3>1. ~OwedAt(r, q, log', cursor)
      BY <1>1, <1>4, <2>2, <2>4, <2>6 DEF OwedAt
    <3>2. r.phase # "closed" /\ RangeInv(r, cursor)
      BY <2>2, <2>3 DEF RecInv, Registered
    <3>3. \A i \in DOMAIN r.out : r.out[i] # q
      <4>1. \A i \in DOMAIN r.out : r.out[i] \in Int
        BY <2>2, FrameIsInt DEF SubscriberType
      <4>2. QED
        BY <1>1, <1>4, <2>2, <2>4, <2>6, <3>2, <4>1 DEF RangeInv
    <3>4. \A i \in DOMAIN r.buf : r.buf[i] # q
      <4>1. \A i \in DOMAIN r.buf : r.buf[i] \in Int
        BY <2>2 DEF SubscriberType
      <4>2. QED
        BY <1>1, <1>4, <2>6, <3>2, <4>1 DEF RangeInv
    <3>5. QED
      BY <3>1, <3>3, <3>4 DEF Handed
  <2>7. QED
    BY <1>1, <1>4, <2>5, <2>6
<1>6. DownInv'
  BY <1>2 DEF AllInv, FInv, DownInv
<1>7. QED
  BY <1>2, <1>5, <1>6 DEF FInv

(* Everything else leaves the table and the connections alone; a daemon    *)
(* that boots moves the cursor while nobody is registered.                 *)
LEMMA DaemonFeed ==
  ASSUME AllInv,
         \/ \E p \in Producer : Ring(p) \/ RingLost(p)
         \/ AcceptRing \/ Wake \/ Select \/ Boot \/ Open
         \/ AcceptRingTimeout \/ SelectFails \/ UNCHANGED vars
  PROVE  FInv'
<1>1. subs' = subs /\ log' = log
  BY DEF Ring, RingLost, AcceptRing, Wake, Select, Boot, Open, AcceptRingTimeout, SelectFails,
         tableVars, bellVars, loopVars, vars
<1>2. CASE Boot
  <2>1. \A t \in Sub : subs[t].phase \notin Registered
    BY <1>2 DEF Boot, AllInv, FInv, DownInv
  <2>2. DownInv'
    BY <1>1, <2>1 DEF DownInv
  <2>3. \A t \in Sub : FeedInv(subs'[t], log', cursor')
    BY <1>1, <2>1, ClosedFeed
  <2>4. QED
    BY <2>2, <2>3 DEF FInv
<1>3. CASE ~Boot
  <2>1. cursor' = cursor /\ (loop' = loop \/ loop' \notin {"down", "booting"})
    BY <1>3 DEF Ring, RingLost, AcceptRing, Wake, Select, Open, AcceptRingTimeout, SelectFails,
                tableVars, bellVars, loopVars, vars, AfterPass
  <2>2. DownInv'
    BY <1>1, <2>1 DEF AllInv, FInv, DownInv
  <2>3. \A t \in Sub : FeedInv(subs'[t], log', cursor')
    BY <1>1, <2>1 DEF AllInv, FInv
  <2>4. QED
    BY <2>2, <2>3 DEF FInv
<1>4. QED
  BY <1>2, <1>3

-----------------------------------------------------------------------------
(* Every step keeps the feed, and what follows from it.                    *)

LEMMA NextFeed == ASSUME AllInv, [Next]_vars PROVE FInv'
<1>1. ASSUME NEW p \in Producer, ProducerStep(p) \/ RingLost(p) PROVE FInv'
  BY <1>1, CommitFeed, DaemonFeed DEF ProducerStep
<1>2. ASSUME NEW s \in Sub, SubscribeStep(s) PROVE FInv'
  BY <1>2, UnregisteredFeed, RegisterFeed, SendAckFeed, TaskFeed, RowFeed DEF SubscribeStep
<1>3. ASSUME NEW s \in Sub, Drain(s) \/ PeerReads(s) PROVE FInv'
  BY <1>3, PeerFeed
<1>4. ASSUME NEW s \in Sub, SubscriberFault(s) PROVE FInv'
  BY <1>4, UnregisteredFeed, RegisterFeed, PeerFeed DEF SubscriberFault
<1>5. CASE FanOutRow \/ Heartbeat \/ Stop \/ Shutdown \/ Crash
  BY <1>5, FanOutRowFeed, EveryoneFeed
<1>6. CASE \/ AcceptRing \/ Wake \/ Select \/ Boot \/ Open
           \/ AcceptRingTimeout \/ SelectFails \/ UNCHANGED vars
  BY <1>6, DaemonFeed
<1>7. QED
  BY <1>1, <1>2, <1>3, <1>4, <1>5, <1>6 DEF Next, NormalNext, FaultNext, DaemonStep

LEMMA FeedInvariance == Spec => []AllInv
<1>1. Init => AllInv
  BY InitHolds, WireInit, FeedInit DEF AllInv
<1>2. AllInv /\ [Next]_vars => AllInv'
  BY NextHolds, NextWire, NextFeed DEF AllInv
<1>3. QED
  BY <1>1, <1>2, PTL DEF Spec

(* Whatever the producers commit while a subscription is set up, replays,  *)
(* flushes its pre-ack buffer or falls behind: a registered subscriber     *)
(* that is not about to be evicted was handed the rows of its filter that  *)
(* its replay has covered or the daemon fanned out since its base, all of  *)
(* them and no others.                                                     *)
THEOREM FeedIsExact == Spec => []ExactFeed
<1>1. AllInv => ExactFeed
  <2> SUFFICES ASSUME AllInv, NEW s \in Sub, subs[s].phase \in Registered,
                      subs[s].lag < LAG_LIMIT, NEW q \in 1..Len(log)
               PROVE  Handed(subs[s], q) <=> Owed(subs[s], q)
    BY DEF ExactFeed
  <2>1. Handed(subs[s], q) <=> OwedAt(subs[s], q, log, cursor)
    BY DEF AllInv, FInv, FeedInv
  <2>2. QED
    BY <2>1 DEF OwedAt, Owed
<1>2. QED
  BY FeedInvariance, <1>1, PTL
=============================================================================
