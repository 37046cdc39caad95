------------------------- MODULE SubscriberTxProofs --------------------------
(***************************************************************************)
(* Proofs about SubscriberTx for any frame lengths, any socket buffer, any *)
(* lag limit and any number of frames: what the peer of one subscriber can *)
(* read is whole frames, in order, counted once; and the subscriber        *)
(* implements the bounded FIFO of whole frames that FrameChannel states.   *)
(***************************************************************************)
EXTENDS SubscriberTx, FiniteSetTheorems, SequenceTheorems, TLAPS

(* A send raises only on a peer that is gone.                              *)
Limits ==
  /\ Size \subseteq Nat \ {0} /\ SNDBUF \in Nat \ {0} /\ LAG_LIMIT \in Nat \ {0}
  /\ MaxFrames \in Nat /\ Transient = FALSE

Byte == Nat \X Nat
Entry == [id : Nat, off : Nat]

-----------------------------------------------------------------------------
(* The wire w of the frames h.                                             *)

End(w) == w[Len(w)]

WireOK(w, h) ==
  /\ w \in Seq(Byte)
  /\ \A i \in 1..Len(w) : w[i][1] \in 1..Len(h) /\ w[i][2] \in 1..h[w[i][1]].size
  /\ Len(w) > 0 => w[1][2] = 1
  /\ \A i \in 1..(Len(w) - 1) :
       \/ w[i + 1] = <<w[i][1], w[i][2] + 1>>
       \/ w[i][2] = h[w[i][1]].size /\ w[i + 1][1] > w[i][1] /\ w[i + 1][2] = 1

(* It ends with a whole frame.                                             *)
AtBoundary(w, h) == Len(w) > 0 => End(w)[2] = h[End(w)[1]].size

(* Its next byte may be the one after the first off of frame id.           *)
ReadyFor(w, h, id, off) ==
  /\ \A i \in 1..Len(w) : w[i][1] <= id /\ (w[i][1] = id => w[i][2] <= off)
  /\ off = 0 => AtBoundary(w, h)
  /\ off > 0 => Len(w) > 0 /\ End(w) = <<id, off>>

Done(w, h) == {id \in 1..Len(h) : \E i \in 1..Len(w) : w[i] = <<id, h[id].size>>}
Counted(w, h) == {id \in Done(w, h) : h[id].counts}

(* v is w followed by n bytes of frame id from off on.                     *)
Longer(v, w, id, off, n) ==
  /\ v \in Seq(Byte) /\ Len(v) = Len(w) + n
  /\ \A i \in 1..Len(w) : v[i] = w[i]
  /\ \A i \in (Len(w) + 1)..(Len(w) + n) : v[i] = <<id, off + (i - Len(w))>>

LEMMA BytesAppend ==
  ASSUME NEW w \in Seq(Byte), NEW id \in Nat, NEW off \in Nat, NEW n \in Nat
  PROVE  Longer(w \o Bytes(id, off, off + n), w, id, off, n)
<1>1. PICK b : b = Bytes(id, off, off + n)
  OBVIOUS
<1>2. (off + n) - off = n
  OBVIOUS
<1>3. b = [k \in 1..n |-> <<id, off + k>>]
  BY <1>1, <1>2 DEF Bytes
<1>4. \A k \in 1..n : <<id, off + k>> \in Byte
  BY DEF Byte
<1>5. b \in Seq(Byte) /\ Len(b) = n
  <2>1. b \in Seq(Byte)
    <3>1. b \in [1..n -> Byte]
      BY <1>3, <1>4
    <3>2. [1..n -> Byte] \in {[1..m -> Byte] : m \in Nat}
      OBVIOUS
    <3>3. QED
      BY <3>1, <3>2, SeqDef
  <2>2. DOMAIN b = 1..n /\ DOMAIN b = 1..Len(b) /\ Len(b) \in Nat
    BY <1>3, <2>1
  <2>3. QED
    BY <2>1, <2>2
<1>6. PICK v : v = w \o b
  OBVIOUS
<1>7. v \in Seq(Byte) /\ Len(v) = Len(w) + n
  BY <1>5, <1>6, ConcatProperties
<1>8. \A i \in 1..Len(w) : v[i] = w[i]
  BY <1>5, <1>6
<1>9. \A i \in (Len(w) + 1)..(Len(w) + n) : v[i] = b[i - Len(w)] /\ i - Len(w) \in 1..n
  BY <1>5, <1>6
<1>10. \A i \in (Len(w) + 1)..(Len(w) + n) : v[i] = <<id, off + (i - Len(w))>>
  BY <1>3, <1>9
<1> QED BY <1>1, <1>6, <1>7, <1>8, <1>10 DEF Longer

LEMMA WireGrows ==
  ASSUME NEW h \in Seq(FrameType), NEW w, NEW v, NEW id \in 1..Len(h), NEW off \in Nat, NEW n \in Nat,
         h[id].size \in Nat, off + n <= h[id].size,
         WireOK(w, h), ReadyFor(w, h, id, off), Longer(v, w, id, off, n)
  PROVE  WireOK(v, h) /\ ReadyFor(v, h, id, off + n)
<1>1. w \in Seq(Byte) /\ Len(w) \in Nat /\ Len(v) = Len(w) + n /\ v \in Seq(Byte)
  BY DEF WireOK, Longer
<1>2. \A i \in 1..Len(w) : v[i] = w[i]
  BY DEF Longer
<1>3. \A i \in (Len(w) + 1)..(Len(w) + n) :
        v[i][1] = id /\ v[i][2] = off + (i - Len(w)) /\ v[i] = <<id, off + (i - Len(w))>>
  BY DEF Longer
<1>4. \A i \in 1..Len(v) : v[i][1] \in 1..Len(h) /\ v[i][2] \in 1..h[v[i][1]].size
  <2> TAKE i \in 1..Len(v)
  <2>1. CASE i \in 1..Len(w)
    BY <1>2, <2>1 DEF WireOK
  <2>2. CASE i \in (Len(w) + 1)..(Len(w) + n)
    BY SMTT(20), <1>1, <1>3, <2>2
  <2>3. QED
    BY <1>1, <2>1, <2>2
<1>5. Len(v) > 0 => v[1][2] = 1
  <2>1. CASE Len(w) > 0
    BY <1>1, <1>2, <2>1 DEF WireOK
  <2>2. CASE Len(w) = 0
    <3>1. off = 0
      BY <2>2 DEF ReadyFor
    <3>2. QED
      BY <1>1, <1>3, <2>2, <3>1
  <2>3. QED
    BY <1>1, <2>1, <2>2
<1>6. ASSUME NEW i \in 1..(Len(v) - 1)
      PROVE  \/ v[i + 1] = <<v[i][1], v[i][2] + 1>>
             \/ v[i][2] = h[v[i][1]].size /\ v[i + 1][1] > v[i][1] /\ v[i + 1][2] = 1
  <2>1. CASE i < Len(w)
    <3>1. i \in 1..(Len(w) - 1) /\ i \in 1..Len(w) /\ i + 1 \in 1..Len(w)
      BY <1>1, <2>1
    <3>2. QED
      BY <1>2, <3>1 DEF WireOK
  <2>2. CASE i = Len(w)
    <3>1. i \in 1..Len(w) /\ i + 1 \in (Len(w) + 1)..(Len(w) + n) /\ Len(w) > 0
      BY <1>1, <2>2
    <3>2. v[i] = End(w) /\ v[i + 1] = <<id, off + 1>> /\ v[i + 1][1] = id /\ v[i + 1][2] = off + 1
      <4>1. v[i] = End(w)
        BY <1>2, <2>2, <3>1 DEF End
      <4>2. (i + 1) - Len(w) = 1
        BY <1>1, <2>2
      <4>3. v[i + 1] = <<id, off + ((i + 1) - Len(w))>>
        BY <1>3, <3>1
      <4>4. QED
        BY SMTT(20), <4>1, <4>2, <4>3
    <3>3. CASE off > 0
      BY <3>2, <3>3 DEF ReadyFor
    <3>4. CASE off = 0
      <4>1. End(w)[2] = h[End(w)[1]].size
        BY <3>1, <3>4 DEF ReadyFor, AtBoundary
      <4>2. w[i][1] <= id /\ (w[i][1] = id => w[i][2] <= 0)
        BY <3>1, <3>4 DEF ReadyFor
      <4>3. w[i][2] > 0 /\ w[i][1] \in Nat /\ w[i] = End(w)
        BY <2>2, <3>1 DEF WireOK, End
      <4>4. w[i][1] < id
        BY <1>1, <4>2, <4>3, <3>1 DEF WireOK
      <4>5. QED
        BY <3>2, <3>4, <4>1, <4>3, <4>4
    <3>5. QED
      BY <3>3, <3>4
  <2>3. CASE i > Len(w)
    <3>1. i \in (Len(w) + 1)..(Len(w) + n) /\ i + 1 \in (Len(w) + 1)..(Len(w) + n)
      BY <1>1, <2>3
    <3>2. v[i + 1] = <<id, off + ((i + 1) - Len(w))>> /\ v[i][1] = id /\ v[i][2] = off + (i - Len(w))
      BY <1>3, <3>1
    <3>3. off + ((i + 1) - Len(w)) = (off + (i - Len(w))) + 1
      BY <1>1
    <3>4. QED
      BY <3>2, <3>3
  <2>4. QED
    BY <1>1, <2>1, <2>2, <2>3
<1>7. WireOK(v, h)
  BY <1>1, <1>4, <1>5, <1>6 DEF WireOK
<1>8. \A i \in 1..Len(v) : v[i][1] <= id /\ (v[i][1] = id => v[i][2] <= off + n)
  <2> TAKE i \in 1..Len(v)
  <2>1. CASE i \in 1..Len(w)
    <3>1. w[i][2] \in Nat
      BY <2>1, <1>1 DEF WireOK
    <3>2. QED
      BY <1>2, <2>1, <3>1 DEF ReadyFor
  <2>2. CASE i \in (Len(w) + 1)..(Len(w) + n)
    BY <1>1, <1>3, <2>2
  <2>3. QED
    BY <1>1, <2>1, <2>2
<1>9. CASE n = 0
  <2>1. Len(v) = Len(w) /\ off + n = off
    BY <1>1, <1>9
  <2>2. Len(w) > 0 => End(v) = End(w)
    BY <1>1, <1>2, <2>1 DEF End
  <2>3. QED
    BY <1>1, <1>7, <1>8, <2>1, <2>2 DEF ReadyFor, AtBoundary
<1>10. CASE n > 0
  <2>1. Len(v) \in (Len(w) + 1)..(Len(w) + n) /\ Len(v) > 0 /\ off + n > 0
    BY <1>1, <1>10
  <2>2. End(v) = <<id, off + n>>
    BY SMTT(20), <1>1, <1>3, <2>1 DEF End
  <2>3. QED
    BY <1>7, <1>8, <2>1, <2>2 DEF ReadyFor
<1> QED BY <1>9, <1>10

(* A frame is done with its last byte, and not before.                     *)
LEMMA DoneGrows ==
  ASSUME NEW h \in Seq(FrameType), NEW w, NEW v, NEW id \in 1..Len(h), NEW off \in Nat, NEW n \in Nat,
         h[id].size \in Nat, off < h[id].size, off + n <= h[id].size,
         WireOK(w, h), ReadyFor(w, h, id, off), Longer(v, w, id, off, n)
  PROVE  /\ id \notin Done(w, h)
         /\ Done(v, h) = IF off + n = h[id].size THEN Done(w, h) \cup {id} ELSE Done(w, h)
<1>1. Len(w) \in Nat /\ Len(v) = Len(w) + n
  BY DEF WireOK, Longer
<1>2. \A i \in 1..Len(w) : v[i] = w[i]
  BY DEF Longer
<1>3. \A i \in (Len(w) + 1)..(Len(w) + n) : v[i] = <<id, off + (i - Len(w))>>
  BY DEF Longer
<1>4. id \notin Done(w, h)
  <2> SUFFICES ASSUME NEW i \in 1..Len(w), w[i] = <<id, h[id].size>> PROVE FALSE
    BY DEF Done
  <2>1. w[i][1] = id /\ w[i][2] = h[id].size
    OBVIOUS
  <2>2. QED
    BY <2>1 DEF ReadyFor
<1>5. \A q \in Done(w, h) : q \in Done(v, h)
  BY <1>1, <1>2 DEF Done
<1>6. ASSUME off + n = h[id].size PROVE id \in Done(v, h)
  <2>1. Len(v) \in (Len(w) + 1)..(Len(w) + n) /\ Len(v) \in 1..Len(v)
    BY <1>1, <1>6
  <2>2. v[Len(v)] = <<id, off + (Len(v) - Len(w))>> /\ off + (Len(v) - Len(w)) = h[id].size
    BY <1>1, <1>3, <1>6, <2>1
  <2>3. v[Len(v)] = <<id, h[id].size>>
    BY <2>2
  <2>4. QED
    BY <2>1, <2>3 DEF Done
<1>7. ASSUME NEW q \in Done(v, h), q \notin Done(w, h) PROVE q = id /\ off + n = h[id].size
  <2>1. PICK i \in 1..Len(v) : v[i] = <<q, h[q].size>>
    BY <1>7 DEF Done
  <2>2. q \in 1..Len(h)
    BY <1>7 DEF Done
  <2>3. i \notin 1..Len(w)
    BY <1>2, <1>7, <2>1, <2>2 DEF Done
  <2>4. i \in (Len(w) + 1)..(Len(w) + n)
    BY <1>1, <2>3
  <2>5. <<q, h[q].size>> = <<id, off + (i - Len(w))>>
    BY <1>3, <2>1, <2>4
  <2>6. q = id /\ h[q].size = off + (i - Len(w))
    BY <2>5
  <2>7. QED
    BY <1>1, <2>4, <2>6
<1> QED BY <1>4, <1>5, <1>6, <1>7

LEMMA CountedIsFinite ==
  ASSUME NEW h \in Seq(FrameType), NEW w
  PROVE  IsFiniteSet(Counted(w, h)) /\ Cardinality(Counted(w, h)) \in Nat
<1>1. Len(h) \in Nat /\ Counted(w, h) \subseteq 1..Len(h)
  BY DEF Counted, Done
<1>2. IsFiniteSet(1..Len(h))
  BY <1>1, FS_Interval
<1>3. IsFiniteSet(Counted(w, h))
  BY <1>1, <1>2, FS_Subset
<1> QED BY <1>3, FS_CardinalityType

LEMMA CountGrows ==
  ASSUME NEW h \in Seq(FrameType), NEW w, NEW v, NEW id \in 1..Len(h), NEW off \in Nat, NEW n \in Nat,
         h[id].size \in Nat, off < h[id].size, off + n <= h[id].size,
         WireOK(w, h), ReadyFor(w, h, id, off), Longer(v, w, id, off, n)
  PROVE  Cardinality(Counted(v, h)) =
           Cardinality(Counted(w, h)) + (IF h[id].counts /\ off + n = h[id].size THEN 1 ELSE 0)
<1>1. /\ id \notin Done(w, h)
      /\ Done(v, h) = IF off + n = h[id].size THEN Done(w, h) \cup {id} ELSE Done(w, h)
  BY ZenonT(60), DoneGrows
<1>2. IsFiniteSet(Counted(w, h)) /\ Cardinality(Counted(w, h)) \in Nat
  BY CountedIsFinite
<1>3. CASE h[id].counts /\ off + n = h[id].size
  <2>1. Counted(v, h) = Counted(w, h) \cup {id} /\ id \notin Counted(w, h)
    BY <1>1, <1>3 DEF Counted
  <2>2. QED
    BY ZenonT(60), <1>2, <1>3, <2>1, FS_AddElement
<1>4. CASE ~(h[id].counts /\ off + n = h[id].size)
  <2>1. Counted(v, h) = Counted(w, h)
    BY <1>1, <1>4 DEF Counted
  <2>2. QED
    BY <1>2, <1>4, <2>1
<1> QED BY <1>3, <1>4

(* A frame more to send changes nothing on the wire, and is next on it.    *)
LEMMA FrameHanded ==
  ASSUME NEW h \in Seq(FrameType), NEW f \in FrameType, NEW w, WireOK(w, h)
  PROVE  /\ Append(h, f) \in Seq(FrameType) /\ Len(Append(h, f)) = Len(h) + 1
         /\ \A id \in 1..Len(h) : Append(h, f)[id] = h[id]
         /\ Append(h, f)[Len(h) + 1] = f
         /\ WireOK(w, Append(h, f)) /\ Done(w, Append(h, f)) = Done(w, h)
         /\ Counted(w, Append(h, f)) = Counted(w, h)
         /\ \A id \in 1..Len(h), off \in Nat :
              ReadyFor(w, h, id, off) => ReadyFor(w, Append(h, f), id, off)
         /\ AtBoundary(w, h) => ReadyFor(w, Append(h, f), Len(h) + 1, 0) /\ AtBoundary(w, Append(h, f))
<1>1. PICK g : g = Append(h, f)
  OBVIOUS
<1>2. g \in Seq(FrameType) /\ Len(g) = Len(h) + 1 /\ Len(h) \in Nat /\ g[Len(h) + 1] = f
  BY <1>1
<1>3. \A id \in 1..Len(h) : g[id] = h[id]
  BY <1>1
<1>4. w \in Seq(Byte) /\ Len(w) \in Nat
  BY DEF WireOK
<1>5. \A i \in 1..Len(w) : w[i][1] \in 1..Len(h) /\ g[w[i][1]] = h[w[i][1]] /\ w[i][1] \in 1..Len(g)
  BY <1>2, <1>3 DEF WireOK
<1>6. WireOK(w, g)
  <2>1. \A i \in 1..(Len(w) - 1) : i \in 1..Len(w)
    BY <1>4
  <2>2. QED
    BY <1>4, <1>5, <2>1 DEF WireOK
<1>7. Done(w, g) = Done(w, h)
  <2>1. \A id \in 1..Len(h) : id \in Done(w, g) <=> id \in Done(w, h)
    BY <1>2, <1>3 DEF Done
  <2>2. Len(h) + 1 \notin Done(w, g)
    <3> SUFFICES ASSUME NEW i \in 1..Len(w), w[i] = <<Len(h) + 1, g[Len(h) + 1].size>> PROVE FALSE
      BY DEF Done
    <3>1. w[i][1] = Len(h) + 1
      OBVIOUS
    <3>2. QED
      BY <1>2, <1>5, <3>1
  <2>3. Done(w, g) \subseteq 1..(Len(h) + 1) /\ Done(w, h) \subseteq 1..Len(h)
    BY <1>2 DEF Done
  <2>4. QED
    <3>1. \A q \in Done(w, g) : q \in 1..Len(h)
      BY <1>2, <2>2, <2>3
    <3>2. QED
      BY <2>1, <2>3, <3>1
<1>8. Counted(w, g) = Counted(w, h)
  BY <1>3, <1>7 DEF Counted, Done
<1>9. AtBoundary(w, h) => AtBoundary(w, g)
  BY <1>4, <1>5 DEF AtBoundary, End
<1>10. AtBoundary(w, h) => ReadyFor(w, g, Len(h) + 1, 0)
  BY <1>2, <1>5, <1>9 DEF ReadyFor
<1>11. \A id \in 1..Len(h), off \in Nat : ReadyFor(w, h, id, off) => ReadyFor(w, g, id, off)
  BY <1>9 DEF ReadyFor
<1> QED BY <1>1, <1>2, <1>3, <1>6, <1>7, <1>8, <1>9, <1>10, <1>11

-----------------------------------------------------------------------------
(* The subscriber.                                                         *)

(* What waits: handed over, in order, and only the head cut.               *)
QueueOK(q, h) ==
  /\ q \in Seq(Entry)
  /\ \A i \in 1..Len(q) : q[i].id \in 1..Len(h) /\ q[i].off < h[q[i].id].size
  /\ \A i \in 2..Len(q) : q[i].off = 0
  /\ \A i \in 1..(Len(q) - 1) : q[i + 1].id > q[i].id

(* The wire goes on where the queue begins.                                *)
Meets(w, h, q) ==
  IF q = <<>> THEN AtBoundary(w, h) ELSE ReadyFor(w, h, q[1].id, q[1].off)

Ids(q) == {q[i].id : i \in 1..Len(q)}

Kept(w, h, q, l) == 1..Len(h) = Done(w, h) \cup Ids(q) /\ Len(q) <= l

Types ==
  /\ handed \in Seq(FrameType) /\ Len(handed) <= MaxFrames
  /\ lag \in Nat /\ delivered \in Nat /\ read \in Nat
  /\ read <= Len(wire) /\ Len(wire) - read <= SNDBUF

(* A callback is armed for something, and a counter at its limit is that   *)
(* of a peer which is gone.                                                *)
Armed ==
  /\ draining => open /\ queue # <<>>
  /\ busy => draining
  /\ open /\ lag >= LAG_LIMIT => ~peer

IInv ==
  /\ Types /\ Armed
  /\ WireOK(wire, handed) /\ QueueOK(queue, handed)
  /\ delivered = Cardinality(Counted(wire, handed))
  /\ open /\ peer => Meets(wire, handed, queue)
  /\ open /\ lag < LAG_LIMIT => Kept(wire, handed, queue, lag)

LEMMA FrameSizes ==
  ASSUME Limits, NEW h \in Seq(FrameType), NEW id \in 1..Len(h)
  PROVE  h[id] \in FrameType /\ h[id].size \in Nat \ {0} /\ h[id].counts \in BOOLEAN
<1>1. h[id] \in FrameType
  OBVIOUS
<1> QED BY <1>1 DEF FrameType, Limits

LEMMA Consequences == ASSUME Limits, IInv PROVE WireIsExact
<1>1. handed \in Seq(FrameType) /\ Len(handed) \in Nat /\ DOMAIN handed = 1..Len(handed)
  BY DEF IInv, Types
<1>2. wire \in Seq(Byte) /\ Len(wire) \in Nat /\ DOMAIN wire = 1..Len(wire)
  BY DEF IInv, WireOK
<1>3. queue \in Seq(Entry) /\ DOMAIN queue = 1..Len(queue)
  BY DEF IInv, QueueOK
<1>4. Through = Done(wire, handed)
  BY <1>1, <1>2 DEF Through, Done
<1>5. {id \in Through : handed[id].counts} = Counted(wire, handed)
  BY <1>4 DEF Counted
<1>6. DeliveredIsExact
  BY <1>5 DEF DeliveredIsExact, IInv
<1>7. NothingLost
  BY <1>1, <1>3, <1>4 DEF NothingLost, IInv, Kept, Ids
<1>8. \A i \in 1..Len(wire) : SizeOf(wire[i][1]) = handed[wire[i][1]].size
  <2> TAKE i \in 1..Len(wire)
  <2>1. wire[i][1] \in 1..Len(handed)
    BY DEF IInv, WireOK
  <2>2. wire[i][1] # MaxFrames + 1
    BY <1>1, <2>1 DEF IInv, Types, Limits
  <2>3. QED
    BY <2>2 DEF SizeOf, RejectId
<1>9. wire # <<>> => wire[1][2] = 1
  BY <1>2 DEF IInv, WireOK
<1>10. \A i \in 1..(Len(wire) - 1) : i \in 1..Len(wire)
  BY <1>2
<1>11. WholeFrames
  BY <1>8, <1>9, <1>10 DEF WholeFrames, IInv, WireOK
<1> QED BY <1>6, <1>7, <1>11 DEF WireIsExact

LEMMA InitIInv == Limits /\ TxInit => IInv
<1> SUFFICES ASSUME Limits, TxInit PROVE IInv
  OBVIOUS
<1>1. Done(<<>>, <<>>) = {} /\ Counted(<<>>, <<>>) = {} /\ Ids(<<>>) = {}
  BY DEF Done, Counted, Ids
<1>2. Types
  BY DEF TxInit, Types, Limits
<1>3. Armed
  BY DEF TxInit, Armed, Limits
<1>4. WireOK(<<>>, <<>>) /\ QueueOK(<<>>, <<>>) /\ Meets(<<>>, <<>>, <<>>)
  BY DEF WireOK, QueueOK, Meets, AtBoundary
<1>5. Kept(<<>>, <<>>, <<>>, 0)
  BY <1>1 DEF Kept
<1>6. Cardinality({}) = 0
  BY FS_EmptySet
<1> QED BY <1>1, <1>2, <1>3, <1>4, <1>5, <1>6 DEF TxInit, IInv

-----------------------------------------------------------------------------
(* Frames that go to the queue.                                            *)

LEMMA QueueGrows ==
  ASSUME Limits, NEW h \in Seq(FrameType), NEW f \in FrameType, NEW q, QueueOK(q, h)
  PROVE  QueueOK(Append(q, [id |-> Len(h) + 1, off |-> 0]), Append(h, f))
<1>1. PICK e : e = [id |-> Len(h) + 1, off |-> 0]
  OBVIOUS
<1>2. PICK g : g = Append(h, f)
  OBVIOUS
<1>3. /\ g \in Seq(FrameType) /\ Len(g) = Len(h) + 1 /\ Len(h) \in Nat /\ g[Len(h) + 1] = f
      /\ \A id \in 1..Len(h) : g[id] = h[id]
  BY <1>2
<1>4. e \in Entry /\ e.id = Len(h) + 1 /\ e.off = 0 /\ f.size > 0 /\ f.size \in Nat
  <2>1. f.size \in Size
    BY DEF FrameType
  <2>2. f.size > 0 /\ f.size \in Nat
    <3>1. Size \subseteq Nat \ {0}
      BY DEF Limits
    <3>2. f.size \in Nat \ {0}
      BY <2>1, <3>1
    <3>3. QED
      BY <3>2
  <2>3. QED
    BY <1>1, <1>3, <2>2 DEF Entry
<1>5. PICK p : p = Append(q, e)
  OBVIOUS
<1>6. /\ p \in Seq(Entry) /\ Len(p) = Len(q) + 1 /\ Len(q) \in Nat /\ p[Len(q) + 1] = e
      /\ \A i \in 1..Len(q) : p[i] = q[i]
  BY <1>4, <1>5, AppendProperties DEF QueueOK
<1>7. \A i \in 1..Len(p) : p[i].id \in 1..Len(g) /\ p[i].off < g[p[i].id].size
  <2> TAKE i \in 1..Len(p)
  <2>1. CASE i \in 1..Len(q)
    BY <1>3, <1>6, <2>1 DEF QueueOK
  <2>2. CASE i = Len(q) + 1
    BY <1>3, <1>4, <1>6, <2>2
  <2>3. QED
    BY <1>6, <2>1, <2>2
<1>8. \A i \in 2..Len(p) : p[i].off = 0
  <2> TAKE i \in 2..Len(p)
  <2>1. CASE i \in 2..Len(q)
    BY <1>6, <2>1 DEF QueueOK
  <2>2. CASE i = Len(q) + 1
    BY <1>4, <1>6, <2>2
  <2>3. QED
    BY <1>6, <2>1, <2>2
<1>9. \A i \in 1..(Len(p) - 1) : p[i + 1].id > p[i].id
  <2> TAKE i \in 1..(Len(p) - 1)
  <2>1. CASE i \in 1..(Len(q) - 1)
    BY <1>6, <2>1 DEF QueueOK
  <2>2. CASE i = Len(q)
    <3>1. i \in 1..Len(q) /\ q[i].id \in 1..Len(h)
      BY <1>6, <2>2 DEF QueueOK
    <3>2. QED
      BY <1>3, <1>4, <1>6, <2>2, <3>1
  <2>3. QED
    BY <1>6, <2>1, <2>2
<1> QED BY <1>1, <1>2, <1>5, <1>6, <1>7, <1>8, <1>9 DEF QueueOK

(* A queue of one frame that is not yet through.                           *)
LEMMA QueueOfOne ==
  ASSUME NEW h, NEW id \in Nat, id \in 1..Len(h), NEW off \in Nat, off < h[id].size
  PROVE  QueueOK(<<[id |-> id, off |-> off]>>, h) /\ Ids(<<[id |-> id, off |-> off]>>) = {id}
<1>1. PICK q : q = <<[id |-> id, off |-> off]>>
  OBVIOUS
<1>2. Len(q) = 1 /\ q[1].id = id /\ q[1].off = off /\ q \in Seq(Entry)
  BY <1>1 DEF Entry
<1>3. QueueOK(q, h) /\ Ids(q) = {id}
  BY <1>2 DEF QueueOK, Ids
<1> QED BY <1>1, <1>3

LEMMA EmptyQueue == \A h : QueueOK(<<>>, h) /\ Ids(<<>>) = {}
  BY DEF QueueOK, Ids

(* The queue after the head has gone, or a part of it.                     *)
LEMMA QueueShrinks ==
  ASSUME NEW h, NEW q, q # <<>>, QueueOK(q, h)
  PROVE  /\ QueueOK(Tail(q), h) /\ Len(Tail(q)) = Len(q) - 1
         /\ Ids(q) = Ids(Tail(q)) \cup {q[1].id}
         /\ Tail(q) # <<>> => Tail(q)[1].off = 0 /\ Tail(q)[1].id > q[1].id
<1>1. PICK p : p = Tail(q)
  OBVIOUS
<1>2. q \in Seq(Entry) /\ Len(q) \in Nat /\ Len(q) > 0
  BY DEF QueueOK
<1>3. p \in Seq(Entry) /\ Len(p) = Len(q) - 1 /\ \A i \in 1..Len(p) : p[i] = q[i + 1]
  BY <1>1, <1>2, HeadTailProperties
<1>4. QueueOK(p, h)
  <2>1. \A i \in 1..Len(p) : i + 1 \in 1..Len(q) /\ i + 1 \in 2..Len(q)
    BY <1>2, <1>3
  <2>2. \A i \in 1..(Len(p) - 1) : i \in 1..Len(p) /\ i + 1 \in 1..Len(p) /\ i + 1 \in 1..(Len(q) - 1)
    BY <1>2, <1>3
  <2>3. \A i \in 2..Len(p) : i \in 1..Len(p)
    OBVIOUS
  <2>4. \A i \in 1..(Len(p) - 1) : p[i + 1].id > p[i].id
    <3> TAKE i \in 1..(Len(p) - 1)
    <3>1. q[(i + 1) + 1].id > q[i + 1].id
      BY <2>2 DEF QueueOK
    <3>2. p[i] = q[i + 1] /\ p[i + 1] = q[(i + 1) + 1]
      BY <1>3, <2>2
    <3>3. QED
      BY <3>1, <3>2
  <2>5. QED
    BY <1>3, <2>1, <2>3, <2>4 DEF QueueOK
<1>5. Ids(q) = Ids(p) \cup {q[1].id}
  <2>1. \A i \in 1..Len(q) : i = 1 \/ (i - 1 \in 1..Len(p) /\ p[i - 1] = q[i])
    BY <1>2, <1>3
  <2>2. \A i \in 1..Len(p) : i + 1 \in 1..Len(q)
    BY <1>2, <1>3
  <2>3. \A x \in Ids(q) : x \in Ids(p) \cup {q[1].id}
    BY <2>1 DEF Ids
  <2>4. \A x \in Ids(p) : x \in Ids(q)
    BY <1>3, <2>2 DEF Ids
  <2>5. q[1].id \in Ids(q)
    BY <1>2 DEF Ids
  <2>6. QED
    BY <2>3, <2>4, <2>5
<1>6. p # <<>> => p[1].off = 0 /\ p[1].id > q[1].id
  <2> SUFFICES ASSUME p # <<>> PROVE p[1].off = 0 /\ p[1].id > q[1].id
    OBVIOUS
  <2>1. 1 \in 1..Len(p) /\ 2 \in 2..Len(q) /\ 1 \in 1..(Len(q) - 1)
    BY <1>2, <1>3
  <2>2. p[1] = q[2]
    BY <1>3, <2>1
  <2>3. q[1 + 1].id > q[1].id /\ q[2].off = 0
    BY <2>1 DEF QueueOK
  <2>4. QED
    BY <2>2, <2>3
<1> QED BY <1>1, <1>3, <1>4, <1>5, <1>6

Cut(q, n) == [q EXCEPT ![1].off = @ + n]

LEMMA HeadAdvances ==
  ASSUME NEW h, NEW q, q # <<>>, QueueOK(q, h), NEW n \in Nat, q[1].off + n < h[q[1].id].size
  PROVE  /\ QueueOK(Cut(q, n), h) /\ Cut(q, n) # <<>> /\ Len(Cut(q, n)) = Len(q)
         /\ Ids(Cut(q, n)) = Ids(q)
         /\ Cut(q, n)[1].id = q[1].id /\ Cut(q, n)[1].off = q[1].off + n
<1>0. PICK p : p = Cut(q, n)
  OBVIOUS
<1>1. p = [q EXCEPT ![1].off = @ + n]
  BY <1>0 DEF Cut
<1>2. q \in Seq(Entry) /\ Len(q) \in Nat /\ Len(q) > 0 /\ q[1] \in Entry
  BY DEF QueueOK
<1>3. PICK e : e = [q[1] EXCEPT !.off = q[1].off + n]
  OBVIOUS
<1>4. e \in Entry /\ e.id = q[1].id /\ e.off = q[1].off + n
  <2>1. q[1].off \in Nat /\ q[1].off + n \in Nat
    BY <1>2 DEF Entry
  <2>2. QED
    BY <1>2, <1>3, <2>1 DEF Entry
<1>5. p = [q EXCEPT ![1] = e]
  BY <1>1, <1>2, <1>3
<1>6. /\ p \in Seq(Entry) /\ Len(p) = Len(q) /\ p[1] = e
      /\ \A i \in 1..Len(q) : i # 1 => p[i] = q[i]
  BY <1>2, <1>4, <1>5, ExceptSeq
<1>7. \A i \in 1..Len(q) : p[i].id = q[i].id
  BY <1>4, <1>6
<1>8. Ids(p) = Ids(q)
  BY <1>6, <1>7 DEF Ids
<1>9. \A i \in 1..Len(p) : p[i].id \in 1..Len(h) /\ p[i].off < h[p[i].id].size
  BY <1>4, <1>6, <1>7 DEF QueueOK
<1>10. \A i \in 2..Len(p) : p[i].off = 0
  BY <1>6 DEF QueueOK
<1>11. \A i \in 1..(Len(p) - 1) : p[i + 1].id > p[i].id
  <2>1. \A i \in 1..(Len(p) - 1) : i \in 1..Len(q) /\ i + 1 \in 1..Len(q)
    BY <1>2, <1>6
  <2>2. QED
    BY <1>6, <1>7, <2>1 DEF QueueOK
<1>12. QueueOK(p, h) /\ p # <<>>
  BY <1>2, <1>6, <1>9, <1>10, <1>11 DEF QueueOK
<1>13. p[1].id = q[1].id /\ p[1].off = q[1].off + n /\ Len(p) = Len(q)
  BY <1>4, <1>6
<1> QED BY <1>0, <1>8, <1>12, <1>13

-----------------------------------------------------------------------------
(* Steps of the event loop.                                                *)

LEMMA TakenIsBounded ==
  ASSUME NEW m \in Nat, Free \in Nat
  PROVE  Taken(m) \in Nat /\ Taken(m) <= m /\ Taken(m) <= Free
  BY DEF Taken, Least

(* A frame that is through whole: the next one may follow.                 *)
LEMMA Boundary ==
  ASSUME NEW h, NEW v, NEW id, NEW m \in Nat \ {0}, m = h[id].size, WireOK(v, h),
         ReadyFor(v, h, id, m), id \in Nat
  PROVE  AtBoundary(v, h) /\ \A q \in Nat : q > id => ReadyFor(v, h, q, 0)
<1>1. Len(v) > 0 /\ End(v) = <<id, m>>
  BY DEF ReadyFor
<1>2. AtBoundary(v, h)
  BY <1>1 DEF AtBoundary
<1>3. \A i \in 1..Len(v) : v[i][1] <= id /\ v[i][1] \in Nat
  BY DEF ReadyFor, WireOK
<1>4. ASSUME NEW q \in Nat, q > id PROVE ReadyFor(v, h, q, 0)
  BY <1>2, <1>3, <1>4 DEF ReadyFor
<1> QED BY <1>2, <1>4

LEMMA FreeIsKnown == ASSUME Limits, IInv PROVE Free \in Nat /\ Len(wire) \in Nat
<1>1. Len(wire) \in Nat /\ read \in Nat /\ Len(wire) - read <= SNDBUF
  BY DEF IInv, Types, WireOK
<1> QED BY <1>1 DEF Free, Limits

(* What an enqueue leaves behind, evicted or not.                          *)
LEMMA SettleKeeps ==
  ASSUME Limits, NEW h \in Seq(FrameType), NEW w, NEW q, NEW l \in Nat,
         Settle(w, q, l), handed' = h, UNCHANGED <<busy, peer, read>>, open, ~busy,
         Len(h) <= MaxFrames, WireOK(w, h), QueueOK(q, h),
         delivered' \in Nat, delivered' = Cardinality(Counted(w, h)),
         read \in Nat, read <= Len(w), Len(w) - read <= SNDBUF,
         peer => Meets(w, h, q), l < LAG_LIMIT => Kept(w, h, q, l),
         l >= LAG_LIMIT /\ q = <<>> => ~peer, draining => q # <<>>
  PROVE  IInv'
<1>1. LAG_LIMIT \in Nat /\ lag' = l
  BY DEF Limits, Settle
<1>2. CASE l >= LAG_LIMIT
  <2>1. open' = FALSE /\ draining' = FALSE /\ queue' = <<>> /\ wire' = w
    BY <1>2 DEF Settle, CloseSubscriber
  <2>2. Types'
    BY <1>1, <2>1 DEF Types
  <2>3. Armed'
    BY <2>1 DEF Armed
  <2>4. QED
    BY <2>1, <2>2, <2>3, EmptyQueue DEF IInv
<1>3. CASE l < LAG_LIMIT
  <2>1. ~(l >= LAG_LIMIT)
    BY <1>1, <1>3
  <2>2. wire' = w /\ queue' = q /\ open' = open /\ (draining' <=> draining \/ q # <<>>)
    BY <2>1 DEF Settle
  <2>3. Types'
    BY <1>1, <2>2 DEF Types
  <2>4. Armed'
    BY <1>1, <2>1, <2>2 DEF Armed
  <2>5. QED
    BY <1>1, <1>3, <2>2, <2>3, <2>4 DEF IInv
<1> QED BY <1>1, <1>2, <1>3

LEMMA BehindKeeps ==
  ASSUME Limits, IInv, NEW f \in FrameType, EnqueueBehind(f) PROVE IInv'
<1>1. PICK h : h = Append(handed, f)
  OBVIOUS
<1>2. PICK q : q = Append(queue, [id |-> New, off |-> 0])
  OBVIOUS
<1>3. handed \in Seq(FrameType) /\ WireOK(wire, handed) /\ QueueOK(queue, handed) /\ lag \in Nat
      /\ Len(handed) \in Nat /\ Len(handed) < MaxFrames /\ LAG_LIMIT \in Nat
  BY DEF IInv, Types, EnqueueBehind, Hand, Limits
<1>4. /\ h \in Seq(FrameType) /\ Len(h) = Len(handed) + 1
      /\ WireOK(wire, h) /\ Done(wire, h) = Done(wire, handed)
      /\ Counted(wire, h) = Counted(wire, handed)
      /\ \A id \in 1..Len(handed), off \in Nat :
           ReadyFor(wire, handed, id, off) => ReadyFor(wire, h, id, off)
  BY <1>1, <1>3, FrameHanded
<1>5. QueueOK(q, h)
  BY <1>1, <1>2, <1>3, QueueGrows DEF New
<1>6. PICK e : e = [id |-> New, off |-> 0]
  OBVIOUS
<1>7. e \in Entry /\ e.id = Len(handed) + 1
  BY <1>3, <1>6 DEF Entry, New
<1>8. queue \in Seq(Entry) /\ queue # <<>> /\ Len(queue) \in Nat /\ Len(queue) > 0
  BY <1>3 DEF QueueOK, EnqueueBehind
<1>9. /\ Len(q) = Len(queue) + 1 /\ q # <<>> /\ q[Len(queue) + 1] = e
      /\ \A i \in 1..Len(queue) : q[i] = queue[i]
  BY <1>2, <1>6, <1>7, <1>8, AppendProperties
<1>10. Ids(q) = Ids(queue) \cup {Len(handed) + 1}
  <2>1. \A i \in 1..Len(q) : i \in 1..Len(queue) \/ i = Len(queue) + 1
    BY <1>8, <1>9
  <2>2. Len(queue) + 1 \in 1..Len(q) /\ \A i \in 1..Len(queue) : i \in 1..Len(q)
    BY <1>8, <1>9
  <2>3. \A x \in Ids(q) : x \in Ids(queue) \cup {Len(handed) + 1}
    BY <1>7, <1>9, <2>1 DEF Ids
  <2>4. \A x \in Ids(queue) \cup {Len(handed) + 1} : x \in Ids(q)
    BY <1>7, <1>9, <2>2 DEF Ids
  <2>5. QED
    BY <2>3, <2>4
<1>11. open /\ ~busy /\ handed' = h /\ UNCHANGED <<busy, peer, read>> /\ delivered' = delivered
       /\ Settle(wire, q, lag + 1)
  BY <1>1, <1>2 DEF EnqueueBehind, Hand
<1>12. peer => Meets(wire, h, q)
  <2> SUFFICES ASSUME peer PROVE Meets(wire, h, q)
    OBVIOUS
  <2>1. 1 \in 1..Len(queue) /\ q[1] = queue[1]
    BY <1>8, <1>9
  <2>2. queue[1].id \in 1..Len(handed) /\ queue[1].off \in Nat
    <3>1. queue[1] \in Entry
      BY <1>8, <2>1
    <3>2. QED
      BY <1>3, <2>1, <3>1 DEF QueueOK, Entry
  <2>3. ReadyFor(wire, handed, queue[1].id, queue[1].off)
    BY <1>8, <1>11 DEF IInv, Meets
  <2>4. ReadyFor(wire, h, queue[1].id, queue[1].off)
    BY <1>4, <2>2, <2>3
  <2>5. QED
    BY <1>9, <2>1, <2>4 DEF Meets
<1>13. lag + 1 < LAG_LIMIT => Kept(wire, h, q, lag + 1)
  <2> SUFFICES ASSUME lag + 1 < LAG_LIMIT PROVE Kept(wire, h, q, lag + 1)
    OBVIOUS
  <2>1. Kept(wire, handed, queue, lag)
    BY <1>3, <1>11 DEF IInv
  <2>2. 1..Len(h) = (1..Len(handed)) \cup {Len(handed) + 1}
    BY <1>3, <1>4
  <2>3. QED
    BY <1>3, <1>4, <1>8, <1>9, <1>10, <2>1, <2>2 DEF Kept
<1>14. delivered' \in Nat /\ delivered' = Cardinality(Counted(wire, h)) /\ read \in Nat
       /\ read <= Len(wire) /\ Len(wire) - read <= SNDBUF /\ Len(h) <= MaxFrames /\ lag + 1 \in Nat
  BY <1>3, <1>4, <1>11 DEF IInv, Types, Limits
<1> QED BY <1>4, <1>5, <1>9, <1>11, <1>12, <1>13, <1>14, SettleKeeps

LEMMA SendKeeps ==
  ASSUME Limits, IInv, NEW f \in FrameType, EnqueueSend(f) PROVE IInv'
<1>1. PICK h : h = Append(handed, f)
  OBVIOUS
<1>2. handed \in Seq(FrameType) /\ WireOK(wire, handed) /\ wire \in Seq(Byte) /\ lag \in Nat
      /\ Len(handed) \in Nat /\ Len(handed) < MaxFrames /\ LAG_LIMIT \in Nat \ {0}
  BY DEF IInv, Types, EnqueueSend, Hand, Limits, WireOK
<1>3. open /\ peer /\ ~busy /\ queue = <<>> /\ ~draining /\ lag < LAG_LIMIT
  BY <1>2 DEF EnqueueSend, Hand, IInv, Armed
<1>4. AtBoundary(wire, handed) /\ Kept(wire, handed, <<>>, lag)
  BY <1>3 DEF IInv, Meets
<1>5. PICK id \in Nat : id = Len(handed) + 1
  BY <1>2
<1>6. /\ h \in Seq(FrameType) /\ Len(h) = id /\ id \in 1..Len(h) /\ h[id] = f
      /\ WireOK(wire, h) /\ Done(wire, h) = Done(wire, handed)
      /\ Counted(wire, h) = Counted(wire, handed) /\ ReadyFor(wire, h, id, 0)
  BY <1>1, <1>2, <1>4, <1>5, FrameHanded
<1>7. h[id].size \in Nat \ {0} /\ f.size = h[id].size /\ f.counts = h[id].counts
  BY <1>6, FrameSizes
<1>8. PICK n \in Nat : n = Taken(f.size) /\ n <= f.size /\ n <= Free
  BY <1>7, FreeIsKnown, TakenIsBounded
<1>9. PICK v : v = wire \o Bytes(New, 0, n)
  OBVIOUS
<1>10. 0 + n = n /\ 0 \in Nat /\ New = id
  BY <1>5 DEF New
<1>11. Longer(v, wire, id, 0, n)
  BY <1>2, <1>9, <1>10, BytesAppend
<1>12. WireOK(v, h) /\ ReadyFor(v, h, id, n)
  <2>1. WireOK(v, h) /\ ReadyFor(v, h, id, 0 + n)
    BY ZenonT(60), <1>6, <1>7, <1>8, <1>10, <1>11, WireGrows
  <2>2. QED
    BY <1>10, <2>1
<1>13. /\ Done(v, h) = IF n = f.size THEN Done(wire, h) \cup {id} ELSE Done(wire, h)
       /\ Cardinality(Counted(v, h)) =
            Cardinality(Counted(wire, h)) + (IF f.counts /\ n = f.size THEN 1 ELSE 0)
  <2>1. PICK off \in Nat : off = 0
    OBVIOUS
  <2>2. off < h[id].size /\ off + n <= h[id].size /\ off + n = n
    BY <1>7, <1>8, <2>1
  <2>3. ReadyFor(wire, h, id, off) /\ Longer(v, wire, id, off, n)
    BY <1>6, <1>11, <2>1
  <2>4. Done(v, h) = IF off + n = h[id].size THEN Done(wire, h) \cup {id} ELSE Done(wire, h)
    BY ZenonT(60), <1>6, <1>7, <2>2, <2>3, DoneGrows
  <2>5. Cardinality(Counted(v, h)) =
          Cardinality(Counted(wire, h)) + (IF h[id].counts /\ off + n = h[id].size THEN 1 ELSE 0)
    BY <1>6, <1>7, <2>2, <2>3, CountGrows
  <2>6. QED
    BY <1>7, <2>2, <2>4, <2>5
<1>14. Len(v) = Len(wire) + n /\ Len(wire) \in Nat /\ read \in Nat /\ read <= Len(v)
       /\ Len(v) - read <= SNDBUF /\ Len(h) <= MaxFrames
  <2>1. Len(v) = Len(wire) + n /\ Len(wire) \in Nat /\ read \in Nat /\ read <= Len(wire)
    BY <1>2, <1>11 DEF Longer, IInv, Types
  <2>2. SNDBUF \in Nat /\ MaxFrames \in Nat /\ n <= SNDBUF - (Len(wire) - read)
    BY <1>8 DEF Limits, Free
  <2>3. QED
    BY <1>2, <1>5, <1>6, <1>8, <2>1, <2>2
<1>15. delivered' \in Nat /\ delivered' = Cardinality(Counted(v, h))
  <2>1. delivered \in Nat /\ delivered = Cardinality(Counted(wire, h))
    BY <1>6 DEF IInv, Types
  <2>2. delivered' = IF f.counts /\ n = f.size THEN delivered + 1 ELSE delivered
    BY <1>8 DEF EnqueueSend
  <2>3. QED
    BY <1>13, <2>1, <2>2
<1>16. handed' = h /\ UNCHANGED <<busy, peer, read>>
  BY <1>1 DEF EnqueueSend, Hand
<1>17. 1..Len(h) = (1..Len(handed)) \cup {id}
  BY <1>2, <1>5, <1>6
<1>18. CASE n = f.size
  <2>1. Settle(v, <<>>, 0)
    BY <1>8, <1>9, <1>18 DEF EnqueueSend
  <2>2. ReadyFor(v, h, id, h[id].size)
    BY <1>7, <1>12, <1>18
  <2>3. Meets(v, h, <<>>)
    BY <1>7, <1>12, <2>2, Boundary DEF Meets
  <2>4. Kept(v, h, <<>>, 0)
    BY <1>4, <1>6, <1>13, <1>17, <1>18 DEF Kept, Ids
  <2>5. QED
    <3>1. 0 < LAG_LIMIT /\ ~(0 >= LAG_LIMIT) /\ QueueOK(<<>>, h)
      BY <1>2, EmptyQueue
    <3>2. QED
      BY <1>3, <1>6, <1>10, <1>12, <1>14, <1>15, <1>16, <2>1, <2>3, <2>4, <3>1, SettleKeeps
<1>19. CASE n # f.size
  <2>1. PICK q : q = <<[id |-> id, off |-> n]>>
    OBVIOUS
  <2>2. Settle(v, q, lag + 1)
    BY <1>8, <1>9, <1>10, <1>19, <2>1 DEF EnqueueSend
  <2>3. n < h[id].size
    BY <1>7, <1>8, <1>19
  <2>4. QueueOK(q, h) /\ Ids(q) = {id}
    BY <1>6, <2>1, <2>3, QueueOfOne
  <2>5. q # <<>> /\ Len(q) = 1 /\ q[1].id = id /\ q[1].off = n
    BY <2>1
  <2>6. Meets(v, h, q)
    BY <1>12, <2>5 DEF Meets
  <2>7. Kept(v, h, q, lag + 1) /\ lag + 1 \in Nat
    <3>1. 1..Len(h) = Done(v, h) \cup Ids(q)
      BY <1>4, <1>6, <1>13, <1>17, <1>19, <2>4, EmptyQueue DEF Kept
    <3>2. QED
      BY <1>2, <2>5, <3>1 DEF Kept
  <2>8. QED
    BY <1>2, <1>3, <1>6, <1>12, <1>14, <1>15, <1>16, <2>2, <2>4, <2>5, <2>6, <2>7, SettleKeeps
<1> QED BY <1>18, <1>19

LEMMA FailsKeeps ==
  ASSUME Limits, IInv, NEW f \in FrameType, EnqueueFails(f) PROVE IInv'
<1>1. PICK h : h = Append(handed, f)
  OBVIOUS
<1>2. handed \in Seq(FrameType) /\ WireOK(wire, handed) /\ Len(handed) \in Nat
      /\ Len(handed) < MaxFrames /\ LAG_LIMIT \in Nat /\ MaxFrames \in Nat
  BY DEF IInv, Types, EnqueueFails, Hand, Limits
<1>3. ~peer /\ open /\ ~busy /\ queue = <<>> /\ ~draining
  BY DEF EnqueueFails, Hand, Limits, IInv, Armed
<1>4. h \in Seq(FrameType) /\ Len(h) = Len(handed) + 1 /\ WireOK(wire, h)
      /\ Counted(wire, h) = Counted(wire, handed)
  BY <1>1, <1>2, FrameHanded
<1>5. Settle(wire, <<>>, LAG_LIMIT) /\ handed' = h /\ UNCHANGED <<busy, peer, read>>
      /\ delivered' = delivered
  BY <1>1 DEF EnqueueFails, Hand
<1>6. delivered' \in Nat /\ delivered' = Cardinality(Counted(wire, h)) /\ read \in Nat
      /\ read <= Len(wire) /\ Len(wire) - read <= SNDBUF /\ Len(h) <= MaxFrames
  BY <1>2, <1>4, <1>5 DEF IInv, Types
<1>7. ~(LAG_LIMIT < LAG_LIMIT)
  BY <1>2
<1> QED BY <1>2, <1>3, <1>4, <1>5, <1>6, <1>7, EmptyQueue, SettleKeeps

LEMMA DrainSendKeeps == ASSUME Limits, IInv, DrainSend PROVE IInv'
<1>1. PICK h : h = handed
  OBVIOUS
<1>2. PICK e : e = queue[1]
  OBVIOUS
<1>3. h \in Seq(FrameType) /\ WireOK(wire, h) /\ wire \in Seq(Byte) /\ lag \in Nat
      /\ LAG_LIMIT \in Nat \ {0} /\ QueueOK(queue, h)
  BY <1>1 DEF IInv, Types, Limits, WireOK
<1>4. peer /\ busy /\ draining /\ open /\ queue # <<>> /\ lag < LAG_LIMIT
  BY <1>3 DEF DrainSend, IInv, Armed
<1>5. queue \in Seq(Entry) /\ Len(queue) \in Nat /\ Len(queue) > 0 /\ 1 \in 1..Len(queue)
      /\ Head(queue) = e
  BY <1>2, <1>3, <1>4 DEF QueueOK
<1>6. e \in Entry /\ e.id \in 1..Len(h) /\ e.off < h[e.id].size
  BY <1>2, <1>3, <1>5 DEF QueueOK
<1>7. PICK id \in 1..Len(h), off \in Nat : id = e.id /\ off = e.off
  BY <1>6 DEF Entry
<1>8. h[id].size \in Nat \ {0} /\ off < h[id].size /\ id \in Nat
  BY <1>3, <1>6, <1>7, FrameSizes
<1>9. Left(e) = h[id].size - off /\ Left(e) \in Nat
  BY <1>1, <1>7, <1>8 DEF Left
<1>10. PICK n \in Nat : n = Taken(Left(Head(queue))) /\ n <= Left(e) /\ n <= Free
  BY <1>5, <1>9, FreeIsKnown, TakenIsBounded
<1>11. PICK v : v = wire \o Bytes(id, off, off + n)
  OBVIOUS
<1>12. Longer(v, wire, id, off, n)
  BY <1>3, <1>8, <1>11, BytesAppend
<1>13. ReadyFor(wire, h, id, off) /\ Kept(wire, h, queue, lag)
  BY <1>1, <1>2, <1>4, <1>7 DEF IInv, Meets
<1>14. off + n <= h[id].size /\ (n = Left(e) <=> off + n = h[id].size)
  BY <1>8, <1>9, <1>10
<1>15. WireOK(v, h) /\ ReadyFor(v, h, id, off + n)
  BY <1>3, <1>8, <1>12, <1>13, <1>14, WireGrows
<1>16. Done(v, h) = IF off + n = h[id].size THEN Done(wire, h) \cup {id} ELSE Done(wire, h)
  BY ZenonT(60), <1>3, <1>8, <1>12, <1>13, <1>14, DoneGrows
<1>17. Cardinality(Counted(v, h)) =
         Cardinality(Counted(wire, h)) + (IF h[id].counts /\ off + n = h[id].size THEN 1 ELSE 0)
  BY <1>3, <1>8, <1>12, <1>13, <1>14, CountGrows
<1>18. Len(v) = Len(wire) + n /\ Len(wire) \in Nat /\ read \in Nat /\ read <= Len(v)
       /\ Len(v) - read <= SNDBUF
  <2>1. Len(v) = Len(wire) + n /\ Len(wire) \in Nat /\ read \in Nat /\ read <= Len(wire)
    BY <1>3, <1>12 DEF Longer, IInv, Types
  <2>2. SNDBUF \in Nat /\ n <= SNDBUF - (Len(wire) - read)
    BY <1>10 DEF Limits, Free
  <2>3. QED
    BY <2>1, <2>2
<1>19. wire' = v /\ handed' = h /\ open' = open /\ peer' = peer /\ read' = read
  BY <1>1, <1>5, <1>7, <1>10, <1>11 DEF DrainSend
<1>20. delivered \in Nat /\ delivered = Cardinality(Counted(wire, h)) /\ Len(h) <= MaxFrames
  BY <1>1 DEF IInv, Types
<1>21. CASE n < Left(e)
  <2>1. PICK q : q = Cut(queue, n)
    OBVIOUS
  <2>2. queue' = q /\ busy' = FALSE /\ UNCHANGED <<draining, lag, delivered>>
    BY <1>5, <1>10, <1>21, <2>1 DEF DrainSend, Cut
  <2>3. queue[1].off + n < h[queue[1].id].size
    BY <1>2, <1>7, <1>8, <1>9, <1>21
  <2>4. /\ QueueOK(q, h) /\ q # <<>> /\ Len(q) = Len(queue) /\ Ids(q) = Ids(queue)
        /\ q[1].id = id /\ q[1].off = off + n
    <3>1. /\ QueueOK(q, h) /\ q # <<>> /\ Len(q) = Len(queue) /\ Ids(q) = Ids(queue)
          /\ q[1].id = queue[1].id /\ q[1].off = queue[1].off + n
      BY <1>3, <1>4, <2>1, <2>3, HeadAdvances
    <3>2. QED
      BY <1>2, <1>7, <3>1
  <2>5. off + n # h[id].size
    BY <1>9, <1>10, <1>14, <1>21
  <2>6. Kept(v, h, q, lag)
    BY <1>13, <1>16, <2>4, <2>5 DEF Kept
  <2>7. Meets(v, h, q)
    BY <1>15, <2>4 DEF Meets
  <2>8. delivered' = Cardinality(Counted(v, h))
    BY <1>17, <1>20, <2>2, <2>5
  <2>9. Types'
    BY <1>3, <1>18, <1>19, <1>20, <2>2 DEF Types
  <2>10. Armed'
    BY <1>3, <1>4, <1>19, <2>2, <2>4 DEF Armed
  <2>11. QED
    BY <1>15, <1>19, <2>2, <2>4, <2>6, <2>7, <2>8, <2>9, <2>10 DEF IInv
<1>22. CASE n = Left(e)
  <2>1. PICK q : q = Tail(queue)
    OBVIOUS
  <2>2. ~(n < Left(e)) /\ off + n = h[id].size
    BY <1>9, <1>14, <1>22
  <2>3. /\ queue' = q /\ delivered' = delivered + (IF h[id].counts THEN 1 ELSE 0)
        /\ (busy' <=> q # <<>>) /\ (draining' <=> q # <<>>)
        /\ lag' = IF q = <<>> THEN 0 ELSE lag
    BY <1>1, <1>5, <1>7, <1>10, <2>1, <2>2 DEF DrainSend
  <2>4. /\ QueueOK(q, h) /\ Len(q) = Len(queue) - 1 /\ Ids(queue) = Ids(q) \cup {id}
        /\ q # <<>> => q[1].off = 0 /\ q[1].id > id
    BY <1>2, <1>3, <1>4, <1>7, <2>1, QueueShrinks
  <2>5. AtBoundary(v, h) /\ \A x \in Nat : x > id => ReadyFor(v, h, x, 0)
    <3>1. ReadyFor(v, h, id, h[id].size)
      BY <1>15, <2>2
    <3>2. QED
      BY <1>8, <1>15, <3>1, Boundary
  <2>6. Meets(v, h, q)
    <3>1. CASE q = <<>>
      BY <2>5, <3>1 DEF Meets
    <3>2. CASE q # <<>>
      <4>1. q[1].id \in Nat
        <5>1. q \in Seq(Entry) /\ Len(q) > 0
          BY <2>4, <3>2 DEF QueueOK
        <5>2. q[1] \in Entry
          BY <5>1
        <5>3. QED
          BY <5>2 DEF Entry
      <4>2. ReadyFor(v, h, q[1].id, 0)
        BY <2>4, <2>5, <3>2, <4>1
      <4>3. QED
        BY <2>4, <3>2, <4>2 DEF Meets
    <3>3. QED
      BY <3>1, <3>2
  <2>7. 1..Len(h) = Done(v, h) \cup Ids(q)
    BY <1>13, <1>16, <2>2, <2>4 DEF Kept
  <2>8. Kept(v, h, q, lag')
    <3>1. Len(q) <= lag'
      <4>1. CASE q = <<>>
        BY <2>3, <4>1
      <4>2. CASE q # <<>>
        BY <1>3, <1>5, <1>13, <2>3, <2>4, <4>2 DEF Kept
      <4>3. QED
        BY <4>1, <4>2
    <3>2. QED
      BY <2>7, <3>1 DEF Kept
  <2>9. delivered' = Cardinality(Counted(v, h)) /\ delivered' \in Nat
    BY <1>17, <1>20, <2>2, <2>3
  <2>10. lag' \in Nat /\ lag' < LAG_LIMIT
    BY <1>3, <1>4, <2>3
  <2>11. Types'
    BY <1>3, <1>18, <1>19, <1>20, <2>9, <2>10 DEF Types
  <2>12. Armed'
    BY <1>3, <1>4, <1>19, <2>3, <2>10 DEF Armed
  <2>13. QED
    BY <1>15, <1>19, <2>3, <2>4, <2>6, <2>8, <2>9, <2>11, <2>12 DEF IInv
<1> QED BY <1>9, <1>10, <1>21, <1>22

-----------------------------------------------------------------------------
(* Steps that put nothing on the wire.                                     *)

LEMMA SilentKeeps ==
  ASSUME Limits, IInv, DrainBegins \/ DrainBlocked \/ DrainFails \/ CloseSilently \/ PeerReads \/ PeerGone
  PROVE  IInv'
<1>1. wire' = wire /\ handed' = handed /\ delivered' = delivered
  BY DEF DrainBegins, DrainBlocked, DrainFails, CloseSilently, PeerReads, PeerGone, subVars
<1>2. LAG_LIMIT \in Nat
  BY DEF Limits
<1>3. Len(wire) \in Nat
  BY DEF IInv, WireOK
<1>4. CASE DrainBegins \/ DrainBlocked \/ PeerGone
  <2>1. UNCHANGED subVars /\ wire' = wire /\ read' = read /\ (peer' => peer) /\ (busy' => busy \/ draining)
    BY <1>4 DEF DrainBegins, DrainBlocked, PeerGone, subVars
  <2>2. Types'
    BY <2>1 DEF IInv, Types, subVars
  <2>3. Armed'
    BY <2>1 DEF IInv, Armed, subVars
  <2>4. QED
    BY <2>1, <2>2, <2>3 DEF IInv, subVars
<1>5. CASE DrainFails
  <2>1. queue' = <<>> /\ lag' = LAG_LIMIT /\ draining' = FALSE /\ busy' = FALSE /\ ~peer'
        /\ read' = read /\ open' = open
    BY <1>5 DEF DrainFails, Limits
  <2>2. Types'
    BY <1>1, <1>2, <2>1 DEF IInv, Types
  <2>3. Armed'
    BY <2>1 DEF Armed
  <2>4. ~(lag' < LAG_LIMIT)
    BY <1>2, <2>1
  <2>5. QED
    BY <1>1, <2>1, <2>2, <2>3, <2>4, EmptyQueue DEF IInv
<1>6. CASE CloseSilently
  <2>1. queue' = <<>> /\ draining' = FALSE /\ busy' = busy /\ ~busy /\ lag' = lag
        /\ read' = read /\ open' = FALSE
    BY <1>6 DEF CloseSilently
  <2>2. Types'
    BY <1>1, <2>1 DEF IInv, Types
  <2>3. Armed'
    BY <2>1 DEF Armed
  <2>4. QED
    BY <1>1, <2>1, <2>2, <2>3, EmptyQueue DEF IInv
<1>7. CASE PeerReads
  <2>1. UNCHANGED subVars /\ busy' = busy /\ peer' = peer /\ read' = read + 1 /\ read < Len(wire)
    BY <1>7 DEF PeerReads
  <2>2. Types'
    BY <1>1, <1>3, <2>1 DEF IInv, Types, subVars, Limits
  <2>3. Armed'
    BY <2>1 DEF IInv, Armed, subVars
  <2>4. QED
    BY <1>1, <2>1, <2>2, <2>3 DEF IInv, subVars
<1> QED BY <1>4, <1>5, <1>6, <1>7

LEMMA StepKeepsIInv == Limits /\ IInv /\ [TxNext]_txVars => IInv'
<1> SUFFICES ASSUME Limits, IInv, [TxNext]_txVars PROVE IInv'
  OBVIOUS
<1>1. CASE UNCHANGED txVars
  BY <1>1 DEF txVars, IInv, Types, Armed
<1>2. CASE TxNext
  BY <1>2, BehindKeeps, SendKeeps, FailsKeeps, DrainSendKeeps, SilentKeeps DEF TxNext, Enqueue, DrainNext
<1> QED BY <1>1, <1>2

(* For any frame lengths, kernel buffer and lag limit, wherever a send     *)
(* stops short and whenever the peer goes: the wire is whole frames in     *)
(* order, the delivered counter is the number of event frames on it, and   *)
(* until a send fails no frame is lost (Subscriber.enqueue, _drain).       *)
THEOREM WireIsAlwaysExact == Limits => (TxSpec => []WireIsExact)
<1> SUFFICES ASSUME Limits PROVE TxSpec => []WireIsExact
  OBVIOUS
<1>1. TxInit => IInv
  BY InitIInv
<1>2. IInv /\ [TxNext]_txVars => IInv'
  BY StepKeepsIInv
<1>3. IInv => WireIsExact
  BY Consequences
<1>4. QED
  BY <1>1, <1>2, <1>3, PTL DEF TxSpec

-----------------------------------------------------------------------------
(* The subscriber as a channel of frames.                                  *)

QIds(q) == [i \in DOMAIN q |-> q[i].id]
chanOut == InNumberOrder(Through) \o QIds(queue)
chanSent == Cardinality(Through)

UpTo(S, x) == {y \in S : y <= x}

(* The k-th of a finite set of numbers is the one with k up to it.         *)
LEMMA Ranks ==
  ASSUME NEW S \in SUBSET Nat, IsFiniteSet(S)
  PROVE  /\ Cardinality(S) \in Nat
         /\ \A x \in S : Cardinality(UpTo(S, x)) \in 1 .. Cardinality(S)
         /\ \A x, y \in S : Cardinality(UpTo(S, x)) = Cardinality(UpTo(S, y)) => x = y
         /\ \A k \in 1 .. Cardinality(S) : \E x \in S : Cardinality(UpTo(S, x)) = k
<1> DEFINE n == Cardinality(S)
           rank == [x \in S |-> Cardinality(UpTo(S, x))]
<1>0. n \in Nat
  BY FS_CardinalityType
<1>1. ASSUME NEW x \in S
      PROVE  UpTo(S, x) \in SUBSET S /\ IsFiniteSet(UpTo(S, x)) /\ x \in UpTo(S, x)
  <2>1. UpTo(S, x) \in SUBSET S /\ x \in UpTo(S, x)
    BY DEF UpTo
  <2> QED BY <2>1, FS_Subset
<1>2. ASSUME NEW x \in S PROVE rank[x] \in 1 .. n
  <2>1. Cardinality(UpTo(S, x)) \in Nat /\ Cardinality(UpTo(S, x)) <= n
    BY <1>1, FS_Subset, FS_CardinalityType
  <2>2. Cardinality(UpTo(S, x)) # 0
    BY <1>1, FS_EmptySet
  <2> QED BY <2>1, <2>2, <1>0
<1>3. ASSUME NEW x \in S, NEW y \in S, x < y PROVE rank[x] # rank[y]
  <2>0. x \in Nat /\ y \in Nat /\ \A z \in S : z \in Nat
    OBVIOUS
  <2>1. UpTo(S, x) \in SUBSET UpTo(S, y) /\ y \notin UpTo(S, x)
    <3>1. ASSUME NEW z \in S, z <= x PROVE z <= y
      BY <2>0, <1>3, <3>1
    <3>2. ~ (y <= x)
      BY <2>0, <1>3
    <3> QED BY <3>1, <3>2 DEF UpTo
  <2>2. IsFiniteSet(UpTo(S, y)) /\ y \in UpTo(S, y)
    BY <1>1
  <2> QED BY <2>1, <2>2, FS_Subset
<1> HIDE DEF rank
<1>4. ASSUME NEW x \in S, NEW y \in S, rank[x] = rank[y] PROVE x = y
  <2>1. x < y \/ y < x \/ x = y
    OBVIOUS
  <2> QED BY <2>1, <1>3, <1>4
<1>5. rank \in Injection(S, 1 .. n)
  <2>1. rank \in [S -> 1 .. n]
    BY <1>2 DEF rank
  <2> QED BY <2>1, <1>4 DEF Injection, IsInjective
<1>6. IsFiniteSet(1 .. n) /\ Cardinality(1 .. n) = n
  BY <1>0, FS_Interval
<1>7. rank \in Surjection(S, 1 .. n)
  BY <1>5, <1>6, FS_Injection
<1>8. \A k \in 1 .. n : \E x \in S : rank[x] = k
  BY <1>7 DEF Surjection
<1>9. \A x \in S : rank[x] = Cardinality(UpTo(S, x))
  BY DEF rank
<1> QED BY <1>0, <1>2, <1>4, <1>8, <1>9

(* So a finite set of numbers in number order is a sequence as long.       *)
LEMMA NumberOrder ==
  ASSUME NEW S \in SUBSET Nat, IsFiniteSet(S)
  PROVE  InNumberOrder(S) \in Seq(Nat) /\ Len(InNumberOrder(S)) = Cardinality(S)
<1>0. Cardinality(S) \in Nat
  BY FS_CardinalityType
<1>1. ASSUME NEW k \in 1 .. Cardinality(S)
      PROVE  (CHOOSE x \in S : Cardinality({y \in S : y <= x}) = k) \in Nat
  <2>1. \E x \in S : Cardinality({y \in S : y <= x}) = k
    BY Ranks DEF UpTo
  <2> QED BY <2>1
<1>2. InNumberOrder(S) \in [1 .. Cardinality(S) -> Nat]
  BY <1>1 DEF InNumberOrder
<1>3. InNumberOrder(S) \in Seq(Nat)
  BY <1>0, <1>2, SeqDef
<1>4. DOMAIN InNumberOrder(S) = 1 .. Cardinality(S)
  BY DEF InNumberOrder
<1> QED BY <1>0, <1>3, <1>4, LenProperties

(* A number above all others goes to its end.                              *)
LEMMA NumberOrderGrows ==
  ASSUME NEW S \in SUBSET Nat, IsFiniteSet(S), NEW x \in Nat, \A y \in S : y < x
  PROVE  /\ Cardinality(S \cup {x}) = Cardinality(S) + 1
         /\ InNumberOrder(S \cup {x}) = Append(InNumberOrder(S), x)
<1> DEFINE R == S \cup {x}
           n == Cardinality(S)
<1>1. x \notin S /\ n \in Nat
  BY FS_CardinalityType
<1>2. R \in SUBSET Nat /\ IsFiniteSet(R) /\ Cardinality(R) = n + 1
  BY <1>1, FS_AddElement
<1>3. \A y \in S : UpTo(R, y) = UpTo(S, y)
  BY DEF UpTo
<1>4. UpTo(R, x) = R
  <2>1. \A y \in R : y <= x
    <3>1. \A y \in S : y \in Nat /\ y < x
      OBVIOUS
    <3> QED BY <3>1
  <2> QED BY <2>1 DEF UpTo
<1> HIDE DEF R, n
<1>5. /\ InNumberOrder(S) \in Seq(Nat) /\ Len(InNumberOrder(S)) = n
      /\ InNumberOrder(R) \in Seq(Nat) /\ Len(InNumberOrder(R)) = n + 1
  BY <1>2, NumberOrder DEF n
<1>6. ASSUME NEW k \in 1 .. n
      PROVE  InNumberOrder(R)[k] = InNumberOrder(S)[k]
  <2>1. PICK s \in S : Cardinality(UpTo(S, s)) = k
    BY Ranks DEF n
  <2>2. s \in R /\ Cardinality(UpTo(R, s)) = k
    BY <2>1, <1>3 DEF R
  <2>3. (CHOOSE y \in S : Cardinality({z \in S : z <= y}) = k) = s
    <3>1. \A y \in S : Cardinality({z \in S : z <= y}) = k => y = s
      BY <2>1, Ranks DEF UpTo
    <3> QED BY <2>1, <3>1 DEF UpTo
  <2>4. (CHOOSE y \in R : Cardinality({z \in R : z <= y}) = k) = s
    <3>1. \A y \in R : Cardinality({z \in R : z <= y}) = k => y = s
      BY <2>2, <1>2, Ranks DEF UpTo
    <3> QED BY <2>2, <3>1 DEF UpTo
  <2>5. k \in 1 .. Cardinality(S) /\ k \in 1 .. Cardinality(R)
    BY <1>1, <1>2 DEF n
  <2> QED BY <2>3, <2>4, <2>5 DEF InNumberOrder
<1>7. InNumberOrder(R)[n + 1] = x
  <2>1. x \in R /\ Cardinality(UpTo(R, x)) = n + 1
    BY <1>2, <1>4 DEF R
  <2>2. \A y \in R : Cardinality({z \in R : z <= y}) = n + 1 => y = x
    BY <2>1, <1>2, Ranks DEF UpTo
  <2>3. (CHOOSE y \in R : Cardinality({z \in R : z <= y}) = n + 1) = x
    BY <2>1, <2>2 DEF UpTo
  <2>4. n + 1 \in 1 .. Cardinality(R)
    BY <1>1, <1>2
  <2> QED BY <2>3, <2>4 DEF InNumberOrder
<1>8. /\ Append(InNumberOrder(S), x) \in Seq(Nat) /\ Len(Append(InNumberOrder(S), x)) = n + 1
      /\ \A k \in 1 .. n : Append(InNumberOrder(S), x)[k] = InNumberOrder(S)[k]
      /\ Append(InNumberOrder(S), x)[n + 1] = x
  BY <1>5, AppendProperties
<1>9. \A k \in 1 .. n + 1 : k \in 1 .. n \/ k = n + 1
  BY <1>1
<1>10. \A k \in 1 .. n + 1 : InNumberOrder(R)[k] = Append(InNumberOrder(S), x)[k]
  BY <1>6, <1>7, <1>8, <1>9
<1>11. InNumberOrder(R) = Append(InNumberOrder(S), x)
  BY <1>5, <1>8, <1>10, SeqEqual
<1> QED BY <1>2, <1>11 DEF R, n

-----------------------------------------------------------------------------
(* The numbers that wait.                                                  *)

LEMMA WaitingIds ==
  ASSUME NEW q \in Seq(Entry)
  PROVE  /\ QIds(q) \in Seq(Nat) /\ Len(QIds(q)) = Len(q)
         /\ \A i \in 1 .. Len(q) : QIds(q)[i] = q[i].id
<1>0. Len(q) \in Nat /\ DOMAIN q = 1 .. Len(q) /\ \A i \in 1 .. Len(q) : q[i] \in Entry
  BY LenProperties
<1>1. Len(q) \in Nat /\ DOMAIN q = 1 .. Len(q) /\ \A i \in 1 .. Len(q) : q[i].id \in Nat
  BY <1>0 DEF Entry
<1>2. QIds(q) \in [1 .. Len(q) -> Nat]
  BY <1>1 DEF QIds
<1>3. QIds(q) \in Seq(Nat)
  BY <1>1, <1>2, SeqDef
<1>4. DOMAIN QIds(q) = 1 .. Len(q)
  BY <1>1 DEF QIds
<1>5. Len(QIds(q)) = Len(q)
  BY <1>1, <1>3, <1>4, LenProperties
<1> QED BY <1>1, <1>3, <1>5 DEF QIds

(* Behind the last.                                                        *)
LEMMA OutGrows ==
  ASSUME NEW s \in Seq(Nat), NEW q \in Seq(Entry), NEW e \in Entry
  PROVE  s \o QIds(Append(q, e)) = Append(s \o QIds(q), e.id)
<1> DEFINE p == Append(q, e)
           t == QIds(q)
           u == QIds(p)
           x == e.id
<1>1. x \in Nat /\ Len(q) \in Nat
  BY LenProperties DEF Entry
<1>2. p \in Seq(Entry) /\ Len(p) = Len(q) + 1 /\ p[Len(q) + 1] = e /\ \A i \in 1 .. Len(q) : p[i] = q[i]
  BY AppendProperties
<1> HIDE DEF p
<1>3. /\ u \in Seq(Nat) /\ Len(u) = Len(q) + 1 /\ \A i \in 1 .. Len(q) + 1 : u[i] = p[i].id
      /\ t \in Seq(Nat) /\ Len(t) = Len(q) /\ \A i \in 1 .. Len(q) : t[i] = q[i].id
  BY <1>2, WaitingIds
<1> HIDE DEF t, u, x
<1>4. /\ Append(t, x) \in Seq(Nat) /\ Len(Append(t, x)) = Len(q) + 1
      /\ \A i \in 1 .. Len(q) : Append(t, x)[i] = t[i]
      /\ Append(t, x)[Len(q) + 1] = x
  BY <1>1, <1>3, AppendProperties
<1>5. ASSUME NEW i \in 1 .. Len(q) + 1 PROVE u[i] = Append(t, x)[i]
  <2>1. CASE i \in 1 .. Len(q)
    BY <2>1, <1>1, <1>2, <1>3, <1>4
  <2>2. CASE i = Len(q) + 1
    <3>1. u[i] = p[i].id /\ p[i] = e
      BY <2>2, <1>2, <1>3
    <3>2. Append(t, x)[i] = x
      BY <2>2, <1>4
    <3> QED BY <3>1, <3>2 DEF x
  <2>3. i \in 1 .. Len(q) \/ i = Len(q) + 1
    BY <1>1
  <2> QED BY <2>1, <2>2, <2>3
<1>6. u = Append(t, x)
  BY <1>3, <1>4, <1>5, SeqEqual
<1>7. u = t \o <<x>> /\ <<x>> \in Seq(Nat)
  BY <1>1, <1>3, <1>6, AppendIsConcat
<1>8. s \o u = (s \o t) \o <<x>>
  BY SMTT(20), <1>3, <1>7, ConcatAssociative
<1>9. s \o t \in Seq(Nat)
  BY <1>3, ConcatProperties
<1>10. s \o u = Append(s \o t, x)
  BY <1>1, <1>8, <1>9, AppendIsConcat
<1> QED BY <1>10 DEF t, u, x, p

(* From the head of the queue to the end of what is through.               *)
LEMMA OutMoves ==
  ASSUME NEW s \in Seq(Nat), NEW q \in Seq(Entry), q # <<>>
  PROVE  Append(s, q[1].id) \o QIds(Tail(q)) = s \o QIds(q)
<1> DEFINE p == Tail(q)
           t == QIds(q)
           u == QIds(p)
           x == q[1].id
           n == Len(q)
<1>1. n \in Nat \ {0} /\ x \in Nat
  <2>1. n \in Nat \ {0}
    BY LenProperties, EmptySeq
  <2>2. q[1] \in Entry
    BY <2>1, LenProperties
  <2> QED BY <2>1, <2>2 DEF Entry
<1>2. p \in Seq(Entry) /\ Len(p) = n - 1 /\ \A i \in 1 .. n - 1 : p[i] = q[i + 1]
  BY HeadTailProperties
<1> HIDE DEF p
<1>3. /\ u \in Seq(Nat) /\ Len(u) = n - 1 /\ \A i \in 1 .. n - 1 : u[i] = p[i].id
      /\ t \in Seq(Nat) /\ Len(t) = n /\ \A i \in 1 .. n : t[i] = q[i].id
  BY <1>2, WaitingIds
<1> HIDE DEF t, u, x
<1>4. t # <<>> /\ t[1] = x
  BY <1>1, <1>3, EmptySeq DEF x
<1>5. Tail(t) \in Seq(Nat) /\ Len(Tail(t)) = n - 1 /\ \A i \in 1 .. n - 1 : Tail(t)[i] = t[i + 1]
  BY <1>3, <1>4, HeadTailProperties
<1>6. ASSUME NEW i \in 1 .. n - 1 PROVE u[i] = Tail(t)[i]
  <2>1. i + 1 \in 1 .. n
    BY <1>1
  <2> QED BY <2>1, <1>2, <1>3, <1>5
<1>7. u = Tail(t)
  BY <1>3, <1>5, <1>6, SeqEqual
<1>8. t = <<x>> \o u
  <2>1. SubSeq(t, 1, n) = t
    BY <1>3, SubSeqFull
  <2>2. Tail(t) = SubSeq(t, 2, n)
    BY <1>3, <1>4, TailIsSubSeq
  <2>3. SubSeq(t, 1, n) = <<t[1]>> \o SubSeq(t, 1 + 1, n)
    <3>1. 1 \in 1 .. Len(t) /\ n \in 1 .. Len(t)
      BY <1>1, <1>3
    <3> QED BY <3>1, <1>3, SubSeqRecursiveFirst
  <2> QED BY <2>1, <2>2, <2>3, <1>4, <1>7
<1>9. <<x>> \in Seq(Nat) /\ Append(s, x) = s \o <<x>>
  BY <1>1, AppendIsConcat
<1>10. Append(s, x) \o u = s \o t
  BY <1>3, <1>8, <1>9, ConcatAssociative
<1> QED BY <1>10 DEF t, u, x, p

-----------------------------------------------------------------------------
(* What the subscriber shows as a channel: whole frames through, then the  *)
(* frames that wait.                                                       *)
LEMMA ChannelIs ==
  ASSUME Limits, IInv
  PROVE  /\ Through = Done(wire, handed) /\ Through \in SUBSET (1 .. Len(handed)) /\ IsFiniteSet(Through)
         /\ Len(handed) \in Nat /\ handed \in Seq(FrameType)
         /\ chanSent \in Nat /\ InNumberOrder(Through) \in Seq(Nat) /\ Len(InNumberOrder(Through)) = chanSent
         /\ queue \in Seq(Entry) /\ Len(queue) \in Nat
         /\ chanOut \in Seq(Nat) /\ Len(chanOut) = chanSent + Len(queue)
         /\ SubSeq(chanOut, 1, chanSent) = InNumberOrder(Through)
         /\ queue = <<>> => chanOut = InNumberOrder(Through)
<1>1. handed \in Seq(FrameType) /\ Len(handed) \in Nat /\ DOMAIN handed = 1 .. Len(handed)
  BY LenProperties DEF IInv, Types
<1>2. wire \in Seq(Byte) /\ DOMAIN wire = 1 .. Len(wire)
  BY LenProperties DEF IInv, WireOK
<1>3. queue \in Seq(Entry) /\ Len(queue) \in Nat
  BY LenProperties DEF IInv, QueueOK
<1>4. Through = Done(wire, handed)
  BY <1>1, <1>2 DEF Through, Done
<1>5. Through \in SUBSET (1 .. Len(handed)) /\ Through \in SUBSET Nat
  BY <1>1 DEF Through
<1>6. IsFiniteSet(Through)
  <2>1. IsFiniteSet(1 .. Len(handed))
    BY <1>1, FS_Interval
  <2> QED BY <2>1, <1>5, FS_Subset
<1> DEFINE s == InNumberOrder(Through)
           t == QIds(queue)
<1>7. chanSent \in Nat /\ s \in Seq(Nat) /\ Len(s) = chanSent
  BY <1>5, <1>6, NumberOrder, FS_CardinalityType DEF chanSent
<1>8. t \in Seq(Nat) /\ Len(t) = Len(queue)
  BY <1>3, WaitingIds
<1>9. queue = <<>> => t = <<>>
  BY <1>8, EmptySeq
<1>10. chanOut = s \o t
  BY DEF chanOut
<1> HIDE DEF s, t
<1>11. chanOut \in Seq(Nat) /\ Len(chanOut) = chanSent + Len(queue)
  <2>1. s \o t \in Seq(Nat) /\ Len(s \o t) = Len(s) + Len(t)
    BY <1>7, <1>8, ConcatProperties
  <2> QED BY <2>1, <1>7, <1>8, <1>10
<1>12. SubSeq(chanOut, 1, chanSent) = s
  <2>1. CASE chanSent = 0
    <3>1. s = <<>>
      BY <2>1, <1>7, EmptySeq
    <3>2. SubSeq(chanOut, 1, chanSent) = <<>>
      BY <2>1, SubSeqEmpty
    <3> QED BY <3>1, <3>2
  <2>2. CASE chanSent # 0
    <3>1. 1 \in 1 .. Len(s) /\ chanSent \in 1 .. Len(s)
      BY <2>2, <1>7
    <3>2. SubSeq(s \o t, 1, chanSent) = SubSeq(s, 1, chanSent)
      BY <3>1, <1>7, <1>8, SubSeqOfConcat1
    <3>3. SubSeq(s, 1, Len(s)) = s
      BY <1>7, SubSeqFull
    <3> QED BY <3>2, <3>3, <1>7, <1>10
  <2> QED BY <2>1, <2>2
<1>13. queue = <<>> => chanOut = s
  BY <1>7, <1>9, <1>10, ConcatEmptySeq
<1> QED BY <1>1, <1>3, <1>4, <1>5, <1>6, <1>7, <1>11, <1>12, <1>13 DEF s

(* The steps of the channel, in the variables of the subscriber.           *)
LEMMA PassIs ==
  ASSUME NEW f, open, open' = open, chanSent = Len(chanOut),
         chanOut' = Append(chanOut, f), chanSent' = chanSent + 1, lag' = 0
  PROVE  Channel!Pass(f)
BY DEF Channel!Pass, chanOut, chanSent, QIds

LEMMA WaitIs ==
  ASSUME NEW f, open, open' = open, lag + 1 < LAG_LIMIT,
         chanOut' = Append(chanOut, f), lag' = lag + 1, chanSent' = chanSent
  PROVE  Channel!Wait(f)
BY DEF Channel!Wait, chanOut, chanSent, QIds

LEMMA FlushIs ==
  ASSUME open, open' = open, chanSent < Len(chanOut), chanSent' = chanSent + 1, chanOut' = chanOut,
         lag' = IF chanSent + 1 = Len(chanOut) THEN 0 ELSE lag
  PROVE  Channel!Flush
BY DEF Channel!Flush, chanOut, chanSent, QIds

LEMMA FailIs ==
  ASSUME open, open' = open, chanSent < Len(chanOut), chanSent' = chanSent,
         chanOut' = SubSeq(chanOut, 1, chanSent), lag' = LAG_LIMIT
  PROVE  Channel!Fail
BY DEF Channel!Fail, chanOut, chanSent, QIds

LEMMA CloseIs ==
  ASSUME open, open' = FALSE, chanSent' = chanSent,
         chanOut' = SubSeq(chanOut, 1, chanSent), lag' \in {lag, LAG_LIMIT}
  PROVE  Channel!Close
BY DEF Channel!Close, chanOut, chanSent, QIds

LEMMA StutterIs ==
  ASSUME chanOut' = chanOut, chanSent' = chanSent, lag' = lag, open' = open
  PROVE  UNCHANGED Channel!chanVars
BY DEF Channel!chanVars, chanOut, chanSent, QIds

(* Through, before and after a step, is what is whole on the wire.         *)
LEMMA ThroughIs ==
  ASSUME IInv, IInv'
  PROVE  Through = Done(wire, handed) /\ Through' = Done(wire', handed')
<1>1. /\ handed \in Seq(FrameType) /\ handed' \in Seq(FrameType)
      /\ wire \in Seq(Byte) /\ wire' \in Seq(Byte)
  BY DEF IInv, Types, WireOK
<1>2. /\ DOMAIN handed = 1 .. Len(handed) /\ DOMAIN handed' = 1 .. Len(handed')
      /\ DOMAIN wire = 1 .. Len(wire) /\ DOMAIN wire' = 1 .. Len(wire')
  BY <1>1, LenProperties
<1> QED BY <1>2 DEF Through, Done

(* Where nothing gets through and the queue is discarded, its frames are.  *)
LEMMA Discards ==
  ASSUME Limits, IInv, IInv', Through' = Through, queue' = <<>>
  PROVE  chanOut' = SubSeq(chanOut, 1, chanSent) /\ chanSent' = chanSent
<1>1. SubSeq(chanOut, 1, chanSent) = InNumberOrder(Through)
  BY ChannelIs
<1>2. chanOut' = InNumberOrder(Through) \o QIds(<<>>)
  BY DEF chanOut
<1>3. QIds(<<>>) = <<>>
  BY EmptySeq, WaitingIds
<1>4. InNumberOrder(Through) \in Seq(Nat)
  BY ChannelIs
<1>5. chanOut' = InNumberOrder(Through)
  BY <1>2, <1>3, <1>4, ConcatEmptySeq
<1> QED BY <1>1, <1>5 DEF chanSent

(* What Settle leaves, with the same frames through.                       *)
LEMMA SettleIs ==
  ASSUME Limits, NEW w, NEW q, NEW l \in Nat, Settle(w, q, l)
  PROVE  /\ lag' = l
         /\ l >= LAG_LIMIT => open' = FALSE /\ queue' = <<>> /\ (q # <<>> \/ ~peer => wire' = w)
         /\ l < LAG_LIMIT => open' = open /\ queue' = q /\ wire' = w
<1>1. LAG_LIMIT \in Nat
  BY DEF Limits
<1>2. CASE l >= LAG_LIMIT
  BY <1>1, <1>2 DEF Settle, CloseSubscriber
<1>3. CASE ~ (l >= LAG_LIMIT)
  BY <1>1, <1>3 DEF Settle
<1> QED BY <1>1, <1>2, <1>3

(* What waits in an open subscriber waits below the limit.                 *)
Waits == open /\ queue # <<>> => lag < LAG_LIMIT

LEMMA WaitsKeeps ==
  ASSUME Limits, IInv, Waits, [TxNext]_txVars
  PROVE  Waits'
<1>1. lag \in Nat /\ LAG_LIMIT \in Nat \ {0} /\ lag + 1 \in Nat
  BY DEF IInv, Types, Limits
<1>2. ASSUME NEW f \in FrameType, Enqueue(f) PROVE Waits'
  <2>1. ASSUME NEW w, NEW q, NEW l \in Nat, Settle(w, q, l) PROVE Waits'
    <3>1. /\ lag' = l
          /\ l >= LAG_LIMIT => open' = FALSE
      BY <2>1, SettleIs
    <3>2. l >= LAG_LIMIT \/ l < LAG_LIMIT
      BY <1>1
    <3> QED BY <3>1, <3>2 DEF Waits
  <2>2. CASE EnqueueBehind(f)
    BY <1>1, <2>1, <2>2 DEF EnqueueBehind
  <2>3. CASE EnqueueFails(f)
    BY <1>1, <2>1, <2>3 DEF EnqueueFails
  <2>4. CASE EnqueueSend(f)
    <3>1. CASE Taken(f.size) = f.size
      BY <1>1, <2>1, <2>4, <3>1 DEF EnqueueSend
    <3>2. CASE Taken(f.size) # f.size
      BY <1>1, <2>1, <2>4, <3>2 DEF EnqueueSend
    <3> QED BY <3>1, <3>2
  <2> QED BY <1>2, <2>2, <2>3, <2>4 DEF Enqueue
<1>3. CASE DrainSend
  <2>1. queue # <<>> /\ open /\ lag < LAG_LIMIT
    BY <1>1, <1>3 DEF DrainSend, IInv, Armed, Waits
  <2>2. lag' \in {0, lag}
    BY <1>3 DEF DrainSend
  <2> QED BY <1>1, <2>1, <2>2 DEF Waits
<1>4. CASE DrainFails \/ CloseSilently
  BY <1>4 DEF DrainFails, CloseSilently, Waits
<1>5. CASE DrainBegins \/ DrainBlocked \/ PeerReads \/ PeerGone \/ UNCHANGED txVars
  <2>1. UNCHANGED <<open, queue, lag>>
    BY <1>5 DEF DrainBegins, DrainBlocked, PeerReads, PeerGone, subVars, txVars
  <2> QED BY <2>1 DEF Waits
<1> QED BY <1>2, <1>3, <1>4, <1>5 DEF TxNext, DrainNext

(* A frame behind others waits, or evicts the subscriber.                  *)
LEMMA BehindIsAStep ==
  ASSUME Limits, IInv, IInv', Waits, NEW f \in FrameType, EnqueueBehind(f)
  PROVE  Channel!ChannelNext
<1> DEFINE h == Append(handed, f)
           e == [id |-> New, off |-> 0]
           q == Append(queue, e)
<1>1. /\ handed \in Seq(FrameType) /\ Len(handed) \in Nat /\ lag \in Nat /\ WireOK(wire, handed)
      /\ Len(handed) < MaxFrames /\ MaxFrames \in Nat /\ LAG_LIMIT \in Nat \ {0}
      /\ open /\ queue # <<>> /\ lag < LAG_LIMIT /\ handed' = h /\ Settle(wire, q, lag + 1)
  BY LenProperties DEF IInv, Waits, Types, Limits, EnqueueBehind, Hand
<1>13. PICK id \in 1 .. MaxFrames : id = New
  BY <1>1 DEF New
<1>2. e \in Entry /\ e.id = id
  BY <1>1, <1>13 DEF New, Entry
<1>3. queue \in Seq(Entry) /\ InNumberOrder(Through) \in Seq(Nat)
  BY ChannelIs
<1>4. q # <<>>
  BY <1>2, <1>3, AppendProperties
<1>5. Done(wire, h) = Done(wire, handed)
  BY <1>1, FrameHanded
<1> HIDE DEF h, e, q
<1>0. lag + 1 \in Nat
  BY <1>1
<1>6. /\ lag' = lag + 1
      /\ lag + 1 >= LAG_LIMIT => open' = FALSE /\ queue' = <<>> /\ wire' = wire
      /\ lag + 1 < LAG_LIMIT => open' = open /\ queue' = q /\ wire' = wire
  BY <1>0, <1>1, <1>4, SettleIs
<1>12. lag + 1 < LAG_LIMIT \/ lag + 1 >= LAG_LIMIT
  BY <1>0, <1>1
<1>7. wire' = wire
  BY <1>6, <1>12
<1>8. Through' = Through
  BY <1>1, <1>5, <1>7, ThroughIs
<1>9. chanSent' = chanSent
  BY <1>8 DEF chanSent
<1>10. CASE lag + 1 < LAG_LIMIT
  <2>1. chanOut' = Append(chanOut, id)
    BY <1>2, <1>3, <1>6, <1>8, <1>10, OutGrows DEF chanOut, q
  <2>0. open' = open /\ lag' = lag + 1 /\ open
    BY <1>1, <1>6, <1>10
  <2>2. Channel!Wait(id)
    BY <2>0, <2>1, <1>9, <1>10, WaitIs
  <2>3. \E ff \in 1 .. MaxFrames : Channel!Pass(ff) \/ Channel!Wait(ff)
    BY <2>2
  <2> QED BY <2>3 DEF Channel!ChannelNext
<1>11. CASE lag + 1 >= LAG_LIMIT
  <2>1. chanOut' = SubSeq(chanOut, 1, chanSent)
    BY <1>6, <1>8, <1>11, Discards
  <2>0. open' = FALSE /\ lag' \in {lag, LAG_LIMIT} /\ open
    BY <1>1, <1>6, <1>11
  <2>2. Channel!Close
    BY <2>0, <2>1, <1>9, <1>11, CloseIs
  <2> QED BY <2>2 DEF Channel!ChannelNext
<1> QED BY <1>1, <1>10, <1>11

(* A frame sent at once passes whole, or its rest waits, or evicts.        *)
LEMMA SendIsAStep ==
  ASSUME Limits, IInv, IInv', NEW f \in FrameType, EnqueueSend(f)
  PROVE  Channel!ChannelNext
<1> DEFINE n == Taken(f.size)
           v == wire \o Bytes(New, 0, n)
           h == Append(handed, f)
<1>1. /\ handed \in Seq(FrameType) /\ Len(handed) \in Nat /\ lag \in Nat
      /\ WireOK(wire, handed) /\ wire \in Seq(Byte)
      /\ Len(handed) < MaxFrames /\ MaxFrames \in Nat /\ LAG_LIMIT \in Nat \ {0}
      /\ open /\ peer /\ queue = <<>> /\ handed' = h /\ lag < LAG_LIMIT
      /\ AtBoundary(wire, handed)
  <2>1. handed \in Seq(FrameType) /\ WireOK(wire, handed) /\ wire \in Seq(Byte) /\ lag \in Nat
        /\ Len(handed) \in Nat /\ Len(handed) < MaxFrames /\ LAG_LIMIT \in Nat \ {0} /\ MaxFrames \in Nat
    BY SMTT(20) DEF IInv, Types, EnqueueSend, Hand, Limits, WireOK
  <2>2. open /\ peer /\ ~busy /\ queue = <<>> /\ ~draining /\ lag < LAG_LIMIT
    BY <2>1 DEF EnqueueSend, Hand, IInv, Armed
  <2>3. AtBoundary(wire, handed)
    BY <2>2 DEF IInv, Meets
  <2>4. handed' = h
    BY DEF EnqueueSend, Hand
  <2> QED BY <2>1, <2>2, <2>3, <2>4
<1>2. PICK id \in 1 .. MaxFrames : id = New
  BY <1>1 DEF New
<1>3. /\ h \in Seq(FrameType) /\ Len(h) = id /\ h[id] = f
      /\ WireOK(wire, h) /\ Done(wire, h) = Done(wire, handed) /\ ReadyFor(wire, h, id, 0)
  BY <1>1, <1>2, FrameHanded DEF New
<1>4. id \in 1 .. Len(h) /\ h[id].size \in Nat \ {0} /\ f.size = h[id].size
  <2>1. id \in 1 .. Len(h)
    BY <1>3
  <2> QED BY <2>1, <1>3, FrameSizes
<1>13. lag + 1 \in Nat
  BY <1>1
<1>5. n \in Nat /\ n <= f.size
  <2>1. f.size \in Nat /\ Free \in Nat
    BY <1>4, FreeIsKnown
  <2> QED BY <2>1, TakenIsBounded
<1>6. PICK off \in Nat : off = 0
  OBVIOUS
<1>7. off + n = n
  BY <1>5, <1>6
<1> HIDE DEF h, n
<1>8. Longer(v, wire, id, off, n)
  <2>1. v = wire \o Bytes(id, off, off + n)
    BY <1>2, <1>6, <1>7
  <2> HIDE DEF v
  <2>2. id \in Nat
    OBVIOUS
  <2>3. Longer(wire \o Bytes(id, off, off + n), wire, id, off, n)
    BY <2>2, <1>1, <1>5, BytesAppend
  <2> QED BY <2>1, <2>3
<1> HIDE DEF v
<1>9. Done(v, h) = IF n = f.size THEN Done(wire, h) \cup {id} ELSE Done(wire, h)
  <2>1. off < h[id].size /\ off + n <= h[id].size /\ ReadyFor(wire, h, id, off)
    BY <1>3, <1>4, <1>5, <1>6, <1>7
  <2>2. Done(v, h) = IF off + n = h[id].size THEN Done(wire, h) \cup {id} ELSE Done(wire, h)
    BY ZenonT(60), <2>1, <1>3, <1>4, <1>5, <1>8, DoneGrows
  <2> QED BY <2>2, <1>4, <1>7
<1>10. /\ Through \in SUBSET (1 .. Len(handed)) /\ IsFiniteSet(Through)
       /\ InNumberOrder(Through) \in Seq(Nat) /\ chanSent \in Nat /\ Len(InNumberOrder(Through)) = chanSent
       /\ chanOut = InNumberOrder(Through) /\ Through = Done(wire, handed)
  BY <1>1, ChannelIs
<1>11. CASE n = f.size
  <2>1. Settle(v, <<>>, 0)
    BY <1>11 DEF EnqueueSend, n, v
  <2>2. /\ lag' = 0 /\ open' = open /\ queue' = <<>> /\ wire' = v
    <3>1. 0 < LAG_LIMIT /\ 0 \in Nat
      BY <1>1
    <3> QED BY <2>1, <3>1, SettleIs
  <2>3. Through' = Through \cup {id}
    BY <2>2, <1>1, <1>3, <1>9, <1>10, <1>11, ThroughIs
  <2>4. Cardinality(Through \cup {id}) = chanSent + 1
        /\ InNumberOrder(Through \cup {id}) = Append(InNumberOrder(Through), id)
    <3>1. Through \in SUBSET Nat /\ id \in Nat /\ \A y \in Through : y < id
      BY <1>1, <1>2, <1>10 DEF New
    <3> QED BY <3>1, <1>10, NumberOrderGrows DEF chanSent
  <2>5. chanSent' = chanSent + 1 /\ chanOut' = Append(chanOut, id)
    <3>1. chanOut' = Append(InNumberOrder(Through), id) \o QIds(<<>>)
      BY <2>2, <2>3, <2>4 DEF chanOut
    <3>2. QIds(<<>>) = <<>>
      BY EmptySeq, WaitingIds
    <3>3. Append(InNumberOrder(Through), id) \in Seq(Nat)
      BY <1>2, <1>10, AppendProperties
    <3>4. chanOut' = Append(InNumberOrder(Through), id)
      BY <3>1, <3>2, <3>3, ConcatEmptySeq
    <3> QED BY <3>4, <2>3, <2>4, <1>10 DEF chanSent
  <2>6. Channel!Pass(id)
    BY <2>2, <2>5, <1>1, <1>10, PassIs
  <2>7. \E ff \in 1 .. MaxFrames : Channel!Pass(ff) \/ Channel!Wait(ff)
    BY <2>6
  <2> QED BY <2>7 DEF Channel!ChannelNext
<1>12. CASE n # f.size
  <2> DEFINE e == [id |-> New, off |-> n]
             q == <<e>>
  <2>1. Settle(v, q, lag + 1)
    BY <1>12 DEF EnqueueSend, n, v
  <2>2. e \in Entry /\ e.id = id /\ q # <<>> /\ q = Append(<<>>, e)
    BY <1>2, <1>5 DEF Entry
  <2> HIDE DEF e, q
  <2>3. /\ lag' = lag + 1
        /\ lag + 1 >= LAG_LIMIT => open' = FALSE /\ queue' = <<>> /\ wire' = v
        /\ lag + 1 < LAG_LIMIT => open' = open /\ queue' = q /\ wire' = v
    <3>1. q # <<>>
      BY <2>2
    <3>2. PICK l \in Nat : l = lag + 1
      BY <1>13
    <3>3. Settle(v, q, l)
      BY <2>1, <3>2
    <3>4. /\ lag' = l
          /\ l >= LAG_LIMIT => open' = FALSE /\ queue' = <<>> /\ (q # <<>> \/ ~peer => wire' = v)
          /\ l < LAG_LIMIT => open' = open /\ queue' = q /\ wire' = v
      BY <3>3, SettleIs
    <3> QED BY <3>1, <3>2, <3>4
  <2>4. lag + 1 >= LAG_LIMIT \/ lag + 1 < LAG_LIMIT
    BY <1>1
  <2>5. wire' = v
    BY <2>3, <2>4
  <2>6. Through' = Through /\ chanSent' = chanSent
    <3>1. Through' = Through
      BY <2>5, <1>1, <1>3, <1>9, <1>10, <1>12, ThroughIs
    <3> QED BY <3>1 DEF chanSent
  <2>7. CASE lag + 1 < LAG_LIMIT
    <3>1. chanOut' = Append(chanOut, id)
      <4>1. queue' = Append(queue, e) /\ queue \in Seq(Entry)
        BY <2>2, <2>3, <2>7, <1>1, ChannelIs
      <4>2. InNumberOrder(Through) \o QIds(Append(queue, e)) = Append(InNumberOrder(Through) \o QIds(queue), e.id)
        BY <4>1, <2>2, <1>10, OutGrows
      <4> QED BY <4>1, <4>2, <2>2, <2>6 DEF chanOut
    <3>2. Channel!Wait(id)
      BY <3>1, <2>3, <2>6, <2>7, <1>1, WaitIs
    <3>3. \E ff \in 1 .. MaxFrames : Channel!Pass(ff) \/ Channel!Wait(ff)
      BY <3>2
    <3> QED BY <3>3 DEF Channel!ChannelNext
  <2>8. CASE lag + 1 >= LAG_LIMIT
    <3>1. chanOut' = SubSeq(chanOut, 1, chanSent)
      BY <2>3, <2>6, <2>8, Discards
    <3>2. open' = FALSE /\ lag' \in {lag, LAG_LIMIT}
      BY <2>3, <2>8, <1>1
    <3>3. Channel!Close
      BY <3>1, <3>2, <2>6, <1>1, CloseIs
    <3> QED BY <3>3 DEF Channel!ChannelNext
  <2> QED BY <2>4, <2>7, <2>8
<1> QED BY <1>11, <1>12

(* A send that raises closes the subscriber.                               *)
LEMMA FailsIsAStep ==
  ASSUME Limits, IInv, IInv', NEW f \in FrameType, EnqueueFails(f)
  PROVE  Channel!ChannelNext
<1>1. /\ handed \in Seq(FrameType) /\ WireOK(wire, handed) /\ LAG_LIMIT \in Nat
      /\ open /\ ~ peer /\ queue = <<>> /\ handed' = Append(handed, f) /\ Settle(wire, <<>>, LAG_LIMIT)
  BY DEF IInv, Types, Limits, EnqueueFails, Hand
<1>2. lag' = LAG_LIMIT /\ open' = FALSE /\ queue' = <<>> /\ wire' = wire
  <2>1. LAG_LIMIT >= LAG_LIMIT
    BY <1>1
  <2> QED BY <2>1, <1>1, SettleIs
<1>3. Through' = Through
  <2>1. Done(wire, Append(handed, f)) = Done(wire, handed)
    BY <1>1, FrameHanded
  <2> QED BY <2>1, <1>1, <1>2, ThroughIs
<1>4. chanOut' = SubSeq(chanOut, 1, chanSent) /\ chanSent' = chanSent
  BY <1>2, <1>3, Discards
<1>5. Channel!Close
  BY <1>1, <1>2, <1>4, CloseIs
<1> QED BY <1>5 DEF Channel!ChannelNext

(* A drain that sends the rest of the head frame flushes it; one that      *)
(* sends less leaves the channel as it is.                                 *)
LEMMA DrainIsAStep ==
  ASSUME Limits, IInv, IInv', DrainSend
  PROVE  Channel!Flush \/ UNCHANGED Channel!chanVars
<1> DEFINE e == queue[1]
           n == Taken(Left(e))
           v == wire \o Bytes(e.id, e.off, e.off + n)
<1>1. /\ handed \in Seq(FrameType) /\ WireOK(wire, handed) /\ wire \in Seq(Byte) /\ lag \in Nat
      /\ peer /\ open /\ queue # <<>> /\ QueueOK(queue, handed) /\ ReadyFor(wire, handed, e.id, e.off)
  BY DEF IInv, Types, Armed, WireOK, DrainSend, Meets
<1>2. queue \in Seq(Entry) /\ Len(queue) \in Nat \ {0} /\ 1 \in 1 .. Len(queue)
  BY <1>1, LenProperties, EmptySeq DEF QueueOK
<1>3. e \in Entry /\ e.id \in 1 .. Len(handed) /\ e.off < handed[e.id].size
  BY <1>1, <1>2 DEF QueueOK
<1>4. PICK id \in 1 .. Len(handed), off \in Nat : id = e.id /\ off = e.off
  BY <1>3 DEF Entry
<1>5. handed[id].size \in Nat \ {0} /\ off < handed[id].size /\ id \in Nat
  BY <1>1, <1>3, <1>4, FrameSizes, LenProperties
<1>6. Left(e) = handed[id].size - off /\ Left(e) \in Nat
  BY <1>4, <1>5 DEF Left
<1>7. n \in Nat /\ n <= Left(e) /\ off + n <= handed[id].size /\ (n = Left(e) <=> off + n = handed[id].size)
  <2>1. n \in Nat /\ n <= Left(e)
    BY <1>6, FreeIsKnown, TakenIsBounded
  <2> QED BY <2>1, <1>5, <1>6
<1>8. Head(queue) = e
  BY <1>2
<1>9. /\ wire' = v /\ handed' = handed /\ open' = open
      /\ n < Left(e) => queue' = [queue EXCEPT ![1].off = @ + n] /\ lag' = lag
      /\ ~ (n < Left(e)) => queue' = Tail(queue) /\ lag' = IF Tail(queue) = <<>> THEN 0 ELSE lag
  BY <1>8 DEF DrainSend
<1> HIDE DEF n
<1>10. Longer(v, wire, id, off, n)
  <2>1. v = wire \o Bytes(id, off, off + n)
    BY <1>4
  <2> QED BY <2>1, <1>1, <1>5, <1>7, BytesAppend
<1> HIDE DEF v
<1>11. /\ id \notin Done(wire, handed)
       /\ Done(v, handed) = IF off + n = handed[id].size THEN Done(wire, handed) \cup {id} ELSE Done(wire, handed)
  <2>1. ReadyFor(wire, handed, id, off) /\ handed[id].size \in Nat
    BY <1>1, <1>4, <1>5
  <2> QED BY ZenonT(60), <2>1, <1>1, <1>5, <1>7, <1>10, DoneGrows
<1>12. Through = Done(wire, handed) /\ Through' = Done(v, handed)
  BY <1>9, ThroughIs
<1>13. /\ Through \in SUBSET (1 .. Len(handed)) /\ IsFiniteSet(Through) /\ Through \in SUBSET Nat
       /\ InNumberOrder(Through) \in Seq(Nat) /\ chanSent \in Nat
       /\ Len(chanOut) = chanSent + Len(queue) /\ Len(handed) \in Nat
  BY ChannelIs
<1>14. CASE n < Left(e)
  <2>1. Through' = Through
    BY <1>6, <1>7, <1>11, <1>12, <1>14
  <2>2. QIds(queue') = QIds(queue)
    <3>1. queue' = [queue EXCEPT ![1].off = @ + n]
      BY <1>9, <1>14
    <3>2. DOMAIN queue' = DOMAIN queue /\ \A i \in DOMAIN queue : queue'[i].id = queue[i].id
      BY <3>1, <1>2
    <3> QED BY <3>2 DEF QIds
  <2>3. chanOut' = chanOut /\ chanSent' = chanSent
    BY <2>1, <2>2 DEF chanOut, chanSent
  <2>4. lag' = lag /\ open' = open
    BY <1>9, <1>14
  <2> QED BY <2>3, <2>4, StutterIs
<1>15. CASE ~ (n < Left(e))
  <2>1. off + n = handed[id].size
    BY <1>6, <1>7, <1>15
  <2>2. Through' = Through \cup {id}
    BY <2>1, <1>11, <1>12
  <2>3. \A y \in Through : y < id
    <3>1. ASSUME NEW y \in Through PROVE y < id
      <4>1. y \in Nat /\ y # id
        BY <1>11, <1>12, <1>13
      <4>2. PICK i \in 1 .. Len(wire) : wire[i] = <<y, handed[y].size>>
        BY <1>12 DEF Done
      <4>3. wire[i][1] <= id
        BY <1>1, <1>4 DEF ReadyFor
      <4> QED BY <4>1, <4>2, <4>3, <1>5
    <3> QED BY <3>1
  <2>4. /\ Cardinality(Through \cup {id}) = chanSent + 1
        /\ InNumberOrder(Through \cup {id}) = Append(InNumberOrder(Through), id)
    BY <2>3, <1>5, <1>13, NumberOrderGrows DEF chanSent
  <2>5. queue' = Tail(queue) /\ lag' = IF Tail(queue) = <<>> THEN 0 ELSE lag
    BY <1>9, <1>15
  <2>6. chanOut' = chanOut
    <3>1. chanOut' = Append(InNumberOrder(Through), queue[1].id) \o QIds(Tail(queue))
      BY <2>2, <2>4, <2>5, <1>4 DEF chanOut
    <3> QED BY <3>1, <1>1, <1>2, <1>13, OutMoves DEF chanOut
  <2>7. chanSent' = chanSent + 1
    BY <2>2, <2>4 DEF chanSent
  <2>8. chanSent < Len(chanOut) /\ (Tail(queue) = <<>> <=> chanSent + 1 = Len(chanOut))
    <3>1. Tail(queue) \in Seq(Entry) /\ Len(Tail(queue)) = Len(queue) - 1
      BY <1>1, <1>2, HeadTailProperties
    <3>2. Tail(queue) = <<>> <=> Len(queue) = 1
      <4>1. Tail(queue) = <<>> <=> Len(Tail(queue)) = 0
        BY <3>1, EmptySeq
      <4> QED BY <4>1, <3>1, <1>2
    <3>3. \A m, c \in Nat : m # 0 => (c < c + m /\ (m = 1 <=> c + 1 = c + m))
      OBVIOUS
    <3>4. chanSent \in Nat /\ Len(queue) \in Nat /\ Len(queue) # 0 /\ Len(chanOut) = chanSent + Len(queue)
      BY <1>2, <1>13
    <3> HIDE DEF chanOut, chanSent
    <3>5. chanSent < Len(chanOut) /\ (Len(queue) = 1 <=> chanSent + 1 = Len(chanOut))
      BY <3>3, <3>4
    <3> QED BY <3>2, <3>5
  <2>9. lag' = IF chanSent + 1 = Len(chanOut) THEN 0 ELSE lag
    BY <2>5, <2>8
  <2> QED BY <2>6, <2>7, <2>8, <2>9, <1>1, <1>9, FlushIs
<1> QED BY <1>14, <1>15

(* Every other step fails what waits, closes, or is not seen.              *)
LEMMA RestIsAStep ==
  ASSUME Limits, IInv, IInv',
         DrainBegins \/ DrainBlocked \/ DrainFails \/ CloseSilently \/ PeerReads \/ PeerGone \/ UNCHANGED txVars
  PROVE  Channel!Fail \/ Channel!Close \/ UNCHANGED Channel!chanVars
<1>1. handed' = handed /\ wire' = wire
  BY DEF DrainBegins, DrainBlocked, DrainFails, CloseSilently, PeerReads, PeerGone, subVars, txVars
<1>2. Through' = Through
  BY <1>1, ThroughIs
<1>3. CASE DrainFails
  <2>1. queue' = <<>> /\ lag' = LAG_LIMIT /\ open' = open /\ open /\ queue # <<>>
    BY <1>3 DEF DrainFails, IInv, Armed
  <2>2. chanOut' = SubSeq(chanOut, 1, chanSent) /\ chanSent' = chanSent
    BY <2>1, <1>2, Discards
  <2>3. chanSent < Len(chanOut)
    <3>1. queue \in Seq(Entry) /\ Len(chanOut) = chanSent + Len(queue) /\ chanSent \in Nat
      BY ChannelIs
    <3>2. Len(queue) \in Nat \ {0}
      BY <3>1, <2>1, EmptySeq
    <3> QED BY <3>1, <3>2
  <2> QED BY <2>1, <2>2, <2>3, FailIs
<1>4. CASE CloseSilently
  <2>1. queue' = <<>> /\ lag' = lag /\ open /\ open' = FALSE
    BY <1>4 DEF CloseSilently
  <2>2. chanOut' = SubSeq(chanOut, 1, chanSent) /\ chanSent' = chanSent
    BY <2>1, <1>2, Discards
  <2> QED BY <2>1, <2>2, CloseIs
<1>5. CASE DrainBegins \/ DrainBlocked \/ PeerReads \/ PeerGone \/ UNCHANGED txVars
  <2>1. UNCHANGED <<queue, lag, open>>
    BY <1>5 DEF DrainBegins, DrainBlocked, PeerReads, PeerGone, subVars, txVars
  <2>2. chanOut' = chanOut /\ chanSent' = chanSent
    BY <2>1, <1>2 DEF chanOut, chanSent
  <2> QED BY <2>1, <2>2, StutterIs
<1> QED BY <1>3, <1>4, <1>5

(* enqueue, _flush and close of one subscriber implement a bounded FIFO of *)
(* whole frames (FrameChannel): partial sends, EAGAIN, writer callbacks    *)
(* and evictions map to steps of the channel or to none, for any frame     *)
(* lengths, any socket buffer, any lag limit and any number of frames;     *)
(* under Limits, whose Transient = FALSE is the code without a transient   *)
(* send error on a live peer.                                              *)
THEOREM SubscriberIsAChannel == Limits => (TxSpec => ImplementsChannel)
<1> SUFFICES ASSUME Limits PROVE TxSpec => ImplementsChannel
  OBVIOUS
<1>1. TxInit => IInv /\ Waits
  BY InitIInv DEF TxInit, Waits
<1>2. IInv /\ Waits /\ [TxNext]_txVars => IInv' /\ Waits'
  BY StepKeepsIInv, WaitsKeeps
<1>3. TxInit => Channel!ChannelInit
  <2> SUFFICES ASSUME TxInit PROVE Channel!ChannelInit
    OBVIOUS
  <2>1. handed = <<>> /\ queue = <<>> /\ lag = 0 /\ open = TRUE
    BY DEF TxInit
  <2>2. IInv
    BY InitIInv
  <2>3. Through = {}
    BY <2>1 DEF Through
  <2>4. chanSent = 0 /\ chanOut \in Seq(Nat) /\ Len(chanOut) = chanSent + 0
    BY <2>1, <2>2, <2>3, ChannelIs, FS_EmptySet DEF chanSent
  <2>5. chanOut = <<>>
    BY <2>4, EmptySeq
  <2> QED BY <2>1, <2>4, <2>5 DEF Channel!ChannelInit, chanOut, chanSent, QIds
<1>4. IInv /\ IInv' /\ Waits /\ [TxNext]_txVars => [Channel!ChannelNext]_(Channel!chanVars)
  <2> SUFFICES ASSUME IInv, IInv', Waits, [TxNext]_txVars
               PROVE  Channel!ChannelNext \/ UNCHANGED Channel!chanVars
    OBVIOUS
  <2>1. CASE \E f \in FrameType : Enqueue(f)
    BY <2>1, BehindIsAStep, SendIsAStep, FailsIsAStep DEF Enqueue
  <2>2. CASE DrainSend
    BY <2>2, DrainIsAStep DEF Channel!ChannelNext
  <2>3. CASE DrainBegins \/ DrainBlocked \/ DrainFails \/ CloseSilently \/ PeerReads \/ PeerGone \/ UNCHANGED txVars
    BY <2>3, RestIsAStep DEF Channel!ChannelNext
  <2> QED BY <2>1, <2>2, <2>3 DEF TxNext, DrainNext
<1> QED BY <1>1, <1>2, <1>3, <1>4, PTL DEF TxSpec, ImplementsChannel, Channel!ChannelSpec
=============================================================================
