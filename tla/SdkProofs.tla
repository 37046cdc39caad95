------------------------------ MODULE SdkProofs ------------------------------
(***************************************************************************)
(* Proofs about the Python SDK and the commands over it: the hand-off of   *)
(* asubscribe, the resumption from a bookmark, and the answer of a wait.   *)
(***************************************************************************)
EXTENDS AsyncSubscribe, Resume, Waiting, FiniteSetTheorems, SequenceTheorems, TLAPS

-----------------------------------------------------------------------------
(* AsyncSubscribe: the iteration is the stream, for any queue bound and    *)
(* any number of events.                                                   *)

Handed == yielded \o queue \o InHand

AsyncVarsOK ==
  /\ sentOff \in Nat /\ taken \in 0 .. sentOff
  /\ yielded \in Seq(Int) /\ queue \in Seq(Int) /\ hand \in Int
  /\ daemon \in {"up", "eof", "reject"}
  /\ worker \in {"loop", "read", "put", "last", "exited"}

(* The generator gives its body events only, and is left once.             *)
GivenInv ==
  /\ \A k \in 1 .. Len(yielded) : yielded[k] > 0
  /\ left # "no" <=> consumer \notin {"get", "user"}
  /\ left \in {"done", "error"} => daemon # "up"

(* Behind the events comes what tells how the stream ended, once it has,   *)
(* and the worker then reads no more.                                      *)
HandInv ==
  left = "no" =>
    /\ sock = "open"
    /\ Len(Handed) > taken =>
         /\ taken = sentOff /\ daemon # "up"
         /\ Handed[taken + 1] = IF daemon = "reject" THEN Error ELSE StreamDone
    /\ worker \in {"loop", "read"} \/ (worker = "put" /\ hand # Error) => Len(Handed) = taken
    /\ worker = "last" => hand = StreamDone

AsyncInv == AsyncVarsOK /\ GivenInv /\ HandInv /\ YieldsTheStream

LEMMA OneMore ==
  ASSUME NEW s \in Seq(Int), NEW x \in Int
  PROVE  /\ s \o <<x>> \in Seq(Int) /\ Len(s \o <<x>>) = Len(s) + 1 /\ Len(s) \in Nat
         /\ \A k \in 1 .. Len(s) : (s \o <<x>>)[k] = s[k]
         /\ (s \o <<x>>)[Len(s) + 1] = x
<1>1. s \o <<x>> = Append(s, x)
  BY AppendIsConcat
<1> QED BY <1>1, AppendProperties

LEMMA Regroups ==
  ASSUME NEW a \in Seq(Int), NEW b \in Seq(Int), NEW c \in Seq(Int)
  PROVE  (a \o b) \o c = a \o (b \o c)
BY ConcatAssociative

LEMMA HandedIs ==
  ASSUME AsyncVarsOK
  PROVE  /\ InHand \in Seq(Int) /\ Handed \in Seq(Int) /\ yielded \o queue \in Seq(Int)
         /\ Handed = (yielded \o queue) \o InHand
         /\ Len(Handed) \in Nat /\ taken \in Nat /\ sentOff \in Nat /\ taken <= sentOff
         /\ yielded \in Seq(Int) /\ queue \in Seq(Int) /\ hand \in Int
<1>1. InHand \in Seq(Int)
  BY DEF AsyncVarsOK, InHand
<1>2. yielded \o queue \in Seq(Int)
  BY ConcatProperties DEF AsyncVarsOK
<1>3. Handed \in Seq(Int)
  BY <1>1, <1>2, ConcatProperties DEF Handed
<1>4. Len(Handed) \in Nat
  BY <1>3
<1>5. taken \in Nat /\ sentOff \in Nat /\ taken <= sentOff /\ yielded \in Seq(Int) /\ queue \in Seq(Int) /\ hand \in Int
  BY DEF AsyncVarsOK
<1> QED BY <1>1, <1>2, <1>3, <1>4, <1>5 DEF Handed

(* What moves along the hand-off stays in its place.                       *)
LEMMA MovesOn ==
  ASSUME AsyncInv, AsyncVarsOK', GivenInv', left = "no", left' = "no", sock' = sock, Handed' = Handed,
         UNCHANGED <<sentOff, taken, daemon>>,
         worker' \in {"loop", "read"} \/ (worker' = "put" /\ hand' # Error) =>
           worker \in {"loop", "read"} \/ (worker = "put" /\ hand # Error),
         worker' = "last" => hand' = StreamDone
  PROVE  AsyncInv'
<1>1. HandInv'
  BY DEF AsyncInv, HandInv
<1>2. YieldsTheStream'
  BY DEF AsyncInv, YieldsTheStream, HandOffIsExact, EndIsComplete, Handed
<1> QED BY <1>1, <1>2 DEF AsyncInv

(* The events are where their numbers say, and then comes how it ended.    *)
Exact(s, n) ==
  /\ Len(s) >= n
  /\ \A k \in 1 .. Len(s) : IF k <= n THEN s[k] = k ELSE s[k] \in {StreamDone, Error}

LEMMA ExactGrows ==
  ASSUME NEW s \in Seq(Int), NEW n \in Nat, NEW x \in Int, Exact(s, n)
  PROVE  /\ x = n + 1 /\ Len(s) = n => Exact(s \o <<x>>, n + 1)
         /\ x \in {StreamDone, Error} => Exact(s \o <<x>>, n)
<1>1. /\ s \o <<x>> \in Seq(Int) /\ Len(s \o <<x>>) = Len(s) + 1 /\ Len(s) \in Nat
      /\ \A k \in 1 .. Len(s) : (s \o <<x>>)[k] = s[k]
      /\ (s \o <<x>>)[Len(s) + 1] = x
  BY OneMore
<1>2. /\ Len(s) >= n
      /\ \A k \in 1 .. Len(s) : IF k <= n THEN s[k] = k ELSE s[k] \in {StreamDone, Error}
  BY DEF Exact
<1>3. ASSUME x = n + 1, Len(s) = n PROVE Exact(s \o <<x>>, n + 1)
  <2>1. \A k \in 1 .. Len(s) + 1 : k \in 1 .. Len(s) \/ k = Len(s) + 1
    BY <1>1
  <2> QED BY <2>1, <1>1, <1>2, <1>3 DEF Exact
<1>4. ASSUME x \in {StreamDone, Error} PROVE Exact(s \o <<x>>, n)
  <2>1. \A k \in 1 .. Len(s) + 1 : k \in 1 .. Len(s) \/ (k = Len(s) + 1 /\ ~(k <= n))
    BY <1>1, <1>2
  <2> QED BY <2>1, <1>1, <1>2, <1>4 DEF Exact
<1> QED BY <1>3, <1>4

(* The worker puts one more behind it: the next event, or how it ended.    *)
PutsEvent(x) ==
  x = taken + 1 /\ taken' = taken + 1 /\ Len(Handed) = taken /\ worker' = "put"

EndsWith(x) == taken = sentOff /\ daemon # "up" /\ x = IF daemon = "reject" THEN Error ELSE StreamDone

PutsEnd(x) ==
  /\ x \in {StreamDone, Error} /\ taken' = taken
  /\ Len(Handed) > taken \/ EndsWith(x)
  /\ (worker' = "last" /\ hand' = StreamDone) \/ (worker' = "put" /\ hand' = Error)

LEMMA PutsBehind ==
  ASSUME AsyncInv, AsyncVarsOK', GivenInv', left = "no", left' = "no", sock' = sock,
         NEW x \in Int, Handed' = Handed \o <<x>>, UNCHANGED <<sentOff, daemon>>,
         PutsEvent(x) \/ PutsEnd(x)
  PROVE  AsyncInv'
<1>1. /\ Len(Handed) \in Nat /\ Handed \in Seq(Int) /\ taken \in Nat /\ sentOff \in Nat
      /\ Exact(Handed, taken)
  BY HandedIs DEF AsyncInv, YieldsTheStream, HandOffIsExact, Handed, Exact
<1>2. /\ Handed' \in Seq(Int) /\ Len(Handed') = Len(Handed) + 1
      /\ \A k \in 1 .. Len(Handed) : Handed'[k] = Handed[k]
      /\ Handed'[Len(Handed) + 1] = x
  BY <1>1, OneMore
<1>3. Len(Handed) >= taken
  BY <1>1 DEF Exact
<1>4. Len(Handed) > taken => EndsWith(Handed[taken + 1])
  BY DEF AsyncInv, HandInv, EndsWith
<1>5. sock = "open"
  BY DEF AsyncInv, HandInv
<1>6. Exact(Handed', taken')
  BY <1>1, ExactGrows DEF PutsEvent, PutsEnd
<1>7. Len(Handed') > taken' => EndsWith(Handed'[taken' + 1]) /\ taken' = taken
  <2>1. CASE PutsEvent(x)
    BY <2>1, <1>1, <1>2 DEF PutsEvent
  <2>2. CASE Len(Handed) > taken /\ taken' = taken
    <3>1. taken + 1 \in 1 .. Len(Handed)
      BY <2>2, <1>1
    <3>2. Handed'[taken + 1] = Handed[taken + 1]
      BY <3>1, <1>2
    <3> QED BY <2>2, <3>2, <1>4
  <2>3. CASE Len(Handed) = taken /\ taken' = taken /\ EndsWith(x)
    BY <2>3, <1>2
  <2>4. Len(Handed) > taken \/ Len(Handed) = taken
    BY <1>1, <1>3
  <2> QED BY <2>1, <2>2, <2>3, <2>4 DEF PutsEnd
<1>8. HandInv'
  <2>1. worker' \in {"loop", "read"} \/ (worker' = "put" /\ hand' # Error) => Len(Handed') = taken'
    <3>1. CASE PutsEvent(x)
      BY <3>1, <1>1, <1>2 DEF PutsEvent
    <3>2. CASE PutsEnd(x)
      BY <3>2 DEF PutsEnd
    <3> QED BY <3>1, <3>2
  <2>2. worker' = "last" => hand' = StreamDone
    BY DEF PutsEvent, PutsEnd
  <2> QED BY <2>1, <2>2, <1>5, <1>7 DEF HandInv, EndsWith
<1>9. YieldsTheStream'
  BY <1>6 DEF YieldsTheStream, HandOffIsExact, EndIsComplete, Handed, Exact
<1> QED BY <1>8, <1>9 DEF AsyncInv

(* Once it is left, only how it ended counts.                              *)
LEMMA AfterTheEnd ==
  ASSUME AsyncInv, AsyncVarsOK', left # "no", UNCHANGED <<left, yielded>>,
         consumer' \notin {"get", "user"}, sentOff' = sentOff \/ daemon = "up",
         taken' = taken \/ taken < sentOff, daemon' = daemon \/ daemon = "up"
  PROVE  AsyncInv'
<1>1. CASE left = "early" \/ left \notin {"done", "error"}
  BY <1>1 DEF AsyncInv, GivenInv, HandInv, YieldsTheStream, HandOffIsExact, EndIsComplete
<1>2. CASE left \in {"done", "error"}
  <2>1. daemon # "up" /\ taken = sentOff /\ taken \in Nat /\ yielded = [i \in 1 .. taken |-> i]
        /\ (left = "error" <=> daemon = "reject")
    BY <1>2, HandedIs DEF AsyncInv, GivenInv, YieldsTheStream, EndIsComplete
  <2>2. UNCHANGED <<sentOff, taken, daemon>>
    <3>1. ~(taken < sentOff)
      BY <2>1
    <3> QED BY <2>1, <3>1
  <2> QED BY <2>1, <2>2, <1>2 DEF AsyncInv, GivenInv, HandInv, YieldsTheStream, HandOffIsExact, EndIsComplete
<1> QED BY <1>1, <1>2

LEMMA AsyncDaemon == ASSUME AsyncInv, DaemonSends \/ DaemonEnds PROVE AsyncInv'
<1>1. /\ UNCHANGED <<taken, sock, worker, hand, queue, consumer, yielded, left>>
      /\ daemon = "up" /\ sentOff' \in {sentOff, sentOff + 1} /\ daemon' \in {"up", "eof", "reject"}
  BY DEF DaemonSends, DaemonEnds
<1>2. AsyncVarsOK'
  BY <1>1 DEF AsyncInv, AsyncVarsOK
<1>3. Handed' = Handed
  BY <1>1 DEF Handed, InHand
<1>4. CASE left # "no"
  BY <1>1, <1>2, <1>4, AfterTheEnd DEF AsyncInv, GivenInv
<1>5. CASE left = "no"
  <2>1. ~(Len(Handed) > taken)
    BY <1>1, <1>5 DEF AsyncInv, HandInv
  <2>2. ~(Len(Handed') > taken')
    BY <2>1, <1>1, <1>3
  <2>3. HandInv'
    BY <2>2, <1>1, <1>3, <1>5 DEF AsyncInv, HandInv
  <2>4. YieldsTheStream'
    BY <1>1, <1>3, <1>5 DEF AsyncInv, YieldsTheStream, HandOffIsExact, EndIsComplete, Handed
  <2> QED BY <2>3, <2>4, <1>1, <1>2, <1>5 DEF AsyncInv, GivenInv
<1> QED BY <1>4, <1>5

LEMMA AsyncWorker == ASSUME AsyncInv, WorkerNext PROVE AsyncInv'
<1>1. /\ UNCHANGED <<sentOff, daemon, sock, queue, consumer, yielded, left>>
      /\ taken' = taken \/ (taken < sentOff /\ taken' = taken + 1)
  BY DEF WorkerNext, WorkerReads, WorkerMatches, WorkerSeesEof, WorkerSeesReject, wireVars
<1>2. AsyncVarsOK'
  BY <1>1 DEF WorkerNext, WorkerReads, WorkerMatches, WorkerSeesEof, WorkerSeesReject, wireVars,
    AsyncInv, AsyncVarsOK, Error, StreamDone
<1>3. GivenInv'
  BY <1>1 DEF AsyncInv, GivenInv
<1>4. CASE left # "no"
  BY <1>1, <1>2, <1>4, AfterTheEnd DEF AsyncInv, GivenInv
<1>5. CASE left = "no"
  <2>1. sock = "open" /\ Len(Handed) \in Nat /\ taken \in Nat /\ yielded \o queue \in Seq(Int)
    BY <1>5, HandedIs DEF AsyncInv, HandInv
  <2>2. CASE WorkerReads
    <3>1. worker = "loop" /\ worker' = "read"
      BY <2>1, <2>2 DEF WorkerReads
    <3>2. Handed' = Handed
      BY <3>1, <1>1 DEF Handed, InHand
    <3>3. taken' = taken
      BY <2>2 DEF WorkerReads, wireVars
    <3> QED BY <3>1, <3>2, <3>3, <1>1, <1>2, <1>3, <1>5, MovesOn
  <2>3. CASE WorkerMatches \/ WorkerSeesEof \/ WorkerSeesReject
    <3>1. worker = "read" /\ worker' \in {"put", "last"} /\ Len(Handed) = taken
      BY <2>3, <1>5 DEF WorkerMatches, WorkerSeesEof, WorkerSeesReject, AsyncInv, HandInv
    <3>2. Handed = yielded \o queue
      <4>1. InHand = <<>>
        BY <3>1 DEF InHand
      <4> QED BY <4>1, <2>1, ConcatEmptySeq DEF Handed
    <3>3. Handed' = Handed \o <<hand'>>
      BY <3>1, <3>2, <1>1 DEF Handed, InHand
    <3>4. hand' \in Int
      BY <1>2 DEF AsyncVarsOK
    <3>5. CASE WorkerMatches
      <4>1. hand' = taken + 1 /\ taken' = taken + 1 /\ worker' = "put"
        BY <3>5 DEF WorkerMatches
      <4> QED BY <3>1, <3>3, <3>4, <4>1, <1>1, <1>2, <1>3, <1>5, PutsBehind DEF PutsEvent, PutsEnd, EndsWith
    <3>6. CASE WorkerSeesEof
      <4>1. hand' = StreamDone /\ worker' = "last" /\ taken' = taken /\ taken = sentOff /\ daemon = "eof"
        BY <3>6, <2>1 DEF WorkerSeesEof, wireVars
      <4> QED BY <3>1, <3>3, <3>4, <4>1, <1>1, <1>2, <1>3, <1>5, PutsBehind DEF PutsEvent, PutsEnd, EndsWith
    <3>7. CASE WorkerSeesReject
      <4>1. hand' = Error /\ worker' = "put" /\ taken' = taken /\ taken = sentOff /\ daemon = "reject"
        BY <3>7, <2>1 DEF WorkerSeesReject, wireVars
      <4> QED BY <3>1, <3>3, <3>4, <4>1, <1>1, <1>2, <1>3, <1>5, PutsBehind DEF PutsEvent, PutsEnd, EndsWith
    <3> QED BY <2>3, <3>5, <3>6, <3>7
  <2> QED BY <2>2, <2>3 DEF WorkerNext
<1> QED BY <1>4, <1>5

LEMMA AsyncPut == ASSUME AsyncInv, PutLands PROVE AsyncInv'
<1>1. /\ UNCHANGED <<sentOff, taken, daemon, sock, consumer, yielded, left>>
      /\ queue' = Append(queue, hand) /\ worker \in {"put", "last"} /\ worker' = AfterPut
      /\ hand' = IF AfterPut = "last" THEN StreamDone ELSE NoItem
  BY DEF PutLands, wireVars
<1>2. yielded \in Seq(Int) /\ queue \in Seq(Int) /\ hand \in Int
  BY DEF AsyncInv, AsyncVarsOK
<1>3. queue' \in Seq(Int) /\ queue' = queue \o <<hand>>
  BY <1>1, <1>2, AppendProperties, AppendIsConcat
<1>4. AsyncVarsOK'
  BY <1>1, <1>3 DEF AsyncInv, AsyncVarsOK, AfterPut, StreamDone, NoItem
<1>5. GivenInv'
  BY <1>1 DEF AsyncInv, GivenInv
<1>6. CASE left # "no"
  BY <1>1, <1>4, <1>6, AfterTheEnd DEF AsyncInv, GivenInv
<1>7. CASE left = "no"
  <2>1. Handed = yielded \o queue'
    <3>1. <<hand>> \in Seq(Int)
      BY SMTT(20), <1>2
    <3>2. (yielded \o queue) \o <<hand>> = yielded \o (queue \o <<hand>>)
      BY <1>2, <3>1, Regroups, SMTT(60)
    <3> QED BY <3>2, <1>1, <1>3 DEF Handed, InHand
  <2>2. yielded \o queue' \in Seq(Int)
    BY <1>2, <1>3, ConcatProperties
  <2>3. CASE AfterPut # "last"
    <3>1. InHand' = <<>>
      BY <2>3, <1>1 DEF InHand, AfterPut
    <3>2. Handed' = Handed
      BY <3>1, <2>1, <2>2, <1>1, ConcatEmptySeq DEF Handed
    <3>3. worker' = "loop" => worker = "put" /\ hand # Error
      BY <2>3, <1>1 DEF AfterPut
    <3>4. worker' \in {"loop", "exited"}
      BY <2>3, <1>1 DEF AfterPut
    <3> QED BY <3>2, <3>3, <3>4, <1>1, <1>4, <1>5, <1>7, MovesOn
  <2>4. CASE AfterPut = "last"
    <3>1. worker = "put" /\ hand = Error /\ worker' = "last" /\ hand' = StreamDone
      BY <2>4, <1>1 DEF AfterPut
    <3>2. InHand' = <<StreamDone>>
      BY <3>1 DEF InHand
    <3>3. Handed' = Handed \o <<StreamDone>>
      BY <3>2, <2>1, <1>1 DEF Handed
    <3>4. Len(Handed) > taken
      <4>1. Handed \in Seq(Int) /\ Len(Handed) = Len(yielded \o queue) + 1 /\ Handed[Len(Handed)] = Error
            /\ taken \in Nat
        <5>1. yielded \o queue \in Seq(Int) /\ Handed = (yielded \o queue) \o <<Error>>
          BY <3>1, HandedIs DEF AsyncInv, Handed, InHand
        <5>2. Error \in Int
          BY DEF Error
        <5> QED BY <5>1, <5>2 DEF AsyncInv, AsyncVarsOK
      <4>2. Len(Handed) \in 1 .. Len(Handed)
        BY <4>1, HandedIs DEF AsyncInv
      <4>3. ~ (Len(Handed) <= taken)
        <5>1. Len(Handed) <= taken => Handed[Len(Handed)] = Len(Handed)
          BY <4>2, <1>7 DEF AsyncInv, YieldsTheStream, HandOffIsExact, Handed
        <5> QED BY <5>1, <4>1, <4>2 DEF Error
      <4> QED BY <4>1, <4>2, <4>3
    <3>5. StreamDone \in Int
      BY DEF StreamDone
    <3> QED BY <3>1, <3>3, <3>4, <3>5, <1>1, <1>4, <1>5, <1>7, PutsBehind DEF PutsEnd
  <2> QED BY <2>3, <2>4
<1> QED BY <1>6, <1>7

(* The first item of the queue is the next of the hand-off.                *)
LEMMA HeadIsNext ==
  ASSUME AsyncVarsOK, queue # <<>>
  PROVE  /\ Head(queue) \in Int /\ Tail(queue) \in Seq(Int) /\ Append(yielded, Head(queue)) \in Seq(Int)
         /\ Len(Handed) > Len(yielded) /\ Len(yielded) \in Nat
         /\ Handed[Len(yielded) + 1] = Head(queue)
         /\ \A k \in 1 .. Len(yielded) : Handed[k] = yielded[k]
         /\ Append(yielded, Head(queue)) \o Tail(queue) = yielded \o queue
<1>1. yielded \in Seq(Int) /\ queue \in Seq(Int) /\ Len(yielded) \in Nat /\ Len(queue) \in Nat \ {0}
  <2>1. yielded \in Seq(Int) /\ queue \in Seq(Int)
    BY DEF AsyncVarsOK
  <2> QED BY <2>1, EmptySeq
<1>2. Head(queue) \in Int /\ Tail(queue) \in Seq(Int) /\ Head(queue) = queue[1]
  BY <1>1, HeadTailProperties
<1>3. Append(yielded, Head(queue)) \in Seq(Int) /\ Append(yielded, Head(queue)) = yielded \o <<Head(queue)>>
  BY <1>1, <1>2, AppendProperties, AppendIsConcat
<1>4. <<Head(queue)>> \o Tail(queue) = queue
  <2>1. SubSeq(queue, 1, Len(queue)) = <<queue[1]>> \o SubSeq(queue, 1 + 1, Len(queue))
    BY <1>1, SubSeqRecursiveFirst
  <2>2. Tail(queue) = SubSeq(queue, 2, Len(queue))
    BY <1>1, TailIsSubSeq
  <2>3. SubSeq(queue, 1, Len(queue)) = queue
    BY <1>1, SubSeqFull
  <2> QED BY <2>1, <2>2, <2>3, <1>2
<1>5. (yielded \o <<Head(queue)>>) \o Tail(queue) = yielded \o (<<Head(queue)>> \o Tail(queue))
  <2>1. <<Head(queue)>> \in Seq(Int)
    BY <1>2
  <2> QED BY <2>1, <1>1, <1>2, Regroups, SMTT(60)
<1>6. /\ yielded \o queue \in Seq(Int) /\ InHand \in Seq(Int)
      /\ Len(yielded \o queue) = Len(yielded) + Len(queue)
      /\ \A k \in 1 .. Len(yielded) + Len(queue) :
           (yielded \o queue)[k] = IF k <= Len(yielded) THEN yielded[k] ELSE queue[k - Len(yielded)]
  BY <1>1, HandedIs, ConcatProperties
<1>7. /\ Len(Handed) = Len(yielded \o queue) + Len(InHand) /\ Len(InHand) \in Nat
      /\ \A k \in 1 .. Len(yielded \o queue) : Handed[k] = (yielded \o queue)[k]
  BY <1>6 DEF Handed
<1>8. Len(Handed) > Len(yielded)
  BY <1>1, <1>6, <1>7
<1>9. Handed[Len(yielded) + 1] = Head(queue)
  <2>1. Len(yielded) + 1 \in 1 .. Len(yielded) + Len(queue) /\ Len(yielded) + 1 - Len(yielded) = 1
    BY <1>1
  <2>2. ~(Len(yielded) + 1 <= Len(yielded))
    BY <1>1
  <2>3. (yielded \o queue)[Len(yielded) + 1] = queue[Len(yielded) + 1 - Len(yielded)]
    BY <2>1, <2>2, <1>6
  <2>4. Handed[Len(yielded) + 1] = (yielded \o queue)[Len(yielded) + 1]
    BY <2>1, <1>6, <1>7
  <2> QED BY <2>1, <2>3, <2>4, <1>2
<1>10. \A k \in 1 .. Len(yielded) : Handed[k] = yielded[k]
  BY <1>1, <1>6, <1>7
<1> QED BY <1>1, <1>2, <1>3, <1>4, <1>5, <1>8, <1>9, <1>10

LEMMA AsyncGets == ASSUME AsyncInv, ConsumerGets PROVE AsyncInv'
<1>1. consumer = "get" /\ queue # <<>> /\ queue' = Tail(queue) /\ left = "no" /\ AsyncVarsOK
  BY DEF ConsumerGets, AsyncInv, GivenInv
<1> DEFINE n == Len(yielded)
<1>2. /\ Head(queue) \in Int /\ Tail(queue) \in Seq(Int)
      /\ Len(Handed) > n /\ n \in Nat /\ taken \in Nat /\ Len(Handed) \in Nat
      /\ Handed[n + 1] = Head(queue)
      /\ \A k \in 1 .. n : Handed[k] = yielded[k]
  BY <1>1, HeadIsNext, HandedIs
<1>3. \A k \in 1 .. Len(Handed) :
        IF k <= taken THEN Handed[k] = k ELSE Handed[k] \in {StreamDone, Error}
  BY <1>1 DEF AsyncInv, YieldsTheStream, HandOffIsExact, Handed
<1>4. n <= taken
  <2>1. CASE n = 0
    BY <2>1, <1>2
  <2>2. CASE n # 0
    <3>1. n \in 1 .. n /\ n \in 1 .. Len(Handed)
      BY <2>2, <1>2
    <3>2. yielded[n] > 0 /\ Handed[n] = yielded[n]
      BY <3>1, <1>2 DEF AsyncInv, GivenInv
    <3>3. Handed[n] \notin {StreamDone, Error}
      BY <3>2 DEF StreamDone, Error
    <3> QED BY <3>1, <3>3, <1>2, <1>3
  <2> QED BY <2>1, <2>2
<1>5. CASE Head(queue) \in {StreamDone, Error}
  <2>1. /\ UNCHANGED <<sentOff, taken, daemon, worker, hand, yielded>> /\ consumer' = "joining"
        /\ left' = IF Head(queue) = StreamDone THEN "done" ELSE "error"
    BY <1>5 DEF ConsumerGets, Leave, StreamDone, Error
  <2>2. n = taken
    <3>1. n + 1 \in 1 .. Len(Handed)
      BY <1>2
    <3>2. ~ (n + 1 <= taken)
      BY <3>1, <1>2, <1>3, <1>5 DEF StreamDone, Error
    <3> QED BY <3>2, <1>2, <1>4
  <2>3. /\ taken = sentOff /\ daemon # "up"
        /\ Head(queue) = IF daemon = "reject" THEN Error ELSE StreamDone
    BY <2>2, <1>1, <1>2 DEF AsyncInv, HandInv
  <2>4. yielded = [i \in 1 .. taken |-> i]
    <3>1. \A k \in 1 .. n : yielded[k] = k
      BY <2>2, <1>2, <1>3
    <3>2. yielded \in [1 .. n -> Int]
      BY <1>1, LenProperties DEF AsyncVarsOK
    <3> QED BY <3>1, <3>2, <2>2
  <2>5. EndIsComplete'
    <3>1. left' = "error" <=> daemon' = "reject"
      BY <2>1, <2>3 DEF StreamDone, Error
    <3> QED BY <3>1, <2>1, <2>3, <2>4 DEF EndIsComplete
  <2>6. AsyncVarsOK'
    BY <2>1, <1>1, <1>2 DEF AsyncVarsOK
  <2>7. left' # "no"
    BY <2>1
  <2>8. GivenInv'
    BY <2>1, <2>3 DEF AsyncInv, GivenInv
  <2> QED BY <2>5, <2>6, <2>7, <2>8 DEF AsyncInv, HandInv, YieldsTheStream, HandOffIsExact
<1>6. CASE Head(queue) \notin {StreamDone, Error}
  <2>1. /\ UNCHANGED <<sentOff, taken, daemon, sock, worker, hand, left>> /\ consumer' = "user"
        /\ yielded' = Append(yielded, Head(queue))
    BY <1>6 DEF ConsumerGets, wireVars
  <2>2. Append(yielded, Head(queue)) \in Seq(Int)
    BY <1>1, HeadIsNext
  <2>3. AsyncVarsOK'
    BY <2>1, <2>2, <1>1, <1>2 DEF AsyncVarsOK
  <2>4. Head(queue) > 0
    <3>1. n + 1 \in 1 .. Len(Handed)
      BY <1>2
    <3> QED BY <3>1, <1>2, <1>3, <1>6
  <2>5. GivenInv'
    <3>1. \A k \in 1 .. Len(yielded') : yielded'[k] > 0
      <4>1. yielded \in Seq(Int)
        BY <1>1 DEF AsyncVarsOK
      <4>2. /\ Len(yielded') = n + 1 /\ \A k \in 1 .. n : yielded'[k] = yielded[k]
            /\ yielded'[n + 1] = Head(queue)
        BY <4>1, <2>1, <1>2, AppendProperties
      <4> QED BY SMTT(60), <4>2, <2>4, <1>2 DEF AsyncInv, GivenInv
    <3> QED BY <3>1, <2>1, <1>1 DEF GivenInv
  <2>6. Handed' = Handed
    <3>1. yielded' \o queue' = yielded \o queue
      BY <2>1, <1>1, HeadIsNext
    <3>2. InHand' = InHand
      BY <2>1 DEF InHand
    <3> QED BY <3>1, <3>2 DEF Handed
  <2>7. worker = "last" => hand = StreamDone
    BY <1>1 DEF AsyncInv, HandInv
  <2> QED BY <2>1, <2>3, <2>5, <2>6, <2>7, <1>1, MovesOn
<1> QED BY <1>5, <1>6

LEMMA AsyncRest ==
  ASSUME AsyncInv, ConsumerResumes \/ ConsumerStops \/ Drain \/ JoinReturns \/ CancelledAgain
  PROVE  AsyncInv'
<1>1. UNCHANGED <<sentOff, taken, daemon, worker, hand, yielded>>
  BY DEF ConsumerResumes, ConsumerStops, Leave, Drain, JoinReturns, CancelledAgain, wireVars
<1>2. queue' = queue \/ (queue # <<>> /\ queue' = Tail(queue))
  BY DEF ConsumerResumes, ConsumerStops, Leave, Drain, JoinReturns, CancelledAgain
<1>3. AsyncVarsOK'
  <2>1. queue' \in Seq(Int)
    BY <1>2, HeadTailProperties DEF AsyncInv, AsyncVarsOK
  <2> QED BY <2>1, <1>1 DEF AsyncInv, AsyncVarsOK
<1>4. CASE ConsumerResumes
  <2>1. left = "no" /\ left' = "no" /\ UNCHANGED <<queue, sock>> /\ consumer' = "get"
    BY <1>4 DEF ConsumerResumes, AsyncInv, GivenInv, wireVars
  <2>2. GivenInv'
    BY <2>1, <1>1 DEF AsyncInv, GivenInv
  <2>3. Handed' = Handed
    BY <2>1, <1>1 DEF Handed, InHand
  <2>4. worker = "last" => hand = StreamDone
    BY <2>1 DEF AsyncInv, HandInv
  <2> QED BY <2>1, <2>2, <2>3, <2>4, <1>1, <1>3, MovesOn
<1>5. CASE ConsumerStops
  <2>1. left' = "early" /\ consumer' = "joining"
    BY <1>5 DEF ConsumerStops, Leave
  <2> QED BY <2>1, <1>1, <1>3 DEF AsyncInv, GivenInv, HandInv, YieldsTheStream, HandOffIsExact, EndIsComplete
<1>6. CASE Drain \/ JoinReturns \/ CancelledAgain
  <2>1. left # "no" /\ consumer' \notin {"get", "user"} /\ left' = left
    BY <1>6 DEF AsyncInv, GivenInv, Drain, JoinReturns, CancelledAgain
  <2> QED BY <2>1, <1>1, <1>3, AfterTheEnd
<1> QED BY <1>4, <1>5, <1>6

LEMMA AsyncStep == ASSUME AsyncInv, [AsyncNext]_asyncVars PROVE AsyncInv'
<1>1. CASE UNCHANGED asyncVars
  <2>1. AsyncVarsOK' /\ GivenInv'
    BY <1>1 DEF asyncVars, AsyncInv, AsyncVarsOK, GivenInv
  <2>2. Handed' = Handed
    BY <1>1 DEF asyncVars, Handed, InHand
  <2>3. HandInv'
    BY <2>2, <1>1 DEF asyncVars, AsyncInv, HandInv
  <2>4. HandOffIsExact'
    BY <2>2, <1>1 DEF asyncVars, AsyncInv, YieldsTheStream, HandOffIsExact, Handed
  <2>5. EndIsComplete'
    BY <1>1 DEF asyncVars, AsyncInv, YieldsTheStream, EndIsComplete
  <2> QED BY <2>1, <2>3, <2>4, <2>5 DEF AsyncInv, YieldsTheStream
<1>2. CASE DaemonSends \/ DaemonEnds
  BY <1>2, AsyncDaemon
<1>3. CASE ConsumerResumes \/ ConsumerStops \/ Drain \/ JoinReturns \/ CancelledAgain
  BY <1>3, AsyncRest
<1> QED BY <1>1, <1>2, <1>3, AsyncWorker, AsyncPut, AsyncGets DEF AsyncNext

(* Whatever the interleaving of worker, queue and generator, for any bound *)
(* of the queue: nothing read is dropped, repeated or reordered before the *)
(* generator is left, and it ends by itself only with the whole stream.    *)
THEOREM IterationIsTheStream == AsyncSpec => []YieldsTheStream
<1>1. AsyncInit => AsyncInv
  <2> SUFFICES ASSUME AsyncInit PROVE AsyncInv
    OBVIOUS
  <2>1. /\ sentOff = 0 /\ taken = 0 /\ daemon = "up" /\ sock = "open" /\ worker = "loop" /\ hand = 0
        /\ queue = <<>> /\ yielded = <<>> /\ left = "no" /\ consumer = "get"
    BY DEF AsyncInit, NoItem
  <2>2. AsyncVarsOK
    BY <2>1 DEF AsyncVarsOK
  <2>3. Handed = <<>>
    <3>1. InHand = <<>>
      BY <2>1 DEF InHand
    <3>2. <<>> \in Seq(Int)
      OBVIOUS
    <3>3. <<>> \o <<>> = <<>>
      BY <3>2, ConcatEmptySeq
    <3> QED BY <3>1, <3>3, <2>1 DEF Handed
  <2>4. GivenInv /\ HandInv
    BY <2>1, <2>3 DEF GivenInv, HandInv
  <2>5. YieldsTheStream
    BY <2>1, <2>3 DEF YieldsTheStream, HandOffIsExact, EndIsComplete, Handed
  <2> QED BY <2>2, <2>4, <2>5 DEF AsyncInv
<1>2. AsyncInv => YieldsTheStream
  BY DEF AsyncInv
<1> QED BY <1>1, <1>2, AsyncStep, PTL DEF AsyncSpec

-----------------------------------------------------------------------------
(* Resume: what every session leaves in the file and in the output lets    *)
(* the next one go on, for any entities and any number of rows, sessions   *)
(* and kills.                                                              *)

(* The event_ids of the table are distinct and the bookmark is one of      *)
(* them; a session has read its stream up to pos.                          *)
StreamInv ==
  /\ table \in Seq([id : Nat, ent : Entity \cup {NoEntity}])
  /\ \A i, j \in DOMAIN table : Id(i) = Id(j) => i = j
  /\ \E i \in DOMAIN table : bookmark = Id(i)
  /\ kills \in Nat /\ mode \in Modes
  /\ started \in Nat /\ pos \in Nat /\ 1 <= started /\ started <= pos /\ pos <= Len(table) + 1
  /\ snap \in SUBSET Nat /\ \A i \in snap : 1 <= i /\ started <= i /\ i < pos
  /\ emitted \in Seq(Nat) /\ \A k \in 1 .. Len(emitted) : emitted[k] \in DOMAIN table

(* Faithful: the bookmark is the last frame taken, and it is ahead of what *)
(* was emitted.                                                            *)
FaithfulInv ==
  mode = "faithful" =>
    /\ phase \in {"off", "read", "handed"}
    /\ phase = "read" => pos = Bookmarked + 1
    /\ phase = "handed" => pos = Bookmarked
    /\ \A k, l \in 1 .. Len(emitted) : k < l => emitted[k] < emitted[l]
    /\ \A k \in 1 .. Len(emitted) :
         emitted[k] <= Bookmarked /\ (phase = "handed" => emitted[k] < Bookmarked)
    /\ LossIsBounded

(* What was collected stands for all that was read.                        *)
Covers ==
  \A i \in started .. pos - 1 :
    \E j \in snap : IF Ent(i) = NoEntity THEN j = i
                    ELSE Ent(j) = Ent(i) /\ Id(j) >= Id(i)

(* The flush has the rest of it in event_id order.                         *)
FlushInv ==
  /\ merged \in Seq(Nat) /\ merged # <<>>
  /\ \A k \in 1 .. Len(merged) : merged[k] \in snap
  /\ \A k, l \in 1 .. Len(merged) : k < l => Id(merged[k]) < Id(merged[l])
  /\ \A j \in snap : j \in Range(emitted) \/ \E k \in 1 .. Len(merged) : merged[k] = j
  /\ phase = "advance" => merged[1] \in Range(emitted)

(* Without kills the output ascends and the bookmark follows it.           *)
OutputInv ==
  /\ \A k, l \in 1 .. Len(emitted) : k < l => emitted[k] < emitted[l]
  /\ phase # "advance" => \A k \in 1 .. Len(emitted) : emitted[k] <= Bookmarked
  /\ phase = "advance" => \A k \in 1 .. Len(emitted) : emitted[k] <= merged[1]
  /\ phase = "flush" => Bookmarked < merged[1]

CoalescedInv ==
  mode = "coalesce" =>
    /\ phase \in {"off", "read", "flush", "advance"}
    /\ phase = "read" => Bookmarked = started - 1
    /\ phase # "off" => started <= Bookmarked + 1 /\ Covers
    /\ phase \in {"flush", "advance"} => FlushInv
    /\ IdsInOrder => \A i \in 2 .. Bookmarked : Repulled(i)
    /\ IdsInOrder /\ kills = 0 => OutputInv

ResumeInv == StreamInv /\ FaithfulInv /\ CoalescedInv

(* The row of an event_id is found by it.                                  *)
LEMMA RowIs ==
  ASSUME NEW t, NEW i \in DOMAIN t, \A k, l \in DOMAIN t : t[k].id = t[l].id => k = l
  PROVE  (CHOOSE k \in DOMAIN t : t[k].id = t[i].id) = i
OBVIOUS

LEMMA BookmarkedIs ==
  ASSUME StreamInv
  PROVE  /\ DOMAIN table = 1 .. Len(table) /\ Len(table) \in Nat
         /\ Bookmarked \in DOMAIN table /\ Id(Bookmarked) = bookmark
         /\ Bookmarked \in Nat /\ 1 <= Bookmarked /\ Bookmarked <= Len(table)
<1>1. DOMAIN table = 1 .. Len(table) /\ Len(table) \in Nat
  BY LenProperties DEF StreamInv
<1>2. PICK i \in DOMAIN table : bookmark = Id(i)
  BY DEF StreamInv
<1>3. Bookmarked = i
  BY <1>2, RowIs DEF StreamInv, Bookmarked, Id
<1> QED BY <1>1, <1>2, <1>3

LEMMA IdIs == ASSUME StreamInv, NEW i \in DOMAIN table PROVE Id(i) \in Nat
<1>1. table \in [1 .. Len(table) -> [id : Nat, ent : Entity \cup {NoEntity}]]
  BY LenProperties DEF StreamInv
<1>2. table[i] \in [id : Nat, ent : Entity \cup {NoEntity}]
  BY <1>1
<1> QED BY <1>2 DEF Id

(* The daemon sends from the row behind the bookmark.                      *)
LEMMA SinceIs ==
  ASSUME StreamInv
  PROVE  SeqForEventId(bookmark) = Bookmarked
<1> DEFINE S == {i \in DOMAIN table : Id(i) = bookmark} \cup {0}
<1>1. S = {Bookmarked, 0} /\ Bookmarked \in Nat
  BY BookmarkedIs DEF StreamInv
<1>2. \A x \in S : (\A y \in S : x >= y) <=> x = Bookmarked
  BY <1>1, BookmarkedIs
<1> HIDE DEF S
<1>3. Max(S) = Bookmarked
  BY <1>1, <1>2 DEF Max
<1> QED BY <1>3 DEF SeqForEventId, S

LEMMA AppendRange ==
  ASSUME NEW s \in Seq(Nat), NEW x \in Nat
  PROVE  /\ Append(s, x) \in Seq(Nat) /\ Len(Append(s, x)) = Len(s) + 1 /\ Len(s) \in Nat
         /\ \A k \in 1 .. Len(s) : Append(s, x)[k] = s[k]
         /\ Append(s, x)[Len(s) + 1] = x
         /\ \A i : i \in Range(Append(s, x)) <=> i \in Range(s) \/ i = x
<1>1. /\ Append(s, x) \in Seq(Nat) /\ Len(Append(s, x)) = Len(s) + 1 /\ Len(s) \in Nat
      /\ \A k \in 1 .. Len(s) : Append(s, x)[k] = s[k]
      /\ Append(s, x)[Len(s) + 1] = x
  BY AppendProperties
<1>2. DOMAIN s = 1 .. Len(s) /\ DOMAIN Append(s, x) = 1 .. Len(s) + 1
  BY <1>1, LenProperties
<1>3. \A k : k \in 1 .. Len(s) + 1 <=> k \in 1 .. Len(s) \/ k = Len(s) + 1
  BY <1>1
<1>4. ASSUME NEW i PROVE i \in Range(Append(s, x)) <=> i \in Range(s) \/ i = x
  BY <1>1, <1>2, <1>3 DEF Range
<1> QED BY <1>1, <1>4

(* A row that is appended to an ascending output keeps it ascending.       *)
LEMMA Ascends ==
  ASSUME NEW s \in Seq(Nat), NEW x \in Nat, NEW b \in Nat,
         \A k, l \in 1 .. Len(s) : k < l => s[k] < s[l],
         \A k \in 1 .. Len(s) : s[k] < x, x <= b
  PROVE  /\ \A k, l \in 1 .. Len(Append(s, x)) : k < l => Append(s, x)[k] < Append(s, x)[l]
         /\ \A k \in 1 .. Len(Append(s, x)) : Append(s, x)[k] <= b /\ Append(s, x)[k] <= x
<1>1. /\ Len(Append(s, x)) = Len(s) + 1 /\ Len(s) \in Nat
      /\ \A k \in 1 .. Len(s) : Append(s, x)[k] = s[k] /\ s[k] \in Nat
      /\ Append(s, x)[Len(s) + 1] = x
  BY AppendRange
<1>2. \A k \in 1 .. Len(s) + 1 : k \in 1 .. Len(s) \/ k = Len(s) + 1
  BY <1>1
<1>3. ASSUME NEW k \in 1 .. Len(s) + 1, NEW l \in 1 .. Len(s) + 1, k < l
      PROVE  Append(s, x)[k] < Append(s, x)[l]
  <2>1. k \in 1 .. Len(s)
    BY <1>1, <1>3
  <2>2. CASE l \in 1 .. Len(s)
    BY <2>1, <2>2, <1>1, <1>3
  <2>3. CASE l = Len(s) + 1
    BY <2>1, <2>3, <1>1
  <2> QED BY <2>2, <2>3, <1>2
<1>4. ASSUME NEW k \in 1 .. Len(s) + 1
      PROVE  Append(s, x)[k] <= b /\ Append(s, x)[k] <= x
  BY <1>1, <1>2
<1> QED BY <1>1, <1>3, <1>4

Lost == {i \in 2 .. Bookmarked : i \notin Range(emitted) /\ ~(phase = "handed" /\ i = pos)}

LEMMA LossIs == LossIsBounded <=> (mode = "faithful" => Cardinality(Lost) <= kills)
BY DEF LossIsBounded, Lost

(* What has been emitted or superseded stays so.                           *)
LEMMA RepulledStays ==
  ASSUME \A j \in DOMAIN table : j \in DOMAIN table' /\ table'[j] = table[j], Bookmarked' = Bookmarked,
         \A j \in Range(emitted) : j \in Range(emitted)',
         NEW i \in DOMAIN table, Repulled(i)
  PROVE  Repulled(i)'
BY DEF Repulled, Id, Ent

(* A session that only moves on keeps what it has.                         *)
LEMMA SessionMoves ==
  ASSUME StreamInv, UNCHANGED <<table, bookmark>>
  PROVE  /\ Bookmarked' = Bookmarked /\ (IdsInOrder' <=> IdsInOrder)
         /\ \A i : Id(i)' = Id(i) /\ Ent(i)' = Ent(i)
         /\ emitted' = emitted => Range(emitted)' = Range(emitted) /\ \A i : Repulled(i)' <=> Repulled(i)
<1>1. Bookmarked' = Bookmarked
  BY DEF Bookmarked, Id
<1>2. (IdsInOrder' <=> IdsInOrder)
  BY DEF IdsInOrder, Id
<1>3. \A i : Id(i)' = Id(i) /\ Ent(i)' = Ent(i)
  BY DEF Id, Ent
<1>4. emitted' = emitted => Range(emitted)' = Range(emitted)
  OBVIOUS
<1>5. emitted' = emitted => \A i : Repulled(i)' <=> Repulled(i)
  BY <1>1, <1>4 DEF Repulled, Id, Ent
<1> QED BY <1>1, <1>2, <1>3, <1>4, <1>5

LEMMA ResumeCommit ==
  ASSUME ResumeInv, NEW id \in 1 .. MaxRows, NEW ent \in Entity \cup {NoEntity}, Commit(id, ent)
  PROVE  ResumeInv'
<1>1. /\ table' = Append(table, [id |-> id, ent |-> ent]) /\ \A i \in DOMAIN table : Id(i) # id
      /\ UNCHANGED <<bookmark, phase, mode, pos, started, snap, merged, emitted, sessions, kills>>
  BY DEF Commit, session
<1> DEFINE n == Len(table)
<1>2. StreamInv /\ DOMAIN table = 1 .. n /\ n \in Nat
  BY BookmarkedIs DEF ResumeInv
<1>3. [id |-> id, ent |-> ent] \in [id : Nat, ent : Entity \cup {NoEntity}]
  BY ResumeAssumption
<1>4. /\ table' \in Seq([id : Nat, ent : Entity \cup {NoEntity}]) /\ Len(table') = n + 1
      /\ \A i \in 1 .. n : table'[i] = table[i]
      /\ table'[n + 1] = [id |-> id, ent |-> ent]
  BY <1>1, <1>2, <1>3, AppendProperties DEF StreamInv
<1>5. DOMAIN table' = 1 .. n + 1
  BY <1>4, LenProperties
<1>6. \A i : i \in 1 .. n + 1 <=> i \in 1 .. n \/ i = n + 1
  BY <1>2
<1> HIDE DEF n
<1>7. \A i \in DOMAIN table : i \in DOMAIN table' /\ table'[i] = table[i]
  BY <1>2, <1>4, <1>5, <1>6
<1>8. \A i, j \in DOMAIN table' : table'[i].id = table'[j].id => i = j
  <2>1. \A i \in DOMAIN table : table'[i].id # table'[n + 1].id
    BY <1>1, <1>4, <1>7 DEF Id
  <2>2. \A i, j \in DOMAIN table : table'[i].id = table'[j].id => i = j
    BY <1>2, <1>7 DEF StreamInv, Id
  <2> QED BY <2>1, <2>2, <1>2, <1>5, <1>6
<1>9. StreamInv'
  <2>1. \E i \in DOMAIN table' : bookmark' = table'[i].id
    BY <1>1, <1>2, <1>7 DEF StreamInv, Id
  <2>2. pos' <= Len(table') + 1
    BY <1>1, <1>2, <1>4 DEF StreamInv, n
  <2>3. \A k \in 1 .. Len(emitted') : emitted'[k] \in DOMAIN table'
    BY <1>1, <1>2, <1>7 DEF StreamInv
  <2> QED BY <1>1, <1>2, <1>4, <1>8, <2>1, <2>2, <2>3 DEF StreamInv, Id
<1>10. Bookmarked' = Bookmarked
  <2>1. PICK i \in DOMAIN table : bookmark = table[i].id
    BY <1>2 DEF StreamInv, Id
  <2>2. Bookmarked = i
    BY <2>1, <1>2, RowIs DEF StreamInv, Bookmarked, Id
  <2>3. i \in DOMAIN table' /\ bookmark' = table'[i].id
    BY <2>1, <1>1, <1>7
  <2>4. Bookmarked' = i
    BY <2>3, <1>8, RowIs DEF Bookmarked, Id
  <2> QED BY <2>2, <2>4
<1>11. Lost' = Lost
  BY <1>1, <1>10 DEF Lost
<1>12. FaithfulInv'
  BY <1>1, <1>10, <1>11, LossIs DEF ResumeInv, FaithfulInv, LossIsBounded, Lost
<1>13. \A i : i \in DOMAIN table => Id(i)' = Id(i) /\ Ent(i)' = Ent(i)
  BY <1>7 DEF Id, Ent
<1>14. \A j \in snap : j \in DOMAIN table
  BY <1>2 DEF StreamInv, n
<1>15. Covers => Covers'
  <2>1. \A i \in started .. pos - 1 : i \in DOMAIN table
    BY <1>2 DEF StreamInv, n
  <2> QED BY <2>1, <1>1, <1>13, <1>14 DEF Covers
<1>16. FlushInv => FlushInv'
  BY <1>1, <1>13, <1>14 DEF FlushInv
<1>17. IdsInOrder' => IdsInOrder
  BY <1>7 DEF IdsInOrder, Id
<1>18. \A i \in 2 .. Bookmarked : Repulled(i) => Repulled(i)'
  <2>1. \A i \in 2 .. Bookmarked : i \in DOMAIN table
    BY <1>2, BookmarkedIs
  <2> QED BY <2>1, <1>1, <1>7, <1>10, RepulledStays
<1>19. CoalescedInv'
  BY <1>1, <1>10, <1>15, <1>16, <1>17, <1>18 DEF ResumeInv, CoalescedInv, OutputInv
<1> QED BY <1>9, <1>12, <1>19 DEF ResumeInv

LEMMA ResumeStart == ASSUME ResumeInv, Start PROVE ResumeInv'
<1>1. /\ phase = "off" /\ phase' = "read" /\ pos' = Bookmarked + 1 /\ started' = Bookmarked + 1
      /\ snap' = {} /\ UNCHANGED <<table, bookmark, mode, emitted, kills>>
  BY SinceIs DEF Start, ResumeInv
<1>2. /\ StreamInv /\ Bookmarked \in Nat /\ 1 <= Bookmarked /\ Bookmarked <= Len(table)
      /\ Len(table) \in Nat
  BY BookmarkedIs DEF ResumeInv
<1>3. /\ Bookmarked' = Bookmarked /\ (IdsInOrder' <=> IdsInOrder)
      /\ Range(emitted)' = Range(emitted) /\ \A i : Repulled(i)' <=> Repulled(i)
  BY <1>1, <1>2, SessionMoves
<1>4. StreamInv'
  BY <1>1, <1>2 DEF StreamInv, Id
<1>5. Lost' = Lost
  BY <1>1, <1>3 DEF Lost
<1>6. FaithfulInv'
  BY <1>1, <1>3, <1>5, LossIs DEF ResumeInv, FaithfulInv, LossIsBounded, Lost
<1>7. Covers'
  BY <1>1, <1>2 DEF Covers
<1>8. OutputInv => OutputInv'
  BY <1>1, <1>3 DEF OutputInv
<1>9. CoalescedInv'
  BY <1>1, <1>2, <1>3, <1>7, <1>8 DEF ResumeInv, CoalescedInv
<1> QED BY <1>4, <1>6, <1>9 DEF ResumeInv

LEMMA ResumeAdvance == ASSUME ResumeInv, Advance PROVE ResumeInv'
<1>1. /\ phase = "read" /\ mode = "faithful" /\ pos <= Len(table) /\ bookmark' = Id(pos)
      /\ phase' = "handed"
      /\ UNCHANGED <<table, mode, pos, started, snap, merged, emitted, sessions, kills>>
  BY DEF Advance
<1>2. /\ StreamInv /\ DOMAIN table = 1 .. Len(table) /\ Len(table) \in Nat
      /\ pos = Bookmarked + 1 /\ Bookmarked \in Nat /\ 1 <= Bookmarked
  BY <1>1, BookmarkedIs DEF ResumeInv, FaithfulInv
<1>3. pos \in DOMAIN table
  BY <1>1, <1>2
<1>4. Bookmarked' = pos
  BY <1>1, <1>2, <1>3, RowIs DEF Bookmarked, Id, StreamInv
<1>5. StreamInv'
  BY <1>1, <1>2, <1>3 DEF StreamInv, Id
<1>6. Lost' = Lost
  <2>1. \A i : i \in 2 .. pos /\ i # pos <=> i \in 2 .. Bookmarked
    BY <1>2
  <2>2. Lost' = {i \in 2 .. pos : i \notin Range(emitted) /\ i # pos}
    BY <1>1, <1>4 DEF Lost
  <2>3. Lost = {i \in 2 .. Bookmarked : i \notin Range(emitted)}
    BY <1>1 DEF Lost
  <2> QED BY <2>1, <2>2, <2>3
<1>7. \A k \in 1 .. Len(emitted) : emitted[k] \in Nat /\ emitted[k] <= Bookmarked
  <2>1. \A k \in 1 .. Len(emitted) : emitted[k] <= Bookmarked
    BY <1>1 DEF ResumeInv, FaithfulInv
  <2>2. emitted \in Seq(Nat)
    BY <1>2 DEF StreamInv
  <2>3. \A k \in 1 .. Len(emitted) : emitted[k] \in Nat
    BY <2>2
  <2> QED BY <2>1, <2>3
<1>8. \A k \in 1 .. Len(emitted') : emitted'[k] <= Bookmarked' /\ emitted'[k] < Bookmarked'
  BY <1>1, <1>2, <1>4, <1>7
<1>9. FaithfulInv'
  BY <1>1, <1>4, <1>6, <1>8, LossIs DEF ResumeInv, FaithfulInv, LossIsBounded, Lost
<1>10. CoalescedInv'
  BY <1>1 DEF CoalescedInv
<1> QED BY <1>5, <1>9, <1>10 DEF ResumeInv

LEMMA ResumeDecide == ASSUME ResumeInv, Decide PROVE ResumeInv'
<1>1. /\ phase = "handed" /\ emitted' = Append(emitted, pos) /\ pos' = pos + 1 /\ phase' \in {"read", "off"}
      /\ UNCHANGED <<table, bookmark, mode, started, snap, merged, sessions, kills>>
  BY DEF Decide
<1>2. /\ StreamInv /\ DOMAIN table = 1 .. Len(table) /\ Len(table) \in Nat
      /\ Bookmarked \in Nat /\ 1 <= Bookmarked /\ Bookmarked <= Len(table)
      /\ emitted \in Seq(Nat)
  BY BookmarkedIs DEF ResumeInv, StreamInv
<1>3. mode = "faithful" /\ pos = Bookmarked
  BY <1>1, <1>2 DEF ResumeInv, FaithfulInv, CoalescedInv, StreamInv, Modes
<1>4. Bookmarked' = Bookmarked
  BY <1>1, <1>2, SessionMoves
<1>5. /\ \A k, l \in 1 .. Len(emitted') : k < l => emitted'[k] < emitted'[l]
      /\ \A k \in 1 .. Len(emitted') : emitted'[k] <= Bookmarked
  BY <1>1, <1>2, <1>3, Ascends DEF ResumeInv, FaithfulInv
<1>6. /\ emitted' \in Seq(Nat) /\ Len(emitted') = Len(emitted) + 1 /\ Len(emitted) \in Nat
      /\ \A k \in 1 .. Len(emitted) : emitted'[k] = emitted[k]
      /\ emitted'[Len(emitted) + 1] = pos
      /\ \A i : i \in Range(emitted') <=> i \in Range(emitted) \/ i = pos
  BY <1>1, <1>2, <1>3, AppendRange
<1>7. \A k \in 1 .. Len(emitted') : emitted'[k] \in DOMAIN table
  <2>1. pos \in DOMAIN table
    BY <1>2, <1>3
  <2>2. \A k \in 1 .. Len(emitted) : emitted[k] \in DOMAIN table
    BY <1>2 DEF StreamInv
  <2>3. \A k \in 1 .. Len(emitted') : k \in 1 .. Len(emitted) \/ k = Len(emitted) + 1
    BY <1>6
  <2> QED BY <2>1, <2>2, <2>3, <1>6
<1>8. StreamInv'
  <2>1. pos' \in Nat /\ started <= pos' /\ pos' <= Len(table) + 1 /\ \A i \in snap : i < pos'
    BY <1>1, <1>2, <1>3 DEF StreamInv
  <2> QED BY <2>1, <1>1, <1>2, <1>6, <1>7 DEF StreamInv, Id
<1>9. Lost' = Lost
  <2>1. Lost' = {i \in 2 .. Bookmarked : i \notin Range(emitted')}
    BY <1>1, <1>4 DEF Lost
  <2>2. Lost = {i \in 2 .. Bookmarked : i \notin Range(emitted) /\ i # pos}
    BY <1>1 DEF Lost
  <2> QED BY <2>1, <2>2, <1>6
<1>10. FaithfulInv'
  BY <1>1, <1>3, <1>4, <1>5, <1>9, LossIs DEF ResumeInv, FaithfulInv, LossIsBounded, Lost
<1>11. CoalescedInv'
  BY <1>1, <1>3 DEF CoalescedInv
<1> QED BY <1>8, <1>10, <1>11 DEF ResumeInv

LEMMA ResumeStops == ASSUME ResumeInv, End \/ Kill PROVE ResumeInv'
<1>1. phase' = "off" /\ (kills' = kills \/ kills' = kills + 1)
      /\ UNCHANGED <<table, bookmark, mode, pos, started, snap, merged, emitted, sessions>>
  BY DEF End, Kill
<1>2. StreamInv /\ kills \in Nat /\ Bookmarked \in Nat /\ Bookmarked' = Bookmarked
  BY <1>1, BookmarkedIs, SessionMoves DEF ResumeInv, StreamInv
<1>6. (IdsInOrder' <=> IdsInOrder) /\ \A i : Repulled(i)' <=> Repulled(i)
  BY <1>1, <1>2, SessionMoves
<1>3. StreamInv'
  BY <1>1, <1>2 DEF StreamInv, Id
<1>4. FaithfulInv'
  <2> SUFFICES ASSUME mode = "faithful" PROVE FaithfulInv'
    BY <1>1 DEF FaithfulInv
  <2>1. Cardinality(Lost) <= kills /\ Cardinality(Lost) \in Nat /\ IsFiniteSet(Lost)
    <3>1. IsFiniteSet(2 .. Bookmarked) /\ Lost \in SUBSET (2 .. Bookmarked)
      BY <1>2, FS_Interval DEF Lost
    <3>2. IsFiniteSet(Lost)
      BY <3>1, FS_Subset
    <3> QED BY <3>2, FS_CardinalityType, LossIs DEF ResumeInv, FaithfulInv
  <2>2. Cardinality(Lost') <= kills'
    <3>1. CASE phase # "handed"
      <4>1. Lost' = Lost
        BY <3>1, <1>1, <1>2 DEF Lost
      <4> QED BY <4>1, <2>1, <1>1, <1>2
    <3>2. CASE phase = "handed"
      <4>1. \A i \in Lost' : i \in Lost \cup {pos}
        BY <1>1, <1>2 DEF Lost
      <4>2. IsFiniteSet(Lost \cup {pos}) /\ Cardinality(Lost \cup {pos}) <= Cardinality(Lost) + 1
        BY <2>1, FS_AddElement
      <4>3. Cardinality(Lost') <= Cardinality(Lost \cup {pos}) /\ Cardinality(Lost') \in Nat
            /\ Cardinality(Lost \cup {pos}) \in Nat
        <5>1. Lost' \in SUBSET (Lost \cup {pos})
          BY <4>1
        <5> QED BY <5>1, <4>2, FS_Subset, FS_CardinalityType
      <4>4. kills' = kills + 1
        BY <3>2 DEF End, Kill
      <4> QED BY <4>2, <4>3, <4>4, <2>1, <1>2
    <3> QED BY <3>1, <3>2
  <2>3. LossIsBounded'
    BY <2>2, <1>1 DEF LossIsBounded, Lost
  <2> QED BY <2>3, <1>1, <1>2 DEF ResumeInv, FaithfulInv
<1>5. CoalescedInv'
  <2>1. OutputInv /\ phase # "advance" => OutputInv'
    BY <1>1, <1>2 DEF OutputInv
  <2>2. kills' = 0 => kills = 0 /\ phase = "read"
    BY <1>2 DEF End, Kill
  <2> QED BY <2>1, <2>2, <1>1, <1>2, <1>6 DEF ResumeInv, CoalescedInv
<1> QED BY <1>3, <1>4, <1>5 DEF ResumeInv

LEMMA ResumeCollect == ASSUME ResumeInv, Collect PROVE ResumeInv'
<1> DEFINE same == {j \in snap : Ent(pos) # NoEntity /\ Ent(j) = Ent(pos)}
<1>1. /\ phase = "read" /\ mode = "coalesce" /\ pos <= Len(table) /\ pos' = pos + 1
      /\ snap' = IF \A j \in same : Id(pos) > Id(j) THEN (snap \ same) \cup {pos} ELSE snap
      /\ UNCHANGED <<table, bookmark, phase, mode, started, merged, emitted, sessions, kills>>
  BY DEF Collect, Accumulate
<1>2. /\ StreamInv /\ DOMAIN table = 1 .. Len(table) /\ Len(table) \in Nat /\ pos \in Nat /\ started \in Nat
      /\ 1 <= started /\ started <= pos
      /\ snap \in SUBSET Nat /\ \A i \in snap : 1 <= i /\ started <= i /\ i < pos
  BY BookmarkedIs DEF ResumeInv, StreamInv
<1>3. Bookmarked' = Bookmarked
  BY <1>1, <1>2, SessionMoves
<1>4. (IdsInOrder' <=> IdsInOrder) /\ \A i : Repulled(i)' <=> Repulled(i)
  BY <1>1, <1>2, SessionMoves
<1>5. same \in SUBSET snap /\ snap' \in SUBSET (snap \cup {pos})
  BY <1>1
<1>6. StreamInv'
  <2>1. snap' \in SUBSET Nat /\ \A i \in snap' : 1 <= i /\ started <= i /\ i < pos + 1
    BY <1>2, <1>5
  <2> QED BY <2>1, <1>1, <1>2 DEF StreamInv, Id
<1>7. \A i \in DOMAIN table : Id(i) \in Nat
  BY <1>2, IdIs
<1>8. Covers
  BY <1>1 DEF ResumeInv, CoalescedInv
<1> DEFINE Stands(j, i) == IF Ent(i) = NoEntity THEN j = i ELSE Ent(j) = Ent(i) /\ Id(j) >= Id(i)
<1>9. ASSUME NEW i \in started .. pos PROVE \E j \in snap' : Stands(j, i)
  <2>1. i \in DOMAIN table /\ pos \in DOMAIN table
    BY <1>1, <1>2
  <2>2. CASE i # pos
    <3>1. i \in started .. pos - 1
      BY <2>2, <1>2
    <3>2. PICK j \in snap : Stands(j, i)
      BY <3>1, <1>8 DEF Covers
    <3>3. j \in DOMAIN table
      BY <1>1, <1>2
    <3>4. CASE j \in snap'
      BY <3>2, <3>4
    <3>5. CASE j \notin snap'
      <4>1. j \in same /\ pos \in snap' /\ Id(pos) > Id(j)
        BY <3>5, <1>1
      <4>2. Ent(i) # NoEntity /\ Ent(j) = Ent(i) /\ Id(j) >= Id(i) /\ Ent(pos) = Ent(j)
        <5>1. Ent(pos) # NoEntity /\ Ent(j) = Ent(pos)
          BY <4>1
        <5> QED BY <5>1, <3>2
      <4>3. Id(pos) >= Id(i)
        BY <4>1, <4>2, <2>1, <3>3, <1>7
      <4> QED BY <4>1, <4>2, <4>3
    <3> QED BY <3>4, <3>5
  <2>3. CASE i = pos
    <3>1. CASE \A j \in same : Id(pos) > Id(j)
      <4>1. pos \in snap' /\ Id(pos) >= Id(pos)
        BY <3>1, <2>1, <1>1, <1>7
      <4> QED BY <4>1, <2>3
    <3>2. CASE ~ \A j \in same : Id(pos) > Id(j)
      <4>1. PICK j \in same : ~(Id(pos) > Id(j))
        BY <3>2
      <4>2. j \in snap /\ Ent(pos) # NoEntity /\ Ent(j) = Ent(pos) /\ j \in DOMAIN table
        BY <1>1, <1>2
      <4>3. Id(j) >= Id(pos)
        BY <4>1, <4>2, <2>1, <1>7
      <4>4. snap' = snap
        BY <3>2, <1>1
      <4> QED BY <4>2, <4>3, <4>4, <2>3
    <3> QED BY <3>1, <3>2
  <2> QED BY <2>2, <2>3
<1>10. Covers'
  <2>1. \A i : i \in started' .. pos' - 1 <=> i \in started .. pos
    BY <1>1, <1>2
  <2>2. \A i, j : Stands(j, i)' <=> Stands(j, i)
    BY <1>1 DEF Id, Ent
  <2> QED BY <2>1, <2>2, <1>9 DEF Covers
<1>11. OutputInv => OutputInv'
  BY <1>1, <1>3 DEF OutputInv
<1>12. CoalescedInv'
  BY <1>1, <1>3, <1>4, <1>10, <1>11 DEF ResumeInv, CoalescedInv
<1>13. FaithfulInv'
  BY <1>1 DEF FaithfulInv
<1> QED BY <1>6, <1>12, <1>13 DEF ResumeInv

(* What was collected can be put in the order of its event_ids: each row's *)
(* place is the number of rows that are not behind it.                     *)
LEMMA MergeExists ==
  ASSUME NEW S \in SUBSET Nat, IsFiniteSet(S), NEW key \in [S -> Nat],
         \A i, j \in S : key[i] = key[j] => i = j
  PROVE  \E s \in [1 .. Cardinality(S) -> S] :
           \A k, l \in DOMAIN s : k < l => key[s[k]] < key[s[l]]
<1> DEFINE n == Cardinality(S)
           UpTo(i) == {j \in S : key[j] <= key[i]}
           rank == [i \in S |-> Cardinality(UpTo(i))]
<1>0. n \in Nat /\ \A i \in S : key[i] \in Nat
  BY FS_CardinalityType
<1>1. \A i \in S : UpTo(i) \in SUBSET S /\ IsFiniteSet(UpTo(i)) /\ i \in UpTo(i)
  <2>1. ASSUME NEW i \in S PROVE UpTo(i) \in SUBSET S /\ i \in UpTo(i)
    BY <1>0
  <2> QED BY <2>1, FS_Subset
<1>2. ASSUME NEW i \in S
      PROVE  rank[i] \in 1 .. n
  <2>1. Cardinality(UpTo(i)) \in Nat /\ Cardinality(UpTo(i)) <= n
    BY <1>1, FS_Subset, FS_CardinalityType
  <2>2. Cardinality(UpTo(i)) # 0
    BY <1>1, FS_EmptySet
  <2> QED BY <2>1, <2>2, <1>0
<1>3. ASSUME NEW i \in S, NEW j \in S, key[i] < key[j]
      PROVE  rank[i] < rank[j]
  <2>1. UpTo(i) \in SUBSET UpTo(j) /\ j \notin UpTo(i)
    <3>1. ASSUME NEW k \in S, key[k] <= key[i] PROVE key[k] <= key[j]
      BY <1>0, <1>3, <3>1
    <3>2. ~ (key[j] <= key[i])
      BY <1>0, <1>3
    <3> QED BY <3>1, <3>2
  <2>2. IsFiniteSet(UpTo(j)) /\ j \in UpTo(j)
    BY <1>1
  <2>3. Cardinality(UpTo(i)) <= Cardinality(UpTo(j)) /\ Cardinality(UpTo(i)) # Cardinality(UpTo(j))
    BY <2>1, <2>2, FS_Subset
  <2>4. Cardinality(UpTo(i)) \in Nat /\ Cardinality(UpTo(j)) \in Nat
    BY <1>1, FS_CardinalityType
  <2> QED BY <2>3, <2>4
<1> HIDE DEF rank
<1>4. rank \in Injection(S, 1 .. n)
  <2>1. rank \in [S -> 1 .. n]
    BY <1>2 DEF rank
  <2>2. ASSUME NEW i \in S, NEW j \in S, rank[i] = rank[j] PROVE i = j
    <3>1. rank[i] \in 1 .. n /\ rank[j] \in 1 .. n
      BY <1>2
    <3>2. key[i] < key[j] \/ key[j] < key[i] \/ key[i] = key[j]
      BY <1>0
    <3> QED BY <2>2, <3>1, <3>2, <1>3, <1>0
  <2> QED BY <2>1, <2>2 DEF Injection, IsInjective
<1>5. IsFiniteSet(1 .. n) /\ Cardinality(1 .. n) = n
  BY <1>0, FS_Interval
<1>6. rank \in Surjection(S, 1 .. n)
  BY <1>4, <1>5, FS_Injection
<1> DEFINE s == [k \in 1 .. n |-> CHOOSE i \in S : rank[i] = k]
<1>7. \A k \in 1 .. n : s[k] \in S /\ rank[s[k]] = k
  <2>1. ASSUME NEW k \in 1 .. n PROVE \E i \in S : rank[i] = k
    BY <1>6 DEF Surjection
  <2> QED BY <2>1
<1> HIDE DEF s
<1>8. s \in [1 .. n -> S]
  BY <1>7 DEF s
<1>9. ASSUME NEW k \in 1 .. n, NEW l \in 1 .. n, k < l
      PROVE  key[s[k]] < key[s[l]]
  <2>1. s[k] \in S /\ s[l] \in S /\ rank[s[k]] = k /\ rank[s[l]] = l
    BY <1>7
  <2>0. key[s[k]] \in Nat /\ key[s[l]] \in Nat
    BY <2>1, <1>0
  <2>2. key[s[k]] # key[s[l]]
    <3>1. k # l
      BY <1>9, <1>0
    <3>2. key[s[k]] = key[s[l]] => s[k] = s[l]
      BY <2>1
    <3> QED BY <2>1, <3>1, <3>2
  <2>3. ~ (key[s[l]] < key[s[k]])
    <3>1. SUFFICES ASSUME key[s[l]] < key[s[k]] PROVE FALSE
      OBVIOUS
    <3>2. l < k
      BY <2>1, <3>1, <1>3
    <3> QED BY <3>2, <1>9, <1>0
  <2> QED BY <2>0, <2>2, <2>3
<1> QED BY <1>8, <1>9

(* So Merge lists all of it, each row once, the oldest event_id first.     *)
LEMMA MergeIs ==
  ASSUME StreamInv
  PROVE  /\ Merge \in Seq(Nat) /\ Len(Merge) \in Nat
         /\ \A k \in 1 .. Len(Merge) : Merge[k] \in snap
         /\ \A k, l \in 1 .. Len(Merge) : k < l => Id(Merge[k]) < Id(Merge[l])
         /\ \A j \in snap : \E k \in 1 .. Len(Merge) : Merge[k] = j
<1> DEFINE key == [i \in snap |-> Id(i)]
           n == Cardinality(snap)
           s == Merge
<1>1. /\ snap \in SUBSET Nat /\ \A i \in snap : i \in DOMAIN table /\ Id(i) \in Nat
      /\ \A i, j \in snap : Id(i) = Id(j) => i = j
  <2>1. \A i \in snap : i \in DOMAIN table
    <3>1. DOMAIN table = 1 .. Len(table) /\ Len(table) \in Nat
      BY BookmarkedIs
    <3>2. pos \in Nat /\ pos <= Len(table) + 1 /\ \A i \in snap : i \in Nat /\ 1 <= i /\ i < pos
      BY DEF StreamInv
    <3> QED BY <3>1, <3>2
  <2> QED BY <2>1, IdIs DEF StreamInv
<1>2. IsFiniteSet(snap) /\ n \in Nat
  <2>1. IsFiniteSet(1 .. Len(table)) /\ snap \in SUBSET (1 .. Len(table))
    BY <1>1, BookmarkedIs, FS_Interval
  <2> QED BY <2>1, FS_Subset, FS_CardinalityType
<1>3. key \in [snap -> Nat] /\ \A i, j \in snap : key[i] = key[j] => i = j
  BY <1>1
<1> HIDE DEF n, key
<1>4. PICK t \in [1 .. n -> snap] : \A k, l \in DOMAIN t : k < l => key[t[k]] < key[t[l]]
  BY <1>1, <1>2, <1>3, MergeExists DEF n
<1>5. \A k, l \in DOMAIN t : k < l => Id(t[k]) < Id(t[l])
  BY <1>4 DEF key
<1>6. s \in [1 .. n -> snap] /\ \A k, l \in DOMAIN s : k < l => Id(s[k]) < Id(s[l])
  BY <1>4, <1>5 DEF Merge, n
<1> HIDE DEF s
<1>7. s \in [1 .. n -> Nat] /\ DOMAIN s = 1 .. n /\ \A k \in 1 .. n : s[k] \in snap
  BY <1>1, <1>6
<1>8. s \in Seq(Nat) /\ Len(s) = n
  BY <1>2, <1>7, LenProperties
<1>9. s \in Injection(1 .. n, snap)
  <2>1. ASSUME NEW k \in 1 .. n, NEW l \in 1 .. n, s[k] = s[l] PROVE k = l
    <3>1. Id(s[k]) \in Nat /\ Id(s[l]) \in Nat /\ Id(s[k]) = Id(s[l])
      BY <1>1, <1>7, <2>1
    <3>2. k < l \/ l < k \/ k = l
      BY <1>2
    <3> QED BY <3>1, <3>2, <1>6, <1>7
  <2> QED BY <1>6, <2>1 DEF Injection, IsInjective
<1>10. IsFiniteSet(1 .. n) /\ Cardinality(1 .. n) = n
  BY <1>2, FS_Interval
<1>11. s \in Surjection(1 .. n, snap)
  BY <1>2, <1>9, <1>10, FS_Injection DEF n
<1>12. \A j \in snap : \E k \in 1 .. n : s[k] = j
  BY <1>11 DEF Surjection
<1> QED BY <1>2, <1>6, <1>7, <1>8, <1>12 DEF s

LEMMA ResumeBacklogEnds == ASSUME ResumeInv, BacklogEnds PROVE ResumeInv'
<1>1. /\ phase = "read" /\ mode = "coalesce" /\ merged' = Merge
      /\ phase' = IF merged' = <<>> THEN "off" ELSE "flush"
      /\ UNCHANGED <<table, bookmark, mode, pos, started, snap, emitted, sessions, kills>>
  BY DEF BacklogEnds
<1>2. StreamInv /\ Bookmarked \in Nat /\ started \in Nat /\ Bookmarked' = Bookmarked /\ Bookmarked = started - 1
  BY <1>1, BookmarkedIs, SessionMoves DEF ResumeInv, CoalescedInv, StreamInv
<1>3. (IdsInOrder' <=> IdsInOrder) /\ \A i : Repulled(i)' <=> Repulled(i)
  BY <1>1, <1>2, SessionMoves
<1>4. StreamInv'
  BY <1>1, <1>2 DEF StreamInv, Id
<1>5. Covers'
  BY <1>1 DEF ResumeInv, CoalescedInv, Covers, Id, Ent
<1>6. /\ merged' \in Seq(Nat)
      /\ \A k \in 1 .. Len(merged') : merged'[k] \in snap
      /\ \A k, l \in 1 .. Len(merged') : k < l => Id(merged'[k]) < Id(merged'[l])
      /\ \A j \in snap : \E k \in 1 .. Len(merged') : merged'[k] = j
  BY <1>1, <1>2, MergeIs
<1>7. phase' = "flush" => FlushInv'
  BY <1>1, <1>6 DEF FlushInv, Id
<1>8. OutputInv => OutputInv'
  <2>1. phase' = "flush" => Bookmarked < merged'[1]
    <3>1. SUFFICES ASSUME merged' # <<>> PROVE Bookmarked < merged'[1]
      BY <1>1
    <3>2. merged'[1] \in snap
      <4>1. 1 \in 1 .. Len(merged')
        BY <3>1, <1>6, EmptySeq
      <4> QED BY <4>1, <1>6
    <3>3. merged'[1] \in Nat /\ started <= merged'[1]
      BY <3>2, <1>2 DEF StreamInv
    <3> QED BY <3>3, <1>2
  <2> QED BY <2>1, <1>1, <1>2 DEF OutputInv
<1>9. phase' \in {"off", "flush"}
  BY <1>1
<1>10. CoalescedInv'
  BY <1>1, <1>2, <1>3, <1>5, <1>7, <1>8, <1>9 DEF ResumeInv, CoalescedInv
<1>11. FaithfulInv'
  BY <1>1 DEF FaithfulInv
<1> QED BY <1>4, <1>10, <1>11 DEF ResumeInv

LEMMA ResumeFlushEmit == ASSUME ResumeInv, FlushEmit PROVE ResumeInv'
<1>1. /\ phase = "flush" /\ emitted' = Append(emitted, Head(merged)) /\ phase' = "advance"
      /\ UNCHANGED <<table, bookmark, mode, pos, started, snap, merged, sessions, kills>>
  BY DEF FlushEmit
<1>2. StreamInv /\ Bookmarked \in Nat /\ Bookmarked' = Bookmarked /\ emitted \in Seq(Nat)
  BY <1>1, BookmarkedIs, SessionMoves DEF ResumeInv, StreamInv
<1>3. mode = "coalesce" /\ FlushInv /\ Covers /\ started <= Bookmarked + 1
  BY <1>1, <1>2 DEF ResumeInv, FaithfulInv, CoalescedInv, StreamInv, Modes
<1> DEFINE h == merged[1]
<1>4. Head(merged) = h /\ h \in snap /\ h \in Nat /\ h \in DOMAIN table
  <2>1. merged \in Seq(Nat) /\ merged # <<>>
    BY <1>3 DEF FlushInv
  <2>2. 1 \in 1 .. Len(merged) /\ Head(merged) = h
    BY <2>1, EmptySeq, HeadTailProperties
  <2>3. h \in snap
    BY <2>2, <1>3 DEF FlushInv
  <2>4. DOMAIN table = 1 .. Len(table) /\ Len(table) \in Nat
    BY <1>2, BookmarkedIs
  <2>5. pos \in Nat /\ pos <= Len(table) + 1 /\ h \in Nat /\ 1 <= h /\ h < pos
    BY <2>3, <1>2 DEF StreamInv
  <2> QED BY <2>2, <2>3, <2>4, <2>5
<1> HIDE DEF h
<1>5. emitted' = Append(emitted, h)
  BY <1>1, <1>4
<1>6. /\ emitted' \in Seq(Nat) /\ Len(emitted') = Len(emitted) + 1 /\ Len(emitted) \in Nat
      /\ \A k \in 1 .. Len(emitted) : emitted'[k] = emitted[k]
      /\ emitted'[Len(emitted) + 1] = h
      /\ \A i : i \in Range(emitted') <=> i \in Range(emitted) \/ i = h
  BY <1>2, <1>4, <1>5, AppendRange
<1>7. StreamInv'
  <2>1. \A k \in 1 .. Len(emitted) : emitted[k] \in DOMAIN table
    BY <1>2 DEF StreamInv
  <2>2. \A k \in 1 .. Len(emitted') : k \in 1 .. Len(emitted) \/ k = Len(emitted) + 1
    BY <1>6
  <2>3. \A k \in 1 .. Len(emitted') : emitted'[k] \in DOMAIN table
    BY <2>1, <2>2, <1>4, <1>6
  <2> QED BY <2>3, <1>1, <1>2, <1>6 DEF StreamInv, Id
<1>8. FlushInv'
  BY <1>1, <1>3, <1>6 DEF FlushInv, Id, h
<1>9. Covers'
  BY <1>1, <1>3 DEF Covers, Id, Ent
<1>10. IdsInOrder' <=> IdsInOrder
  BY <1>1, <1>2, SessionMoves
<1>11. \A i \in 2 .. Bookmarked : Repulled(i) => Repulled(i)'
  <2>1. \A i \in 2 .. Bookmarked : i \in DOMAIN table
    BY <1>2, BookmarkedIs
  <2>2. \A j \in Range(emitted) : j \in Range(emitted)'
    BY <1>6
  <2> QED BY <2>1, <2>2, <1>1, <1>2, RepulledStays
<1>12. OutputInv => OutputInv'
  <2> SUFFICES ASSUME OutputInv PROVE OutputInv'
    OBVIOUS
  <2>1. /\ \A k, l \in 1 .. Len(emitted) : k < l => emitted[k] < emitted[l]
        /\ \A k \in 1 .. Len(emitted) : emitted[k] <= Bookmarked
        /\ Bookmarked < h
    BY <1>1 DEF OutputInv, h
  <2>2. \A k \in 1 .. Len(emitted) : emitted[k] < h
    BY <2>1, <1>2, <1>4
  <2>3. /\ \A k, l \in 1 .. Len(emitted') : k < l => emitted'[k] < emitted'[l]
        /\ \A k \in 1 .. Len(emitted') : emitted'[k] <= h
    BY SMTT(20), <2>1, <2>2, <1>2, <1>4, <1>5, Ascends
  <2> QED BY <2>3, <1>1 DEF OutputInv, h
<1>13. CoalescedInv'
  BY <1>1, <1>2, <1>3, <1>8, <1>9, <1>10, <1>11, <1>12 DEF ResumeInv, CoalescedInv
<1>14. FaithfulInv'
  BY <1>1, <1>3 DEF FaithfulInv
<1> QED BY <1>7, <1>13, <1>14 DEF ResumeInv

(* The bookmark moves to the row just emitted.  What it passes was emitted *)
(* before, or a newer state of the same entity was or is still ahead.      *)
LEMMA PassedIsRepulled ==
  ASSUME StreamInv, Covers, FlushInv, phase = "advance", IdsInOrder, started <= Bookmarked + 1,
         \A i \in 2 .. Bookmarked : Repulled(i), UNCHANGED <<table, emitted>>,
         Bookmarked' = merged[1]
  PROVE  \A i \in 2 .. Bookmarked' : Repulled(i)'
<1> DEFINE h == merged[1]
<1>1. /\ DOMAIN table = 1 .. Len(table) /\ Len(table) \in Nat /\ pos \in Nat /\ started \in Nat
      /\ pos <= Len(table) + 1 /\ Bookmarked \in Nat /\ 1 <= Bookmarked /\ Bookmarked <= Len(table)
  BY BookmarkedIs DEF StreamInv
<1>2. merged \in Seq(Nat) /\ Len(merged) \in Nat /\ 1 \in 1 .. Len(merged)
  BY EmptySeq DEF FlushInv
<1>3. h \in snap /\ h \in Range(emitted)
  BY <1>2 DEF FlushInv
<1>4. \A j \in snap : j \in DOMAIN table /\ j \in Nat /\ j < pos
  BY <1>1 DEF StreamInv
<1>5. h \in Nat /\ h < pos /\ h \in DOMAIN table
  BY <1>3, <1>4
<1>6. \A i, j \in DOMAIN table : i < j => Id(i) < Id(j)
  BY DEF IdsInOrder
<1> HIDE DEF h
<1>7. ASSUME NEW j \in snap, ~(j > h) PROVE j \in Range(emitted)
  <2>1. CASE \E k \in 1 .. Len(merged) : merged[k] = j
    <3>1. PICK k \in 1 .. Len(merged) : merged[k] = j
      BY <2>1
    <3>2. CASE k = 1
      BY <3>1, <3>2, <1>3 DEF h
    <3>3. CASE k # 1
      <4>1. 1 < k
        BY <3>3, <1>2
      <4>2. Id(h) < Id(j)
        BY <4>1, <3>1, <1>2 DEF FlushInv, h
      <4>3. ~(j < h) /\ j # h
        <5>1. j \in DOMAIN table /\ Id(j) \in Nat /\ Id(h) \in Nat
          BY <1>4, <1>5, IdIs
        <5>2. j < h => Id(j) < Id(h)
          BY <5>1, <1>5, <1>6
        <5> QED BY <4>2, <5>1, <5>2
      <4> QED BY <4>3, <1>4, <1>5, <1>7
    <3> QED BY <3>2, <3>3
  <2> QED BY <2>1 DEF FlushInv
<1> DEFINE Ahead(i) ==
             \E j \in DOMAIN table : /\ Ent(j) = Ent(i) /\ Id(j) > Id(i)
                                     /\ j > h \/ j \in Range(emitted)
           Said(i) == i \in Range(emitted) \/ (Ent(i) # NoEntity /\ Ahead(i))
<1>8. ASSUME NEW i \in Bookmarked + 1 .. h PROVE Said(i)
  <2>1. i \in started .. pos - 1 /\ i \in DOMAIN table /\ i \in Nat /\ ~(i > h)
    BY <1>1, <1>5
  <2>2. PICK j \in snap : IF Ent(i) = NoEntity THEN j = i ELSE Ent(j) = Ent(i) /\ Id(j) >= Id(i)
    BY <2>1 DEF Covers
  <2>3. CASE j = i
    BY <2>1, <2>3, <1>7
  <2>4. CASE j # i
    <3>1. Ent(i) # NoEntity /\ Ent(j) = Ent(i) /\ Id(j) >= Id(i)
      BY <2>2, <2>4
    <3>2. Id(j) > Id(i)
      <4>1. j \in DOMAIN table /\ Id(j) \in Nat /\ Id(i) \in Nat
        BY <1>4, <2>1, IdIs
      <4>2. Id(j) # Id(i)
        BY <4>1, <2>1, <2>4 DEF StreamInv
      <4> QED BY <3>1, <4>1, <4>2
    <3>3. j > h \/ j \in Range(emitted)
      BY <1>7
    <3>4. j \in DOMAIN table
      BY <1>4
    <3> QED BY <3>1, <3>2, <3>3, <3>4
  <2> QED BY <2>3, <2>4
<1>9. ASSUME NEW i \in 2 .. Bookmarked PROVE Said(i)
  <2>1. i \in DOMAIN table /\ Repulled(i)
    BY <1>1
  <2>2. CASE i \in Range(emitted)
    BY <2>2
  <2>3. CASE i \notin Range(emitted)
    <3>1. /\ Ent(i) # NoEntity
          /\ \E j \in DOMAIN table : /\ Ent(j) = Ent(i) /\ Id(j) > Id(i)
                                     /\ j > Bookmarked \/ j \in Range(emitted)
      BY <2>1, <2>3 DEF Repulled
    <3>2. PICK j \in DOMAIN table : /\ Ent(j) = Ent(i) /\ Id(j) > Id(i)
                                    /\ j > Bookmarked \/ j \in Range(emitted)
      BY <3>1
    <3>3. CASE j \in Range(emitted)
      BY <3>1, <3>2, <3>3
    <3>4. CASE j > h
      BY <3>1, <3>2, <3>4
    <3>5. CASE j \notin Range(emitted) /\ ~(j > h)
      <4>1. j \in Bookmarked + 1 .. h
        BY <3>2, <3>5, <1>1, <1>5
      <4>2. Ent(j) # NoEntity /\ Ahead(j)
        BY <4>1, <3>5, <1>8
      <4>3. PICK l \in DOMAIN table : /\ Ent(l) = Ent(j) /\ Id(l) > Id(j)
                                      /\ l > h \/ l \in Range(emitted)
        BY <4>2
      <4>4. Id(l) > Id(i)
        <5>1. Id(l) \in Nat /\ Id(j) \in Nat /\ Id(i) \in Nat
          BY <2>1, IdIs
        <5> QED BY <5>1, <4>3, <3>2
      <4>5. Ent(l) = Ent(i)
        BY <4>3, <3>2
      <4> QED BY <3>1, <4>3, <4>4, <4>5
    <3> QED BY <3>3, <3>4, <3>5
  <2> QED BY <2>2, <2>3
<1>10. \A i \in 2 .. h : Said(i)
  <2>1. \A i \in 2 .. h : i \in 2 .. Bookmarked \/ i \in Bookmarked + 1 .. h
    BY <1>1, <1>5
  <2> QED BY <2>1, <1>8, <1>9
<1>11. \A i : Said(i) => Repulled(i)'
  BY DEF Repulled, Id, Ent, h
<1> QED BY <1>10, <1>11 DEF h

LEMMA ResumeFlushAdvance == ASSUME ResumeInv, FlushAdvance PROVE ResumeInv'
<1> DEFINE h == merged[1]
<1>1. /\ phase = "advance" /\ bookmark' = Id(Head(merged)) /\ merged' = Tail(merged)
      /\ phase' = IF merged' = <<>> THEN "off" ELSE "flush"
      /\ UNCHANGED <<table, mode, pos, started, snap, emitted, sessions, kills>>
  BY DEF FlushAdvance
<1>2. StreamInv /\ DOMAIN table = 1 .. Len(table) /\ Len(table) \in Nat /\ pos \in Nat /\ started \in Nat
      /\ pos <= Len(table) + 1
  BY BookmarkedIs DEF ResumeInv, StreamInv
<1>3. mode = "coalesce" /\ FlushInv /\ Covers /\ started <= Bookmarked + 1
  BY <1>1, <1>2 DEF ResumeInv, FaithfulInv, CoalescedInv, StreamInv, Modes
<1>4. merged \in Seq(Nat) /\ merged # <<>> /\ Len(merged) \in Nat /\ 1 \in 1 .. Len(merged)
  BY <1>3, EmptySeq DEF FlushInv
<1>5. /\ Head(merged) = h /\ merged' \in Seq(Nat) /\ Len(merged') = Len(merged) - 1
      /\ \A k \in 1 .. Len(merged') : merged'[k] = merged[k + 1]
  BY <1>1, <1>4, HeadTailProperties
<1>6. h \in snap /\ h \in Range(emitted)
  BY <1>1, <1>3, <1>4 DEF FlushInv
<1>7. \A j \in snap : j \in DOMAIN table /\ j \in Nat /\ started <= j
  <2>1. \A j \in snap : j \in Nat /\ 1 <= j /\ started <= j /\ j < pos
    BY <1>2 DEF StreamInv
  <2> QED BY <2>1, <1>2
<1>8. h \in DOMAIN table /\ h \in Nat /\ started <= h
  BY <1>6, <1>7
<1> HIDE DEF h
<1>9. Bookmarked' = h
  <2>1. \A k, l \in DOMAIN table' : table'[k].id = table'[l].id => k = l
    BY <1>1, <1>2 DEF StreamInv, Id
  <2>2. h \in DOMAIN table' /\ bookmark' = table'[h].id
    BY <1>1, <1>5, <1>8 DEF Id
  <2> QED BY <2>1, <2>2, RowIs DEF Bookmarked, Id
<1>10. StreamInv'
  BY <1>1, <1>2, <1>5, <1>8 DEF StreamInv, Id
<1>11. Covers'
  BY <1>1, <1>3 DEF Covers, Id, Ent
<1>12. phase' = "flush" => FlushInv'
  <2>1. \A k \in 1 .. Len(merged') : k \in Nat /\ k + 1 \in 1 .. Len(merged)
    BY <1>4, <1>5
  <2>2. \A k \in 1 .. Len(merged') : merged'[k] \in snap
    BY <2>1, <1>3, <1>5 DEF FlushInv
  <2>3. ASSUME NEW k \in 1 .. Len(merged'), NEW l \in 1 .. Len(merged'), k < l
        PROVE  Id(merged'[k]) < Id(merged'[l])
    <3>1. k + 1 < l + 1
      BY <2>1, <2>3
    <3>2. Id(merged[k + 1]) < Id(merged[l + 1])
      BY <3>1, <2>1, <1>3 DEF FlushInv
    <3> QED BY <3>2, <1>5
  <2>4. ASSUME NEW j \in snap, j \notin Range(emitted)
        PROVE  \E k \in 1 .. Len(merged') : merged'[k] = j
    <3>1. PICK k \in 1 .. Len(merged) : merged[k] = j
      BY <2>4, <1>3 DEF FlushInv
    <3>2. k # 1
      BY <3>1, <2>4, <1>6 DEF h
    <3>3. k - 1 \in 1 .. Len(merged') /\ (k - 1) + 1 = k
      BY <3>2, <1>4, <1>5
    <3> QED BY <3>1, <3>3, <1>5
  <2> QED BY <2>2, <2>3, <2>4, <1>1, <1>5 DEF FlushInv, Id
<1>13. IdsInOrder' <=> IdsInOrder
  BY <1>1 DEF IdsInOrder, Id
<1>14. IdsInOrder => \A i \in 2 .. Bookmarked' : Repulled(i)'
  BY <1>1, <1>2, <1>3, <1>9, PassedIsRepulled DEF ResumeInv, CoalescedInv, h
<1>15. OutputInv /\ IdsInOrder => OutputInv'
  <2> SUFFICES ASSUME OutputInv, IdsInOrder PROVE OutputInv'
    OBVIOUS
  <2>1. \A k \in 1 .. Len(emitted') : emitted'[k] <= Bookmarked'
    BY <1>1, <1>9 DEF OutputInv, h
  <2>2. phase' = "flush" => Bookmarked' < merged'[1]
    <3> SUFFICES ASSUME merged' # <<>> PROVE h < merged'[1]
      BY <1>1, <1>9
    <3>1. 1 \in 1 .. Len(merged') /\ 2 \in 1 .. Len(merged) /\ 1 + 1 = 2
      BY <1>4, <1>5, EmptySeq
    <3>2. merged'[1] = merged[2]
      BY <3>1, <1>5
    <3>3. Id(h) < Id(merged[2]) /\ merged[2] \in snap
      BY <3>1, <1>3, <1>4 DEF FlushInv, h
    <3>4. merged[2] \in DOMAIN table /\ merged[2] \in Nat
      BY <3>3, <1>7
    <3>5. Id(h) \in Nat /\ Id(merged[2]) \in Nat
      BY <3>4, <1>2, <1>8, IdIs
    <3>6. ~(merged[2] < h) /\ merged[2] # h
      <4>1. merged[2] < h => Id(merged[2]) < Id(h)
        BY <3>4, <1>8 DEF IdsInOrder
      <4> QED BY <4>1, <3>3, <3>5
    <3> QED BY <3>2, <3>4, <3>6, <1>8
  <2>3. phase' # "advance" /\ \A k, l \in 1 .. Len(emitted') : k < l => emitted'[k] < emitted'[l]
    BY <1>1 DEF OutputInv
  <2> QED BY <2>1, <2>2, <2>3 DEF OutputInv
<1>16. CoalescedInv'
  <2>1. phase' \in {"off", "flush"}
    BY <1>1
  <2>2. started' <= Bookmarked' + 1
    BY <1>1, <1>2, <1>8, <1>9
  <2> QED BY <2>1, <2>2, <1>1, <1>3, <1>11, <1>12, <1>13, <1>14, <1>15 DEF ResumeInv, CoalescedInv
<1>17. FaithfulInv'
  BY <1>1, <1>3 DEF FaithfulInv
<1> QED BY <1>10, <1>16, <1>17 DEF ResumeInv

LEMMA ResumeStep == ASSUME ResumeInv, [ResumeNext]_resumeVars PROVE ResumeInv'
<1>1. CASE UNCHANGED resumeVars
  <2>1. UNCHANGED <<table, bookmark, phase, mode, pos, started, snap, merged, emitted, sessions, kills>>
    BY <1>1 DEF resumeVars, session
  <2>2. StreamInv'
    BY <2>1 DEF ResumeInv, StreamInv, Id
  <2>3. Bookmarked' = Bookmarked
    BY <2>1, SessionMoves DEF ResumeInv
  <2>4. (IdsInOrder' <=> IdsInOrder) /\ \A i : Repulled(i)' <=> Repulled(i)
    BY <2>1, SessionMoves DEF ResumeInv
  <2>5. Lost' = Lost
    BY <2>1, <2>3 DEF Lost
  <2>6. FaithfulInv'
    BY <2>1, <2>3, <2>5, LossIs DEF ResumeInv, FaithfulInv, LossIsBounded, Lost
  <2>7. (Covers => Covers') /\ (FlushInv => FlushInv')
    BY <2>1 DEF Covers, FlushInv, Id, Ent
  <2>8. OutputInv => OutputInv'
    BY <2>1, <2>3 DEF OutputInv
  <2>9. CoalescedInv'
    BY <2>1, <2>3, <2>4, <2>7, <2>8 DEF ResumeInv, CoalescedInv
  <2> QED BY <2>2, <2>6, <2>9 DEF ResumeInv
<1>2. CASE End \/ Kill
  BY <1>2, ResumeStops
<1>3. CASE \E id \in 1 .. MaxRows, ent \in Entity \cup {NoEntity} : Commit(id, ent)
  BY <1>3, ResumeCommit
<1> QED BY <1>1, <1>2, <1>3, ResumeStart, ResumeAdvance, ResumeDecide, ResumeCollect, ResumeBacklogEnds,
           ResumeFlushEmit, ResumeFlushAdvance DEF ResumeNext

LEMMA ResumeStarts == ASSUME ResumeInit PROVE ResumeInv
<1>1. PICK id \in 1 .. MaxRows : table = <<[id |-> id, ent |-> NoEntity]>> /\ bookmark = id
  BY DEF ResumeInit
<1>2. /\ phase = "off" /\ mode \in Modes /\ pos = 2 /\ started = 2 /\ snap = {} /\ emitted = <<>> /\ kills = 0
  BY DEF ResumeInit
<1>3. [id |-> id, ent |-> NoEntity] \in [id : Nat, ent : Entity \cup {NoEntity}]
  BY ResumeAssumption
<1>4. /\ table \in Seq([id : Nat, ent : Entity \cup {NoEntity}]) /\ Len(table) = 1
      /\ table[1] = [id |-> id, ent |-> NoEntity]
  BY <1>1, <1>3
<1>5. DOMAIN table = {1}
  <2>1. DOMAIN table = 1 .. 1
    BY <1>4, LenProperties
  <2> QED BY <2>1
<1>6. emitted \in Seq(Nat) /\ Len(emitted) = 0 /\ 1 .. 0 = {}
  BY <1>2, EmptySeq
<1>7. Id(1) = bookmark
  BY <1>1, <1>4 DEF Id
<1>8. StreamInv
  BY <1>2, <1>4, <1>5, <1>6, <1>7 DEF StreamInv
<1>9. Bookmarked = 1
  BY <1>5, <1>8, BookmarkedIs
<1>10. 2 .. Bookmarked = {} /\ Lost = {}
  BY <1>9 DEF Lost
<1>11. Cardinality(Lost) <= kills
  BY <1>2, <1>10, FS_EmptySet
<1>12. FaithfulInv
  BY <1>2, <1>6, <1>11, LossIs DEF FaithfulInv
<1>13. OutputInv
  BY <1>2, <1>6 DEF OutputInv
<1>14. CoalescedInv
  BY <1>2, <1>10, <1>13 DEF CoalescedInv
<1> QED BY <1>8, <1>12, <1>14 DEF ResumeInv

LEMMA ResumeAlways == ResumeSpec => []ResumeInv
BY ResumeStarts, ResumeStep, PTL DEF ResumeSpec

(* However its sessions end, a faithful consumer emits every frame at most *)
(* once and in the order of the table, and each kill costs at most one.    *)
THEOREM BookmarkResumes == ResumeSpec => []FaithfulResume
<1>1. ResumeInv => FaithfulResume
  <2> SUFFICES ASSUME ResumeInv PROVE FaithfulResume
    OBVIOUS
  <2>1. Len(emitted) \in Nat
    BY DEF ResumeInv, StreamInv
  <2>2. \A k \in 1 .. Len(emitted) - 1 : k \in 1 .. Len(emitted) /\ k + 1 \in 1 .. Len(emitted) /\ k < k + 1
    BY <2>1
  <2>3. EmittedOnceInOrder
    BY <2>2 DEF ResumeInv, FaithfulInv, EmittedOnceInOrder
  <2>4. LossIsBounded
    BY DEF ResumeInv, FaithfulInv, LossIsBounded
  <2> QED BY <2>3, <2>4 DEF FaithfulResume
<1> QED BY <1>1, ResumeAlways, PTL

(* A coalesced consumer says the newest state of every entity it read, a   *)
(* kill in mid-flush leaves nothing below the bookmark unsaid, and no      *)
(* entity falls back, as long as the event_ids ascend.                     *)
THEOREM CoalescingResumes == ResumeSpec => []CoalescedResume
<1>1. ResumeInv => CoalescedResume
  <2> SUFFICES ASSUME ResumeInv PROVE CoalescedResume
    OBVIOUS
  <2>1. StreamInv /\ emitted \in Seq(Nat) /\ DOMAIN emitted = 1 .. Len(emitted) /\ Len(emitted) \in Nat
    BY LenProperties DEF ResumeInv, StreamInv
  <2>2. mode \in {"faithful", "coalesce"}
    BY <2>1 DEF StreamInv, Modes
  <2>3. SnapshotIsLatest
    BY <2>2 DEF ResumeInv, FaithfulInv, CoalescedInv, Covers, SnapshotIsLatest
  <2>4. UnflushedIsRepulledInOrder
    BY DEF ResumeInv, CoalescedInv, UnflushedIsRepulledInOrder, UnflushedIsRepulled
  <2>5. NoEntityRegresses
    <3> SUFFICES ASSUME mode = "coalesce", IdsInOrder, kills = 0,
                        NEW k \in DOMAIN emitted, NEW l \in DOMAIN emitted, k < l
                 PROVE  Id(emitted[k]) <= Id(emitted[l])
      BY DEF NoEntityRegresses
    <3>1. emitted[k] < emitted[l]
      BY <2>1 DEF ResumeInv, CoalescedInv, OutputInv
    <3>2. emitted[k] \in DOMAIN table /\ emitted[l] \in DOMAIN table
      BY <2>1 DEF StreamInv
    <3>3. Id(emitted[k]) < Id(emitted[l])
      BY <3>1, <3>2 DEF IdsInOrder
    <3>4. Id(emitted[k]) \in Nat /\ Id(emitted[l]) \in Nat
      BY <2>1, <3>2, IdIs
    <3> QED BY <3>3, <3>4
  <2> QED BY <2>3, <2>4, <2>5 DEF CoalescedResume
<1> QED BY <1>1, ResumeAlways, PTL

-----------------------------------------------------------------------------
(* Waiting: for any calls, frames and deadlines, the answer is the first   *)
(* frame that is one.                                                      *)

(* What the tracker of an all-of holds: the clauses some frame satisfied.  *)
Tracked ==
  satisfied = IF call.compose = "all"
              THEN {q \in call.clauses : \E j \in 1 .. read : ClauseHolds(q, stream[j])} ELSE {}

(* A call that reads has passed the checks of its usage.                   *)
WaitingInv ==
  /\ call \in Calls
  /\ stream \in Seq(Frames) /\ read \in 0 .. Len(stream)
  /\ stage = "call" => read = 0
  /\ stage \notin {"call", "done"} \/ read > 0 => ~UsageError(call)
  /\ result \in {"0", "event"} => read > 0
  /\ Tracked
  /\ AnswerIsFirst

(* What a frame does to a call, said of the frame alone.                   *)
Answer(f) ==
  /\ \A key \in DOMAIN f :
       LET wanted == {s[2] : s \in {r \in Specs(call) : r[1] = key}}
       IN  wanted # {} => f[key] \in wanted
  /\ call.sha => f.sha = "asked"
  /\ call.verb = "wait" /\ f.source = "github" =>
       f.conclusion \in {"success", "failure", "cancelled", "timed_out"}

LEMMA MatchesIs ==
  ASSUME call \in Calls, NEW f \in Frames
  PROVE  Matches(Specs(call), f) <=>
           \A key \in DOMAIN f :
             LET wanted == {s[2] : s \in {r \in Specs(call) : r[1] = key}}
             IN  wanted # {} => f[key] \in wanted
<1> DEFINE Wanted(key) == {s[2] : s \in {r \in Specs(call) : r[1] = key}}
<1>1. DOMAIN f = Field
  BY WaitingAssumption
<1>2. \A s \in Specs(call) : s[1] \in Field /\ s = <<s[1], s[2]>>
  <2>1. \A s \in call.match : s[1] \in Field /\ s = <<s[1], s[2]>>
    BY WaitingAssumption
  <2>2. "source" \in Field
    BY DEF Field
  <2> QED BY <2>1, <2>2 DEF Specs
<1>3. \A key, v : v \in Wanted(key) <=> <<key, v>> \in Specs(call)
  <2>1. ASSUME NEW key, NEW v, v \in Wanted(key) PROVE <<key, v>> \in Specs(call)
    <3>1. PICK s \in Specs(call) : s[1] = key /\ s[2] = v
      BY <2>1
    <3>2. s = <<s[1], s[2]>>
      BY <1>2
    <3> QED BY <3>1, <3>2
  <2>2. ASSUME NEW key, NEW v, <<key, v>> \in Specs(call) PROVE v \in Wanted(key)
    BY <2>2
  <2> QED BY <2>1, <2>2
<1> HIDE DEF Wanted
<1>4. ASSUME Matches(Specs(call), f), NEW key \in DOMAIN f, Wanted(key) # {} PROVE f[key] \in Wanted(key)
  <2>1. PICK v : <<key, v>> \in Specs(call)
    BY <1>3, <1>4
  <2>2. <<key, f[key]>> \in Specs(call)
    BY <2>1, <1>4 DEF Matches
  <2> QED BY <2>2, <1>3
<1>5. ASSUME \A key \in DOMAIN f : Wanted(key) # {} => f[key] \in Wanted(key)
      PROVE  Matches(Specs(call), f)
  <2>1. ASSUME NEW s \in Specs(call) PROVE <<s[1], f[s[1]]>> \in Specs(call)
    <3>1. s[1] \in DOMAIN f /\ s = <<s[1], s[2]>>
      BY <1>1, <1>2
    <3>2. Wanted(s[1]) # {}
      BY <3>1, <1>3
    <3> QED BY <3>1, <3>2, <1>3, <1>5
  <2> QED BY <2>1 DEF Matches
<1> QED BY <1>4, <1>5 DEF Wanted

(* A frame answers a call that composes nothing if decide says so.         *)
LEMMA PredicateIs ==
  ASSUME call \in Calls, NEW f \in Frames
  PROVE  Answer(f) <=> Predicate(call, f) /\ (call.verb = "wait" => VerdictOf(f) # None)
<1>1. VerdictOf(f) # None <=>
        f.source # "github" \/ f.conclusion \in {"success", "failure", "cancelled", "timed_out"}
  BY WaitingAssumption DEF VerdictOf
<1>2. Predicate(call, f) <=> Matches(Specs(call), f) /\ (call.sha => f.sha = "asked")
  BY DEF Predicate
<1> QED BY <1>1, <1>2, MatchesIs DEF Answer

(* The first frame that answers is the one decide stops at.                *)
LEMMA DecidesIs ==
  ASSUME WaitingInv, read < Len(stream), ~AnswersBy(read)
  PROVE  AnswersBy(read + 1) <=> Decides(stream[read + 1])
<1>1. read \in Nat /\ 1 .. read + 1 = (1 .. read) \cup {read + 1} /\ stream[read + 1] \in Frames
  BY DEF WaitingInv
<1>2. CASE call.compose = "all"
  <2>1. satisfied = {q \in call.clauses : \E j \in 1 .. read : ClauseHolds(q, stream[j])}
    BY <1>2 DEF WaitingInv, Tracked
  <2>2. Decides(stream[read + 1]) <=>
          satisfied \cup {q \in call.clauses : ClauseHolds(q, stream[read + 1])} = call.clauses
    BY <1>2 DEF Decides, Update
  <2>3. AnswersBy(read + 1) <=> \A q \in call.clauses : \E j \in 1 .. read + 1 : ClauseHolds(q, stream[j])
    BY <1>2 DEF AnswersBy
  <2> QED BY <2>1, <2>2, <2>3, <1>1
<1>3. CASE call.compose = "first"
  BY <1>1, <1>3 DEF AnswersBy, Decides
<1>4. CASE call.compose \notin {"all", "first"}
  <2>1. \A i : AnswersBy(i) <=> \E j \in 1 .. i : Answer(stream[j])
    BY <1>4 DEF AnswersBy, Answer
  <2>2. Answer(stream[read + 1]) <=> Decides(stream[read + 1])
    BY <1>1, <1>4, PredicateIs DEF Decides, WaitingInv
  <2> QED BY <2>1, <2>2, <1>1
<1> QED BY <1>2, <1>3, <1>4

(* Before the first frame there is no answer, unless there is no question. *)
LEMMA NoneAtFirst ==
  ASSUME ~UsageError(call) PROVE ~AnswersBy(0)
<1>1. CASE call.compose = "all"
  <2>1. call.clauses # {}
    BY <1>1, WaitingAssumption DEF UsageError
  <2> QED BY <1>1, <2>1 DEF AnswersBy
<1>2. CASE call.compose # "all"
  BY <1>2 DEF AnswersBy
<1> QED BY <1>1, <1>2

(* A longer stream answers as it did.                                      *)
LEMMA AnswersStay ==
  ASSUME WaitingInv, UNCHANGED call, NEW i \in 0 .. read,
         \A j \in 1 .. Len(stream) : stream'[j] = stream[j]
  PROVE  AnswersBy(i)' <=> AnswersBy(i)
<1>1. \A j \in 1 .. i : stream'[j] = stream[j]
  BY DEF WaitingInv
<1>2. Specs(call)' = Specs(call)
  BY DEF Specs, EffectiveSource
<1>3. \A q, j : j \in 1 .. i => (ClauseHolds(q, stream[j])' <=> ClauseHolds(q, stream[j]))
  BY <1>1 DEF ClauseHolds, Matches
<1>4. CASE call.compose = "all"
  BY <1>3, <1>4 DEF AnswersBy
<1>5. CASE call.compose = "first"
  BY <1>3, <1>5 DEF AnswersBy
<1>6. CASE call.compose \notin {"all", "first"}
  BY <1>1, <1>2, <1>6, SMTT(30) DEF AnswersBy
<1> QED BY <1>4, <1>5, <1>6

(* Whoever only writes frames, ticks, or ends a call that has not been     *)
(* answered.                                                               *)
LEMMA NothingRead ==
  ASSUME WaitingInv, UNCHANGED <<call, read, satisfied>>,
         stream' \in Seq(Frames), Len(stream') >= Len(stream),
         \A j \in 1 .. Len(stream) : stream'[j] = stream[j],
         \/ UNCHANGED <<stage, result>>
         \/ /\ stage # "done" /\ stage' # "call"
            /\ stage = "call" /\ stage' # "done" => ~UsageError(call)
            /\ result' = result \/ result' \notin {"0", "event"}
  PROVE  WaitingInv'
<1> USE DEF WaitingInv
<1>1. read \in Nat /\ Len(stream) \in Nat /\ Len(stream') \in Nat
  OBVIOUS
<1>2. call' \in Calls /\ read' \in 0 .. Len(stream')
  BY <1>1
<1>3. (stage' = "call" => read' = 0) /\ (result' \in {"0", "event"} => read' > 0)
  OBVIOUS
<1>4. UsageError(call)' <=> UsageError(call)
  BY DEF UsageError, Specs, EffectiveSource, NeedsRepo, IsGithubPath
<1>5. stage' \notin {"call", "done"} \/ read' > 0 => ~UsageError(call)'
  BY <1>1, <1>4
<1>6. Tracked'
  <2>1. \A q, j : j \in 1 .. read => (ClauseHolds(q, stream[j])' <=> ClauseHolds(q, stream[j]))
    BY SMTT(20), <1>1 DEF ClauseHolds, Matches
  <2>2. CASE call.compose # "all"
    BY <2>2 DEF Tracked
  <2>3. CASE call.compose = "all"
    <3>1. \A q : q \in {x \in call.clauses : \E j \in 1 .. read : ClauseHolds(x, stream[j])} <=>
                 q \in {x \in call.clauses : \E j \in 1 .. read : ClauseHolds(x, stream[j])'}
      BY <2>1
    <3>2. {x \in call.clauses : \E j \in 1 .. read : ClauseHolds(x, stream[j])} =
          {x \in call.clauses : \E j \in 1 .. read : ClauseHolds(x, stream[j])'}
      BY <3>1
    <3> QED BY <3>2, <2>3 DEF Tracked
  <2> QED BY <2>2, <2>3
<1>7. AnswerIsFirst'
  <2> SUFFICES ASSUME call.verb # "subscribe", read > 0
      PROVE  /\ ~AnswersBy(read - 1)'
             /\ AnswersBy(read)' =>
                  /\ stage' = "done"
                  /\ result' = IF call.verb = "wait_for" THEN "event"
                               ELSE IF /\ call.compose = None /\ call.exitStatus
                                       /\ stream'[read].source = "github"
                                       /\ stream'[read].conclusion \in {"failure", "cancelled", "timed_out"}
                                    THEN "1" ELSE "0"
             /\ ~AnswersBy(read)' => result' \notin {"0", "event"}
    BY DEF AnswerIsFirst
  <2>1. AnswersBy(read - 1)' <=> AnswersBy(read - 1)
    <3>1. read - 1 \in 0 .. read
      BY <1>1
    <3> QED BY <3>1, AnswersStay
  <2>2. AnswersBy(read)' <=> AnswersBy(read)
    <3>1. read \in 0 .. read
      BY <1>1
    <3> QED BY <3>1, AnswersStay
  <2>3. stream'[read] = stream[read]
    BY <1>1
  <2>4. AnswersBy(read) => stage = "done"
    BY DEF AnswerIsFirst
  <2>5. ~AnswersBy(read - 1)
    BY DEF AnswerIsFirst
  <2>6. CASE UNCHANGED <<stage, result>>
    BY <2>1, <2>2, <2>3, <2>6 DEF AnswerIsFirst
  <2>7. CASE stage # "done" /\ (result' = result \/ result' \notin {"0", "event"})
    <3>1. ~AnswersBy(read)
      BY <2>4, <2>7
    <3>2. result \notin {"0", "event"}
      BY <3>1 DEF AnswerIsFirst
    <3> QED BY <3>1, <3>2, <2>1, <2>2, <2>5, <2>7
  <2> QED BY <2>6, <2>7
<1> QED BY <1>2, <1>3, <1>5, <1>6, <1>7

(* A frame is read: it answers the call or is one more that does not.      *)
LEMMA ReadEventKeeps == ASSUME WaitingInv, ReadEvent PROVE WaitingInv'
<1> DEFINE f == stream[read + 1]
<1>1. /\ UNCHANGED <<call, stream>> /\ read' = read + 1 /\ satisfied' = Update(f) /\ stage = "frame"
      /\ \/ Decides(f) /\ Matched(f)
         \/ ~Decides(f) /\ stage' = "budget" /\ UNCHANGED <<given, result>>
  BY DEF ReadEvent, fromDaemon
<1>2. read \in Nat /\ Len(stream) \in Nat /\ read < Len(stream) /\ read' \in 1 .. Len(stream) /\ f \in Frames
  BY <1>1 DEF ReadEvent, WaitingInv
<1>3. ~UsageError(call) /\ call.verb \in {"wait", "wait_for", "subscribe"}
  BY <1>1, WaitingAssumption DEF WaitingInv
<1>4. call.verb # "subscribe" => ~AnswersBy(read)
  <2>1. CASE read = 0
    BY <2>1, <1>3, NoneAtFirst
  <2>2. CASE read > 0
    BY <2>2, <1>1 DEF WaitingInv, AnswerIsFirst
  <2> QED BY <2>1, <2>2, <1>2
<1>5. call.verb # "subscribe" => (AnswersBy(read + 1) <=> Decides(f))
  BY <1>2, <1>4, DecidesIs
<1>6. \A i : AnswersBy(i)' <=> AnswersBy(i)
  <2>1. Specs(call)' = Specs(call)
    BY <1>1 DEF Specs, EffectiveSource
  <2>2. \A q, j : ClauseHolds(q, stream[j])' <=> ClauseHolds(q, stream[j])
    BY <1>1 DEF ClauseHolds, Matches
  <2> QED BY <1>1, <2>1, <2>2 DEF AnswersBy
<1>7. Tracked'
  <2>1. satisfied' = Update(f) /\ 1 .. read' = (1 .. read) \cup {read + 1} /\ call' = call
    BY <1>1, <1>2
  <2>2. CASE call.compose # "all"
    BY <2>1, <2>2 DEF WaitingInv, Tracked, Update
  <2>3. CASE call.compose = "all"
    <3>1. \A q : q \in satisfied' <=> q \in call.clauses /\ \E j \in 1 .. read' : ClauseHolds(q, stream[j])
      BY <2>1, <2>3 DEF WaitingInv, Tracked, Update
    <3>2. \A q, j : ClauseHolds(q, stream[j])' <=> ClauseHolds(q, stream[j])
      BY <1>1 DEF ClauseHolds, Matches
    <3>3. satisfied' = {q \in call.clauses : \E j \in 1 .. read' : ClauseHolds(q, stream[j])'}
      BY <3>1, <3>2
    <3> QED BY <3>3, <2>1, <2>3 DEF Tracked
  <2> QED BY <2>2, <2>3
<1> HIDE DEF f
<1>8. ASSUME call.verb # "subscribe", ~Decides(f) PROVE stage' = "budget" /\ result' \notin {"0", "event"}
  <2>1. result \notin {"0", "event"}
    BY <1>2, <1>4, <1>8 DEF WaitingInv, AnswerIsFirst
  <2> QED BY <2>1, <1>1, <1>8
<1>9. ASSUME call.verb # "subscribe", Decides(f)
      PROVE  /\ stage' = "done"
             /\ result' = IF call.verb = "wait_for" THEN "event"
                          ELSE IF /\ call.compose = None /\ call.exitStatus /\ f.source = "github"
                                  /\ f.conclusion \in {"failure", "cancelled", "timed_out"}
                               THEN "1" ELSE "0"
  <2>1. CASE call.verb = "wait_for"
    BY <2>1, <1>1, <1>9 DEF Matched, Done
  <2>2. CASE call.verb = "wait"
    <3>1. stage' = "done" /\ result' = IF call.compose = None /\ call.exitStatus THEN VerdictOf(f) ELSE "0"
      BY <2>2, <1>1, <1>9 DEF Matched, Done
    <3>2. call.compose = None => VerdictOf(f) # None
      BY <2>2, <1>9, WaitingAssumption DEF Decides
    <3>3. VerdictOf(f) # None =>
            VerdictOf(f) = IF f.source = "github" /\ f.conclusion \in {"failure", "cancelled", "timed_out"}
                           THEN "1" ELSE "0"
      BY DEF VerdictOf
    <3> QED BY <2>2, <3>1, <3>2, <3>3
  <2> QED BY <2>1, <2>2, <1>3, <1>9
<1>10. AnswerIsFirst'
  <2> SUFFICES ASSUME call.verb # "subscribe"
      PROVE  /\ ~AnswersBy(read)
             /\ AnswersBy(read + 1) =>
                  /\ stage' = "done"
                  /\ result' = IF call.verb = "wait_for" THEN "event"
                               ELSE IF /\ call.compose = None /\ call.exitStatus
                                       /\ f.source = "github"
                                       /\ f.conclusion \in {"failure", "cancelled", "timed_out"}
                                    THEN "1" ELSE "0"
             /\ ~AnswersBy(read + 1) => result' \notin {"0", "event"}
    <3>1. read' = read + 1 /\ read' - 1 = read /\ stream'[read'] = f
      BY <1>1, <1>2 DEF f
    <3>2. PICK r \in Nat, l \in Nat : r = read' /\ l = read' - 1
      <4>1. read' \in Nat /\ read' - 1 \in Nat
        BY <1>1, <1>2
      <4> QED BY <4>1
    <3>3. (AnswersBy(r)' <=> AnswersBy(read + 1)) /\ (AnswersBy(l)' <=> AnswersBy(read))
      BY <3>1, <3>2, <1>6
    <3>4. AnswersBy(read)' <=> AnswersBy(r)'
      BY <3>2 DEF AnswersBy
    <3>5. AnswersBy(read - 1)' <=> AnswersBy(l)'
      BY <3>2 DEF AnswersBy
    <3> QED BY <3>1, <3>3, <3>4, <3>5, <1>1 DEF AnswerIsFirst
  <2> QED BY <1>4, <1>5, <1>8, <1>9
<1>11. stage' # "call" /\ read' > 0
  BY <1>1, <1>2 DEF Matched, Done
<1>12. ~UsageError(call)'
  BY <1>1, <1>3 DEF UsageError, Specs, EffectiveSource, NeedsRepo, IsGithubPath
<1> QED BY <1>1, <1>2, <1>7, <1>10, <1>11, <1>12 DEF WaitingInv

LEMMA WaitingStep == ASSUME WaitingInv, [WaitingNext]_waitVars PROVE WaitingInv'
<1>0. stream \in Seq(Frames) /\ Len(stream) \in Nat
  BY DEF WaitingInv
<1>1. CASE UNCHANGED waitVars
  BY <1>0, <1>1, NothingRead DEF waitVars, fromDaemon
<1>2. CASE Invoke \/ Open
  BY <1>0, <1>2, NothingRead DEF Invoke, Open, Done, fromDaemon
<1>3. \A outcome : Finish(outcome) => stage' = "done" /\ result' \notin {"0", "event"}
  BY DEF Finish, Done
<1>4. CASE CheckBudget \/ SelectReady \/ SelectTimesOut
  BY <1>0, <1>3, <1>4, NothingRead DEF CheckBudget, SelectReady, SelectTimesOut, fromDaemon
<1>5. CASE ReadControl \/ ReadEnd
  BY <1>0, <1>3, <1>5, NothingRead DEF ReadControl, ReadEnd, Rejected, Done, fromDaemon
<1>6. CASE Interrupt \/ NextEvent \/ CloseGenerator
  BY <1>0, <1>3, <1>6, NothingRead DEF Interrupt, NextEvent, CloseGenerator, Done, fromDaemon
<1>7. ASSUME NEW f \in Frames, Writes(f) PROVE WaitingInv'
  <2>1. stream' = Append(stream, f) /\ UNCHANGED <<call, stage, read, satisfied, result>>
    BY <1>7 DEF Writes
  <2>2. stream' \in Seq(Frames) /\ Len(stream') >= Len(stream) /\ \A j \in 1 .. Len(stream) : stream'[j] = stream[j]
    BY <2>1, <1>0
  <2> QED BY <2>1, <2>2, NothingRead
<1>8. CASE WritesPart \/ Beats \/ Ends \/ Tick
  BY <1>0, <1>8, NothingRead DEF WritesPart, Beats, Ends, Tick, fromDaemon
<1> QED BY <1>1, <1>2, <1>4, <1>5, <1>6, <1>7, <1>8, ReadEventKeeps DEF WaitingNext, Consumer

(* Whatever pieces, beats, ticks and signals come between the frames: a    *)
(* wait ends with an answer exactly when it has read the first frame that  *)
(* is one, and its exit code is that frame's verdict, for any call.        *)
THEOREM FirstAnswerEnds == WaitingSpec => []AnswerIsFirst
<1>1. WaitingInit => WaitingInv
  <2> SUFFICES ASSUME WaitingInit PROVE WaitingInv
    OBVIOUS
  <2>1. read = 0 /\ stream = <<>> /\ satisfied = {} /\ result = None /\ stage = "call" /\ call \in Calls
    BY DEF WaitingInit
  <2>2. stream \in Seq(Frames) /\ read \in 0 .. Len(stream)
    BY <2>1
  <2>3. Tracked
    <3>1. 1 .. read = {}
      BY <2>1
    <3> QED BY <2>1, <3>1 DEF Tracked
  <2>4. result \notin {"0", "event"}
    BY <2>1, WaitingAssumption
  <2> QED BY <2>1, <2>2, <2>3, <2>4 DEF WaitingInv, AnswerIsFirst
<1>2. WaitingInv => AnswerIsFirst
  BY DEF WaitingInv
<1> QED BY <1>1, <1>2, WaitingStep, PTL DEF WaitingSpec
=============================================================================
