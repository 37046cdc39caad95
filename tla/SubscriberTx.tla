---------------------------- MODULE SubscriberTx ----------------------------
(***************************************************************************)
(* One Subscriber of waitbus/broadcast.py at the level of bytes: enqueue,  *)
(* _drain and _close_subscriber over a non-blocking stream socket that may *)
(* take a frame whole, take a prefix of it, or take nothing.               *)
(*                                                                         *)
(* A byte on the wire is a pair <<frame number, position in the frame>>,   *)
(* so that what the peer can parse is a property of the wire alone.        *)
(* Frames are numbered as they are handed to enqueue.  A callback of the   *)
(* event loop runs alone; the kernel and the peer act between its sends,   *)
(* and `busy` says that _drain is between two of them.                     *)
(***************************************************************************)
EXTENDS Integers, Sequences, FiniteSets

CONSTANTS
  Size,        \* lengths a wire frame may have
  REJECT,      \* length of the subscribe_rejected frame
  SNDBUF,      \* bytes the kernel holds for a peer that does not read
  LAG_LIMIT,
  Transient,   \* send may raise OSError on a peer that is there (ENOBUFS)
  MaxFrames    \* bound: frames handed over

VARIABLES
  handed,     \* every frame given to enqueue: its length, and if it counts
  queue,      \* _tx_queue: frame numbers, and how much of each is taken
  draining,   \* the writability callback is armed
  lag,        \* lag_count
  delivered,  \* waitbus_broadcast_events_delivered_total
  open,       \* in the subscribers map
  busy,       \* _drain holds the loop
  peer,       \* the other end is there
  wire,       \* every byte the kernel took
  read        \* bytes the peer has read

subVars == <<handed, queue, draining, lag, delivered, open>>
txVars == <<handed, queue, draining, lag, delivered, open, busy, peer, wire, read>>

-----------------------------------------------------------------------------

FrameType == [size : Size, counts : BOOLEAN]

Free == SNDBUF - (Len(wire) - read)

Bytes(id, from, to) == [k \in 1..(to - from) |-> <<id, from + k>>]

Least(a, b) == IF a <= b THEN a ELSE b

(* How much of a send of n bytes the kernel takes.                         *)
Taken(n) == Least(n, Free)

(* The frame number of the goodbye: above every other.                     *)
RejectId == MaxFrames + 1

(* Broadcast._close_subscriber for a lag reason, after w is on the wire    *)
(* and with q queued: disarm, say goodbye at a frame boundary only and as  *)
(* far as the kernel takes it, discard the queue, close.                   *)
CloseSubscriber(w, q) ==
  /\ open' = FALSE /\ draining' = FALSE /\ queue' = <<>>
  /\ wire' = IF q = <<>> /\ peer
             THEN w \o Bytes(RejectId, 0, Least(REJECT, SNDBUF - (Len(w) - read)))
             ELSE w

(* The end of an enqueue that leaves w on the wire, q queued and the       *)
(* counter at l: the caller evicts at the limit, else the writability      *)
(* callback is armed for as long as anything is queued.                    *)
Settle(w, q, l) ==
  /\ lag' = l
  /\ IF l >= LAG_LIMIT
     THEN CloseSubscriber(w, q)
     ELSE /\ wire' = w /\ queue' = q
          /\ draining' = (draining \/ q # <<>>)
          /\ UNCHANGED open

-----------------------------------------------------------------------------
(* Subscriber.enqueue, called by _fan_out, _replay, the pre-ack flush and  *)
(* the heartbeat, each of which checks the counter right after it.         *)

Hand(f) ==
  /\ open /\ ~busy
  /\ Len(handed) < MaxFrames
  /\ handed' = Append(handed, f)
  /\ UNCHANGED <<busy, peer, read>>

New == Len(handed) + 1

(* Mutant: a queued frame is overtaken by the one handed over now.         *)
EnqueueBehindAhead(f) ==
  /\ Hand(f)
  /\ queue # <<>>
  /\ Settle(wire, <<[id |-> New, off |-> 0]>> \o queue, lag + 1)
  /\ UNCHANGED delivered

(* Frames are waiting: the new one goes behind them.                       *)
EnqueueBehind(f) ==
  /\ Hand(f)
  /\ queue # <<>>
  /\ Settle(wire, Append(queue, [id |-> New, off |-> 0]), lag + 1)
  /\ UNCHANGED delivered

(* Mutant: sendall, the number of bytes taken is thrown away.              *)
EnqueueSendAll(f) ==
  LET n == Taken(f.size)
  IN  /\ Hand(f)
      /\ queue = <<>> /\ peer
      /\ Settle(wire \o Bytes(New, 0, n), <<>>, IF n = f.size THEN 0 ELSE lag + 1)
      /\ delivered' = IF f.counts /\ n = f.size THEN delivered + 1 ELSE delivered

(* Nothing is waiting: send.  The kernel takes all of it, a part (the tail *)
(* is queued) or, on EAGAIN, nothing (the frame is queued).                *)
EnqueueSend(f) ==
  LET n == Taken(f.size)
  IN  /\ Hand(f)
      /\ queue = <<>> /\ peer
      /\ Settle(wire \o Bytes(New, 0, n),
                IF n = f.size THEN <<>> ELSE <<[id |-> New, off |-> n]>>,
                IF n = f.size THEN 0 ELSE lag + 1)
      /\ delivered' = IF f.counts /\ n = f.size THEN delivered + 1 ELSE delivered

(* The send raises: the counter trips and the frame is not queued.         *)
EnqueueFails(f) ==
  /\ Hand(f)
  /\ queue = <<>> /\ (~peer \/ Transient)
  /\ Settle(wire, <<>>, LAG_LIMIT)
  /\ UNCHANGED delivered

Enqueue(f) == EnqueueBehind(f) \/ EnqueueSend(f) \/ EnqueueFails(f)

-----------------------------------------------------------------------------
(* Subscriber._drain, one step per send.                                   *)

(* The selector reports the socket writable, or its peer gone.             *)
DrainBegins ==
  /\ open /\ draining /\ ~busy
  /\ Free > 0 \/ ~peer
  /\ busy' = TRUE
  /\ UNCHANGED <<subVars, peer, wire, read>>

Left(e) == handed[e.id].size - e.off

(* Mutant: the callback is disarmed after one frame.                       *)
DrainSendDisarms ==
  LET n == Taken(Left(Head(queue)))
  IN  /\ busy /\ peer /\ Free > 0
      /\ wire' = wire \o Bytes(Head(queue).id, Head(queue).off, Head(queue).off + n)
      /\ IF n < Left(Head(queue))
         THEN /\ queue' = [queue EXCEPT ![1].off = @ + n]
              /\ busy' = FALSE
              /\ UNCHANGED <<draining, lag, delivered>>
         ELSE /\ queue' = Tail(queue)
              /\ delivered' = delivered + (IF handed[Head(queue).id].counts THEN 1 ELSE 0)
              /\ busy' = FALSE
              /\ draining' = FALSE
              /\ lag' = IF Tail(queue) = <<>> THEN 0 ELSE lag
      /\ UNCHANGED <<handed, open, peer, read>>

(* Send from the head frame.  A frame that is through is popped and        *)
(* counted; when it was the last the callback is disarmed and the lag      *)
(* cleared.  A frame that is cut keeps its tail at the head.               *)
DrainSend ==
  LET n == Taken(Left(Head(queue)))
  IN  /\ busy /\ peer /\ Free > 0
      /\ wire' = wire \o Bytes(Head(queue).id, Head(queue).off, Head(queue).off + n)
      /\ IF n < Left(Head(queue))
         THEN /\ queue' = [queue EXCEPT ![1].off = @ + n]
              /\ busy' = FALSE
              /\ UNCHANGED <<draining, lag, delivered>>
         ELSE /\ queue' = Tail(queue)
              /\ delivered' = delivered + (IF handed[Head(queue).id].counts THEN 1 ELSE 0)
              /\ busy' = (Tail(queue) # <<>>)
              /\ draining' = (Tail(queue) # <<>>)
              /\ lag' = IF Tail(queue) = <<>> THEN 0 ELSE lag
      /\ UNCHANGED <<handed, open, peer, read>>

(* EAGAIN: wait for the next writability signal.                           *)
DrainBlocked ==
  /\ busy /\ peer /\ Free = 0
  /\ busy' = FALSE
  /\ UNCHANGED <<subVars, peer, wire, read>>

(* The send raises: the queue is discarded, the counter trips, the         *)
(* callback is disarmed, and eviction is left to the next pass.            *)
DrainFails ==
  /\ busy /\ (~peer \/ Transient)
  /\ queue' = <<>> /\ lag' = LAG_LIMIT /\ draining' = FALSE
  /\ busy' = FALSE
  /\ UNCHANGED <<handed, delivered, open, peer, wire, read>>

-----------------------------------------------------------------------------
(* _close_subscriber for a reason with no wire frame (shutdown, a replay   *)
(* that failed).                                                           *)
CloseSilently ==
  /\ open /\ ~busy
  /\ open' = FALSE /\ draining' = FALSE /\ queue' = <<>>
  /\ UNCHANGED <<handed, lag, delivered, busy, peer, wire, read>>

(* The subscriber process reads, or goes away.                             *)
PeerReads ==
  /\ peer /\ read < Len(wire)
  /\ read' = read + 1
  /\ UNCHANGED <<subVars, busy, peer, wire>>

PeerGone ==
  /\ peer /\ peer' = FALSE
  /\ UNCHANGED <<subVars, busy, wire, read>>

TxInit ==
  /\ handed = <<>> /\ queue = <<>>
  /\ draining = FALSE /\ lag = 0 /\ delivered = 0
  /\ open = TRUE /\ busy = FALSE /\ peer = TRUE
  /\ wire = <<>> /\ read = 0

DrainNext == DrainBegins \/ DrainSend \/ DrainBlocked \/ DrainFails

TxNext ==
  \/ \E f \in FrameType : Enqueue(f)
  \/ DrainNext
  \/ CloseSilently \/ PeerReads \/ PeerGone

TxSpec == TxInit /\ [][TxNext]_txVars

(* The selector reports a writable socket again and again, a callback that *)
(* holds the loop goes on, and the peer reads what it can.                 *)
TxLiveSpec == TxSpec /\ SF_txVars(DrainBegins) /\ WF_txVars(busy /\ DrainNext) /\ WF_txVars(PeerReads)

-----------------------------------------------------------------------------
(* Properties.                                                             *)

(* Every variable has its type, and what the queue and the wire name are   *)
(* frames that were handed over.                                           *)
TxTypeOK ==
  /\ handed \in Seq(FrameType)
  /\ \A i \in DOMAIN queue :
       /\ queue[i].id \in DOMAIN handed
       /\ queue[i].off \in 0..(handed[queue[i].id].size - 1)
  /\ draining \in BOOLEAN /\ lag \in 0..LAG_LIMIT /\ delivered \in Nat
  /\ open \in BOOLEAN /\ busy \in BOOLEAN /\ peer \in BOOLEAN
  /\ read \in 0..Len(wire) /\ Len(wire) - read <= SNDBUF

SizeOf(id) == IF id = RejectId THEN REJECT ELSE handed[id].size

(* The wire starts at the first byte of a frame and goes on from every     *)
(* byte with the next one of the same frame or, at its end, with the first *)
(* byte of a later frame: enqueue's docstring, "the receiver never         *)
(* observes interleaved or truncated frames except a clean EOF".           *)
WholeFrames ==
  /\ wire # <<>> => wire[1][2] = 1
  /\ \A i \in 1..(Len(wire) - 1) :
       \/ wire[i + 1] = <<wire[i][1], wire[i][2] + 1>>
       \/ /\ wire[i][2] = SizeOf(wire[i][1])
          /\ wire[i + 1][1] > wire[i][1] /\ wire[i + 1][2] = 1

(* Frames the kernel holds whole, by number.                               *)
Through == {id \in DOMAIN handed : \E i \in DOMAIN wire : wire[i] = <<id, handed[id].size>>}

(* The delivered counter is the number of event frames that are wholly on  *)
(* the wire: enqueue and _drain count each once and at the same boundary,  *)
(* whichever of them finishes it.                                          *)
DeliveredIsExact == delivered = Cardinality({id \in Through : handed[id].counts})

(* Until a send fails nothing is lost: every frame handed over is through  *)
(* or queued, and the queue stays within the lag counter, which the limit  *)
(* bounds.                                                                 *)
NothingLost ==
  open /\ lag < LAG_LIMIT =>
    /\ DOMAIN handed = Through \cup {queue[i].id : i \in DOMAIN queue}
    /\ Len(queue) <= lag

(* All three: what a peer can read is every frame handed over, whole, in   *)
(* order and counted once, up to the end.                                  *)
WireIsExact == WholeFrames /\ DeliveredIsExact /\ NothingLost

(* What waits in the queue does not stay there.                            *)
QueueFlushes == (queue # <<>>) ~> (queue = <<>>)

(* The frame level of the rest of the daemon: frames that are through,     *)
(* followed by the ones that wait.                                         *)
InNumberOrder(S) ==
  [k \in 1..Cardinality(S) |-> CHOOSE x \in S : Cardinality({y \in S : y <= x}) = k]

Channel == INSTANCE FrameChannel WITH
  FrameSet <- 1..MaxFrames,
  out  <- InNumberOrder(Through) \o [i \in DOMAIN queue |-> queue[i].id],
  sent <- Cardinality(Through),
  up   <- open

(* A subscriber is a bounded FIFO of whole frames.                         *)
ImplementsChannel == Channel!ChannelSpec
=============================================================================
