--------------------------- MODULE AsyncSubscribe ---------------------------
(***************************************************************************)
(* asubscribe (waitbus/_subscribe.py): a worker thread runs the blocking   *)
(* read engine and hands matched events to the consumer's event loop       *)
(* through a bounded queue; the async generator yields them and, when it   *)
(* is left for whatever reason, tears the worker down.                     *)
(*                                                                         *)
(* Matched events are numbered as the daemon sends them.  The worker and   *)
(* the loop interleave at every hand-off; a put that finds the queue full  *)
(* blocks the worker until the loop has made room.                         *)
(***************************************************************************)
EXTENDS Integers, Sequences

CONSTANTS
  QUEUE_MAXSIZE,   \* _ASUBSCRIBE_QUEUE_MAXSIZE
  MaxEvents        \* bound: matched events the daemon sends

VARIABLES
  sentOff,   \* matched events the daemon has sent
  taken,     \* how many of them the worker has read
  daemon,    \* its end of the connection: "up", "eof", or "reject" (or a torn frame)
  sock,      \* the generator's end: "open" or "closed"
  worker,    \* "loop", "read", "put", "last" (the put in its finally), "exited"
  hand,      \* the item a blocked put holds
  queue,     \* output
  consumer,  \* "get", "user" (at the yield), "joining", "ended", "abandoned"
  yielded,   \* events the consumer was given
  left       \* why the generator ended: "no", "done", "error", "early"

wireVars == <<sentOff, taken, daemon, sock>>
asyncVars == <<sentOff, taken, daemon, sock, worker, hand, queue, consumer, yielded, left>>

-----------------------------------------------------------------------------

NoItem     == 0
StreamDone == -1  \* _STREAM_DONE
Error      == -2  \* a forwarded exception

Item == {StreamDone, Error} \cup (Nat \ {0})

(* The daemon sends one more matched event, or ends the stream.            *)
DaemonSends ==
  /\ daemon = "up" /\ sentOff < MaxEvents
  /\ sentOff' = sentOff + 1
  /\ UNCHANGED <<taken, daemon, sock, worker, hand, queue, consumer, yielded, left>>

DaemonEnds ==
  /\ daemon = "up"
  /\ daemon' \in {"eof", "reject"}
  /\ UNCHANGED <<sentOff, taken, sock, worker, hand, queue, consumer, yielded, left>>

-----------------------------------------------------------------------------
(* _worker.                                                                *)

(* _drain_one is entered; on a closed socket select raises ValueError,     *)
(* which is forwarded.                                                     *)
WorkerReads ==
  /\ worker = "loop"
  /\ IF sock = "open" THEN worker' = "read" /\ UNCHANGED hand
                      ELSE worker' = "put" /\ hand' = Error
  /\ UNCHANGED <<wireVars, queue, consumer, yielded, left>>

(* The engine returns a matched event.                                     *)
WorkerMatches ==
  /\ worker = "read" /\ taken < sentOff
  /\ taken' = taken + 1
  /\ worker' = "put" /\ hand' = taken + 1
  /\ UNCHANGED <<sentOff, daemon, sock, queue, consumer, yielded, left>>

(* It returns None: the peer closed, or the generator shut the socket.     *)
WorkerSeesEof ==
  /\ worker = "read"
  /\ sock = "closed" \/ (daemon = "eof" /\ taken = sentOff)
  /\ worker' = "last" /\ hand' = StreamDone
  /\ UNCHANGED <<wireVars, queue, consumer, yielded, left>>

(* It raises, on a typed reject, a torn frame or a frame the shutdown cut: *)
(* the exception is forwarded and the worker is done.                      *)
WorkerSeesReject ==
  /\ worker = "read"
  /\ sock = "closed" \/ (daemon = "reject" /\ taken = sentOff)
  /\ worker' = "put" /\ hand' = Error
  /\ UNCHANGED <<wireVars, queue, consumer, yielded, left>>

AfterPut == IF worker = "last" THEN "exited" ELSE IF hand = Error THEN "last" ELSE "loop"

(* Mutant: put_nowait, an item that finds the queue full is dropped.       *)
PutLandsOrDrops ==
  /\ worker \in {"put", "last"}
  /\ queue' = IF Len(queue) < QUEUE_MAXSIZE THEN Append(queue, hand) ELSE queue
  /\ worker' = AfterPut
  /\ hand' = IF AfterPut = "last" THEN StreamDone ELSE NoItem
  /\ UNCHANGED <<wireVars, consumer, yielded, left>>

(* The bounded put completes inside the loop and unblocks the worker.      *)
PutLands ==
  /\ worker \in {"put", "last"}
  /\ Len(queue) < QUEUE_MAXSIZE
  /\ queue' = Append(queue, hand)
  /\ worker' = AfterPut
  /\ hand' = IF AfterPut = "last" THEN StreamDone ELSE NoItem
  /\ UNCHANGED <<wireVars, consumer, yielded, left>>

-----------------------------------------------------------------------------
(* The async generator.                                                    *)

(* The finally block up to its await: shut down and close the socket, start*)
(* the drainer.                                                            *)
Leave(why) ==
  /\ left' = why
  /\ sock' = "closed"
  /\ consumer' = "joining"
  /\ UNCHANGED <<sentOff, taken, daemon, worker, hand, yielded>>

(* output.get returns: an event is yielded, an exception is raised, the    *)
(* sentinel ends the generator.                                            *)
ConsumerGets ==
  /\ consumer = "get" /\ queue # <<>>
  /\ queue' = Tail(queue)
  /\ \/ Head(queue) = StreamDone /\ Leave("done")
     \/ Head(queue) = Error /\ Leave("error")
     \/ /\ Head(queue) \notin {StreamDone, Error}
        /\ yielded' = Append(yielded, Head(queue))
        /\ consumer' = "user"
        /\ UNCHANGED <<wireVars, worker, hand, left>>

(* The body of the async for is through.                                   *)
ConsumerResumes ==
  /\ consumer = "user"
  /\ consumer' = "get"
  /\ UNCHANGED <<wireVars, worker, hand, queue, yielded, left>>

(* break, aclose or a cancelled task.                                      *)
ConsumerStops ==
  /\ consumer \in {"get", "user"}
  /\ Leave("early")
  /\ UNCHANGED queue

(* Mutant: the queue is emptied once, before the join.                     *)
DrainOnce ==
  /\ consumer = "joining" /\ Len(queue) = QUEUE_MAXSIZE /\ worker = "loop"
  /\ queue' = <<>>
  /\ UNCHANGED <<wireVars, worker, hand, consumer, yielded, left>>

(* _drain_forever discards while the join is pending.                      *)
Drain ==
  /\ consumer = "joining" /\ queue # <<>>
  /\ queue' = Tail(queue)
  /\ UNCHANGED <<wireVars, worker, hand, consumer, yielded, left>>

(* worker.join returns in its executor thread; the drainer is cancelled.   *)
(* (A worker that outlasts the timeout of the join is left out: while the  *)
(* drainer runs, nothing holds it up.)                                     *)
JoinReturns ==
  /\ consumer = "joining" /\ worker = "exited"
  /\ consumer' = "ended"
  /\ UNCHANGED <<wireVars, worker, hand, queue, yielded, left>>

(* A second cancellation lands on the await of the join: the inner finally *)
(* cancels the drainer and the generator is gone.                          *)
CancelledAgain ==
  /\ consumer = "joining"
  /\ consumer' = "abandoned"
  /\ UNCHANGED <<wireVars, worker, hand, queue, yielded, left>>

AsyncInit ==
  /\ sentOff = 0 /\ taken = 0 /\ daemon = "up" /\ sock = "open"
  /\ worker = "loop" /\ hand = NoItem /\ queue = <<>>
  /\ consumer = "get" /\ yielded = <<>> /\ left = "no"

WorkerNext == WorkerReads \/ WorkerMatches \/ WorkerSeesEof \/ WorkerSeesReject

AsyncNext ==
  \/ DaemonSends \/ DaemonEnds
  \/ WorkerNext \/ PutLands
  \/ ConsumerGets \/ ConsumerResumes \/ ConsumerStops
  \/ Drain \/ JoinReturns \/ CancelledAgain

AsyncSpec == AsyncInit /\ [][AsyncNext]_asyncVars

(* The threads and the loop's callbacks go on; nothing is asked of the     *)
(* daemon or of the body of the consumer's loop.                           *)
AsyncLiveSpec ==
  /\ AsyncSpec
  /\ WF_asyncVars(WorkerNext) /\ WF_asyncVars(PutLands)
  /\ WF_asyncVars(ConsumerGets) /\ WF_asyncVars(Drain) /\ WF_asyncVars(JoinReturns)

-----------------------------------------------------------------------------
(* Properties.                                                             *)

(* Every variable has its type.                                            *)
AsyncTypeOK ==
  /\ sentOff \in 0..MaxEvents /\ taken \in 0..sentOff
  /\ daemon \in {"up", "eof", "reject"} /\ sock \in {"open", "closed"}
  /\ worker \in {"loop", "read", "put", "last", "exited"}
  /\ hand \in Item \cup {NoItem}
  /\ queue \in Seq(Item) /\ Len(queue) <= QUEUE_MAXSIZE
  /\ consumer \in {"get", "user", "joining", "ended", "abandoned"}
  /\ yielded \in Seq(Nat \ {0})
  /\ left \in {"no", "done", "error", "early"}

InHand == IF worker \in {"put", "last"} THEN <<hand>> ELSE <<>>

(* Until the generator is left nothing the worker has read is dropped,     *)
(* repeated or reordered on its way through the blocking hand-off: what    *)
(* was yielded, what is queued and what a put holds are the events read,   *)
(* and then at most an exception and the end.                              *)
HandOffIsExact ==
  left = "no" =>
    LET all == yielded \o queue \o InHand
    IN  /\ Len(all) >= taken
        /\ \A k \in 1..Len(all) : IF k <= taken THEN all[k] = k ELSE all[k] \in {StreamDone, Error}

(* The generator ends by itself only after everything the worker read was  *)
(* yielded, and raises exactly when the daemon rejected the subscription.  *)
EndIsComplete ==
  left \in {"done", "error"} =>
    /\ yielded = [i \in 1..taken |-> i] /\ taken = sentOff
    /\ left = "error" <=> daemon = "reject"

(* Both: the iteration is the stream, from the first event to its end.     *)
YieldsTheStream == HandOffIsExact /\ EndIsComplete

(* Leaving the generator ends both sides, full queue or not (asubscribe's  *)
(* docstring: the worker is torn down deterministically), unless the task  *)
(* is cancelled a second time and drops the join with its drainer.         *)
TeardownEnds ==
  (consumer = "joining") ~>
    \/ consumer = "ended" /\ worker = "exited"
    \/ consumer = "abandoned"

(* A stream the daemon ended ends at the consumer, if the consumer goes on *)
(* asking.                                                                 *)
StreamEndArrives ==
  (daemon # "up") ~> (left # "no" \/ consumer = "user")

(* Both: an iteration ends, whichever side ends it.                        *)
IterationEnds == TeardownEnds /\ StreamEndArrives
=============================================================================
