------------------------------ MODULE Broadcast ------------------------------
(***************************************************************************)
(* The waitbus broadcast daemon (waitbus/broadcast.py) together with what  *)
(* it is driven by: the events table producers commit to (_db.py,          *)
(* _emit.py), the doorbell they ring (_doorbell.py), and the subscribers   *)
(* that connect, resume with a `since` cursor, read slowly, or vanish.     *)
(*                                                                         *)
(* Atomicity.  The daemon is one asyncio loop: a callback runs to its next *)
(* await without another callback in between, while producers, the         *)
(* doorbell accept-thread, peers and SIGKILL interleave at any point.  The *)
(* variable `loop` says which callback holds the loop; a callback that     *)
(* handles several rows takes one step per row.                            *)
(*                                                                         *)
(* Frames are integers: an event frame is the seq of its row, the control  *)
(* frames are the non-positive codes below.  A row's seq is its position   *)
(* in `log` (AUTOINCREMENT, one writer at a time, nothing pruned here).    *)
(***************************************************************************)
EXTENDS Integers, Sequences, FiniteSets

CONSTANTS
  Event,                 \* deliveries producers may emit, each with one delivery_id
  Producer,              \* emitting processes
  Sub,                   \* connection slots (fds) subscribers occupy
  Filter,                \* what a subscribe frame may ask for: sets of events
  SWEEP_LIMIT,           \* rows per broadcast pass
  REPLAY_LIMIT,          \* rows per `since` replay
  LAG_LIMIT,             \* consecutive unclean sends before eviction
  PRE_ACK_BUFFER_FRAMES, \* live frames held back before the subscribe_ack
  SNDBUF,                \* frames the kernel takes before a send would block
  BACKLOG,               \* _DOORBELL_LISTEN_BACKLOG
  MaxBatch,              \* bound: rows in one emit_batch transaction
  MaxBeats               \* bound: heartbeats in one behaviour

ASSUME LimitsAssumption ==
  /\ SWEEP_LIMIT \in Nat \ {0}
  /\ REPLAY_LIMIT \in Nat \ {0}
  /\ LAG_LIMIT \in Nat \ {0}
  /\ PRE_ACK_BUFFER_FRAMES \in Nat \ {0}
  /\ SNDBUF \in Nat \ {0}
  /\ BACKLOG \in Nat \ {0}
  /\ MaxBatch \in Nat \ {0}
  /\ MaxBeats \in Nat

ASSUME FilterAssumption == Filter \subseteq SUBSET Event

VARIABLES
  log,       \* the events table: log[seq] is the delivery stored at seq
  prod,      \* producer p: "idle", or "committed" with a ring still owed
  rings,     \* connections queued on the doorbell listener
  eventfd,   \* the eventfd counter is non-zero
  loop,      \* the callback that holds the daemon's event loop
  stopping,  \* stop_event was set
  cursor,    \* Broadcast.cursor: seq of the last row fanned out
  sweepEnd,  \* last row the running pass selected
  subs,      \* Broadcast.subscribers and each peer's end of the socket
  beats      \* heartbeats sent so far

tableVars == <<log, prod>>
bellVars  == <<rings, eventfd>>
loopVars  == <<loop, stopping, cursor, sweepEnd>>
vars == <<log, prod, rings, eventfd, loop, stopping, cursor, sweepEnd, subs, beats>>

-----------------------------------------------------------------------------
(* Frames and subscriber records.                                          *)

Ack    == 0      \* subscribe_ack
Beat   == -1     \* daemon_heartbeat
Reject == -2     \* subscribe_rejected

Frame == {Ack, Beat, Reject} \cup (Nat \ {0})

NoSince == -1    \* the subscribe frame carries no `since`

Phase == {"off", "hello", "acking", "acked", "orphan", "replay", "flush", "live", "closed"}

PreAck     == {"acking", "acked", "orphan"}         \* pre_ack_buffer is not None
Registered == {"acking", "acked", "orphan", "replay", "flush", "live"}  \* in self.subscribers

(***************************************************************************)
(* out    every frame handed to this connection, in order                  *)
(* sent   how many of them the kernel took; the rest is _tx_queue          *)
(* read   how many the peer has read                                       *)
(* wm     replay_watermark, 0 for None (no row has seq 0, so a watermark   *)
(*        of 0 on an empty table behaves as None does)                     *)
(* buf    pre_ack_buffer                                                   *)
(* lo, pos, end    the replay runs over lo+1..end and has done lo+1..pos   *)
(* base   live rows are owed from base+1 on                                *)
(***************************************************************************)
SubscriberType ==
  [phase : Phase, peer : BOOLEAN, want : SUBSET Event, since : Int,
   wm : Nat, buf : Seq(Nat \ {0}), out : Seq(Frame), sent : Nat, read : Nat,
   lag : Nat, lo : Nat, pos : Nat, end : Nat, base : Nat]

Unused ==
  [phase |-> "off", peer |-> FALSE, want |-> {}, since |-> NoSince,
   wm |-> 0, buf |-> <<>>, out |-> <<>>, sent |-> 0, read |-> 0,
   lag |-> 0, lo |-> 0, pos |-> 0, end |-> 0, base |-> 0]

Min2(a, b) == IF a <= b THEN a ELSE b

(* The tx queue is not empty.                                              *)
Queued(r) == r.sent < Len(r.out)

(* A non-blocking send would be taken whole.  The few control frames of    *)
(* the two-second registration window always fit a fresh send buffer.      *)
Room(r) == r.phase \in {"acking", "acked"} \/ r.sent - r.read < SNDBUF

(* Subscriber.enqueue: queue behind unsent frames, fail on a dead peer,    *)
(* send, or queue what the kernel would not take.                          *)
Enqueue(r, f) ==
  IF Queued(r)        THEN [r EXCEPT !.out = Append(@, f), !.lag = @ + 1]
  ELSE IF ~r.peer     THEN [r EXCEPT !.lag = LAG_LIMIT]
  ELSE IF Room(r)     THEN [r EXCEPT !.out = Append(@, f), !.sent = @ + 1, !.lag = 0]
  ELSE                     [r EXCEPT !.out = Append(@, f), !.lag = @ + 1]

(* Broadcast._close_subscriber: the reject frame of a terminal reason goes *)
(* out only at a frame boundary, unsent frames are discarded.  What the    *)
(* kernel took stays readable; the Subscriber object is gone.              *)
CloseSubscriber(r, terminal) ==
  LET say == terminal /\ ~Queued(r) /\ r.peer /\ Room(r)
  IN  [Unused EXCEPT !.phase = "closed",
                     !.out  = IF say THEN Append(r.out, Reject) ELSE SubSeq(r.out, 1, r.sent),
                     !.sent = IF say THEN r.sent + 1 ELSE r.sent]

(* Mutant: the limit is exceeded before the subscriber is dropped.         *)
EvictPastLimit(r) == IF r.lag > LAG_LIMIT THEN CloseSubscriber(r, TRUE) ELSE r

(* Every caller of enqueue checks the lag counter right after it.          *)
EvictIfLagging(r) == IF r.lag >= LAG_LIMIT THEN CloseSubscriber(r, TRUE) ELSE r

(* Mutant: no watermark, a replayed row is fanned out again.               *)
FanOutToNoWatermark(r, q) ==
  IF r.phase \notin Registered \/ log[q] \notin r.want THEN r
  ELSE IF r.phase \in PreAck THEN [r EXCEPT !.buf = Append(@, q)]
  ELSE EvictIfLagging(Enqueue(r, q))

(* Mutant: no pre-ack buffer, live frames overtake the ack.                *)
FanOutToNoGate(r, q) ==
  IF r.phase \notin Registered \/ log[q] \notin r.want \/ q <= r.wm THEN r
  ELSE EvictIfLagging(Enqueue([r EXCEPT !.wm = 0], q))

(* Mutant: live frames of the registration window are dropped.             *)
FanOutToSkipsPreAck(r, q) ==
  IF r.phase \notin Registered \ PreAck \/ log[q] \notin r.want \/ q <= r.wm THEN r
  ELSE EvictIfLagging(Enqueue([r EXCEPT !.wm = 0], q))

(* One subscriber's share of Broadcast._fan_out for the row at seq q.  The *)
(* byte cap of the pre-ack buffer is PRE_ACK_BUFFER_FRAMES frames of the   *)
(* largest size, so the frame cap is the one that can fire.                *)
FanOutTo(r, q) ==
  IF r.phase \notin Registered \/ log[q] \notin r.want \/ q <= r.wm THEN r
  ELSE IF r.phase \in PreAck
       THEN IF Len(r.buf) >= PRE_ACK_BUFFER_FRAMES
            THEN CloseSubscriber(r, TRUE)
            ELSE [r EXCEPT !.wm = 0, !.buf = Append(@, q)]
       ELSE EvictIfLagging(Enqueue([r EXCEPT !.wm = 0], q))

-----------------------------------------------------------------------------
(* Producers: insert_event / emit_batch commit, then ring.                 *)

Fresh(rows) ==
  /\ \A i, j \in DOMAIN rows : rows[i] = rows[j] => i = j
  /\ \A i \in DOMAIN rows, q \in DOMAIN log : rows[i] # log[q]

(* One transaction commits.  A delivery_id that is already stored is       *)
(* ignored, inserts nothing and rings nothing.                             *)
Commit(p, rows) ==
  /\ prod[p] = "idle"
  /\ rows # <<>>
  /\ Fresh(rows)
  /\ log' = log \o rows
  /\ prod' = [prod EXCEPT ![p] = "committed"]
  /\ UNCHANGED <<bellVars, loopVars, subs, beats>>

Listening == loop \notin {"down", "booting"}

(* Mutant: connect does not wait for the backlog.                          *)
RingPastBacklog(p) ==
  /\ prod[p] = "committed"
  /\ rings' = IF Listening THEN rings + 1 ELSE rings
  /\ prod' = [prod EXCEPT ![p] = "idle"]
  /\ UNCHANGED <<log, eventfd, loopVars, subs, beats>>

(* ring(): connect and write one byte.  The connect blocks while the       *)
(* backlog is full; with nobody listening the error is swallowed.          *)
Ring(p) ==
  /\ prod[p] = "committed"
  /\ IF Listening THEN rings < BACKLOG /\ rings' = rings + 1
                  ELSE rings' = rings
  /\ prod' = [prod EXCEPT ![p] = "idle"]
  /\ UNCHANGED <<log, eventfd, loopVars, subs, beats>>

(* The producer dies after its commit and before its ring.                 *)
RingLost(p) ==
  /\ prod[p] = "committed"
  /\ prod' = [prod EXCEPT ![p] = "idle"]
  /\ UNCHANGED <<log, bellVars, loopVars, subs, beats>>

-----------------------------------------------------------------------------
(* The doorbell accept-thread and the eventfd.                             *)

(* Doorbell.accept_one: one connection's byte bumps the eventfd.           *)
AcceptRing ==
  /\ Listening /\ rings > 0
  /\ rings' = rings - 1
  /\ eventfd' = TRUE
  /\ UNCHANGED <<tableVars, loopVars, subs, beats>>

(* accept_one with no byte inside _DOORBELL_RECV_TIMEOUT_SEC (the writer   *)
(* stalled or died): the connection is closed and nothing is forwarded.    *)
AcceptRingTimeout ==
  /\ Listening /\ rings > 0
  /\ rings' = rings - 1
  /\ UNCHANGED <<tableVars, eventfd, loopVars, subs, beats>>

(* _on_doorbell_wake begins: drain() resets the eventfd before the SELECT. *)
Wake ==
  /\ loop = "idle" /\ ~stopping /\ eventfd
  /\ eventfd' = FALSE
  /\ loop' = "woken"
  /\ UNCHANGED <<tableVars, rings, stopping, cursor, sweepEnd, subs, beats>>

-----------------------------------------------------------------------------
(* Broadcast._broadcast_pass.                                              *)

AfterPass == IF stopping THEN "closing" ELSE "idle"

(* The SELECT: rows above the cursor, at most SWEEP_LIMIT of them.         *)
Select ==
  /\ loop = "woken"
  /\ sweepEnd' = Min2(Len(log), cursor + SWEEP_LIMIT)
  /\ loop' = IF sweepEnd' = cursor THEN AfterPass ELSE "sweep"
  /\ UNCHANGED <<tableVars, bellVars, stopping, cursor, subs, beats>>

(* The SELECT raises sqlite3.Error, which is logged and swallowed.         *)
SelectFails ==
  /\ loop = "woken"
  /\ loop' = AfterPass
  /\ UNCHANGED <<tableVars, bellVars, stopping, cursor, sweepEnd, subs, beats>>

Evicted(q) == {s \in Sub : subs[s].phase # "closed" /\ FanOutTo(subs[s], q).phase = "closed"}

(* Mutant: an eviction during the loop over the map cuts the fan-out of    *)
(* the row short for the others.                                           *)
FanOutRowCutShort ==
  /\ loop = "sweep"
  /\ subs' = [s \in Sub |-> IF Evicted(cursor + 1) \in {{}, {s}}
                            THEN FanOutTo(subs[s], cursor + 1) ELSE subs[s]]
  /\ cursor' = cursor + 1
  /\ loop' = IF cursor + 1 = sweepEnd THEN AfterPass ELSE "sweep"
  /\ UNCHANGED <<tableVars, bellVars, stopping, sweepEnd, beats>>

(* Mutant: the eventfd is drained after the sweep instead of before it.    *)
FanOutRowThenDrain ==
  /\ loop = "sweep"
  /\ subs' = [s \in Sub |-> FanOutTo(subs[s], cursor + 1)]
  /\ cursor' = cursor + 1
  /\ loop' = IF cursor + 1 = sweepEnd THEN AfterPass ELSE "sweep"
  /\ eventfd' = FALSE
  /\ UNCHANGED <<tableVars, rings, stopping, sweepEnd, beats>>

(* One row: _fan_out to every subscriber, then the cursor advances.        *)
FanOutRow ==
  /\ loop = "sweep"
  /\ subs' = [s \in Sub |-> FanOutTo(subs[s], cursor + 1)]
  /\ cursor' = cursor + 1
  /\ loop' = IF cursor + 1 = sweepEnd THEN AfterPass ELSE "sweep"
  /\ UNCHANGED <<tableVars, bellVars, stopping, sweepEnd, beats>>

-----------------------------------------------------------------------------
(* Subscribe handling: _handle_accept, _read_subscribe, _replay.           *)

AtIdle == loop = "idle" /\ ~stopping

(* A same-uid peer connects; a foreign uid is closed and leaves no state.  *)
Accept(s) ==
  /\ AtIdle
  /\ subs[s].phase \in {"off", "closed"}
  /\ subs' = [subs EXCEPT ![s] = [Unused EXCEPT !.phase = "hello", !.peer = TRUE]]
  /\ UNCHANGED <<tableVars, bellVars, loopVars, beats>>

(* No usable subscribe frame within ten seconds, or a field the validators *)
(* refuse: silent close.                                                   *)
HelloFails(s) ==
  /\ AtIdle
  /\ subs[s].phase = "hello"
  /\ subs' = [subs EXCEPT ![s] = CloseSubscriber(@, FALSE)]
  /\ UNCHANGED <<tableVars, bellVars, loopVars, beats>>

(* An unsupported `proto` is answered with one reject frame.               *)
RejectVersion(s) ==
  /\ AtIdle
  /\ subs[s].phase = "hello"
  /\ subs' = [subs EXCEPT ![s] = CloseSubscriber(@, TRUE)]
  /\ UNCHANGED <<tableVars, bellVars, loopVars, beats>>

(* Registration: pre-ack buffer, map entry, then the snapshot that becomes *)
(* the watermark when the frame carries `since`.                           *)
Subscribe(s, want, since) ==
  /\ AtIdle
  /\ subs[s].phase = "hello"
  /\ subs' = [subs EXCEPT ![s] =
                [@ EXCEPT !.phase = "acking", !.want = want, !.since = since,
                          !.wm    = IF since = NoSince THEN 0 ELSE Len(log),
                          !.base  = IF since = NoSince THEN cursor ELSE Len(log)]]
  /\ UNCHANGED <<tableVars, bellVars, loopVars, beats>>

(* The snapshot of a `since` subscribe raises sqlite3.Error, which nothing *)
(* catches: the task ends and the subscriber stays in the map, never acked.*)
SnapshotFails(s, want) ==
  /\ AtIdle
  /\ subs[s].phase = "hello"
  /\ subs' = [subs EXCEPT ![s] =
                [@ EXCEPT !.phase = "orphan", !.want = want, !.base = cursor]]
  /\ UNCHANGED <<tableVars, bellVars, loopVars, beats>>

(* sock_sendall puts the ack on the wire; the task has not resumed yet.    *)
SendAck(s) ==
  /\ AtIdle
  /\ subs[s].phase = "acking"
  /\ subs[s].peer
  /\ subs' = [subs EXCEPT ![s] =
                [subs[s] EXCEPT !.phase = "acked", !.out = Append(@, Ack), !.sent = @ + 1]]
  /\ UNCHANGED <<tableVars, bellVars, loopVars, beats>>

(* Mutant: a failed ack returns without closing the subscriber.            *)
AckFailsLeaks(s) ==
  /\ AtIdle
  /\ subs[s].phase = "acking"
  /\ UNCHANGED vars

(* The ack send fails or its two seconds run out: silent close.            *)
AckFails(s) ==
  /\ AtIdle
  /\ subs[s].phase = "acking"
  /\ subs' = [subs EXCEPT ![s] = CloseSubscriber(@, FALSE)]
  /\ UNCHANGED <<tableVars, bellVars, loopVars, beats>>

(* The lower bound seq_for_event_id gives: 0 for an unknown cursor.        *)
SinceSeq(r) == IF r.since \in 1..Len(log) THEN r.since ELSE 0

(* The task resumes with the ack sent; _replay selects its rows.           *)
ResumeTask(s) ==
  LET r  == subs[s]
      lo == SinceSeq(r)
  IN  /\ AtIdle
      /\ r.phase = "acked"
      /\ loop' = "task"
      /\ subs' = [subs EXCEPT ![s] =
           IF r.since = NoSince
           THEN [r EXCEPT !.phase = "flush"]
           ELSE [r EXCEPT !.phase = "replay", !.lo = lo, !.pos = lo,
                          !.end = Min2(r.base, lo + REPLAY_LIMIT)]]
      /\ UNCHANGED <<tableVars, bellVars, stopping, cursor, sweepEnd, beats>>

(* The replay SELECT raises sqlite3.Error: silent close.                   *)
ReplayFails(s) ==
  /\ AtIdle
  /\ subs[s].phase = "acked" /\ subs[s].since # NoSince
  /\ subs' = [subs EXCEPT ![s] = CloseSubscriber(@, FALSE)]
  /\ UNCHANGED <<tableVars, bellVars, loopVars, beats>>

(* One replayed row; frames the subscriber did not ask for are skipped.    *)
ReplayRow(s) ==
  LET r == subs[s]
      q == r.pos + 1
      n == [r EXCEPT !.pos = q]
      m == IF log[q] \in r.want THEN EvictIfLagging(Enqueue(n, q)) ELSE n
  IN  /\ loop = "task"
      /\ r.phase = "replay" /\ r.pos < r.end
      /\ subs' = [subs EXCEPT ![s] = m]
      /\ loop' = IF m.phase = "closed" THEN "idle" ELSE "task"
      /\ UNCHANGED <<tableVars, bellVars, stopping, cursor, sweepEnd, beats>>

(* The replay is over; the pre-ack buffer comes next.                      *)
ReplayDone(s) ==
  /\ loop = "task"
  /\ subs[s].phase = "replay" /\ subs[s].pos = subs[s].end
  /\ subs' = [subs EXCEPT ![s].phase = "flush"]
  /\ UNCHANGED <<tableVars, bellVars, loopVars, beats>>

(* One buffered live frame goes through enqueue.                           *)
FlushRow(s) ==
  LET r == subs[s]
      m == EvictIfLagging(Enqueue([r EXCEPT !.buf = Tail(@)], Head(r.buf)))
  IN  /\ loop = "task"
      /\ r.phase = "flush" /\ r.buf # <<>>
      /\ subs' = [subs EXCEPT ![s] = m]
      /\ loop' = IF m.phase = "closed" THEN "idle" ELSE "task"
      /\ UNCHANGED <<tableVars, bellVars, stopping, cursor, sweepEnd, beats>>

(* The buffer is empty: the task ends and fan-out writes directly.         *)
FlushDone(s) ==
  /\ loop = "task"
  /\ subs[s].phase = "flush" /\ subs[s].buf = <<>>
  /\ subs' = [subs EXCEPT ![s].phase = "live"]
  /\ loop' = "idle"
  /\ UNCHANGED <<tableVars, bellVars, stopping, cursor, sweepEnd, beats>>

-----------------------------------------------------------------------------
(* Writability callbacks, heartbeats and the peers.                        *)

(* Subscriber._drain on a writable socket: as many queued frames as fit;   *)
(* an emptied queue resets the lag counter.                                *)
Drain(s) ==
  LET r == subs[s]
      n == Min2(Len(r.out), r.read + SNDBUF)
  IN  /\ AtIdle
      /\ r.phase \in Registered /\ r.peer
      /\ Queued(r) /\ r.sent < n
      /\ subs' = [subs EXCEPT ![s].sent = n,
                              ![s].lag = IF n = Len(r.out) THEN 0 ELSE @]
      /\ UNCHANGED <<tableVars, bellVars, loopVars, beats>>

(* _drain on a peer that is gone: the queue is discarded and the lag       *)
(* counter saturated; the next pass or heartbeat evicts the subscriber.    *)
DrainError(s) ==
  LET r == subs[s]
  IN  /\ AtIdle
      /\ r.phase \in Registered /\ ~r.peer
      /\ Queued(r)
      /\ subs' = [subs EXCEPT ![s].out = SubSeq(@, 1, r.sent), ![s].lag = LAG_LIMIT]
      /\ UNCHANGED <<tableVars, bellVars, loopVars, beats>>

(* One tick of _heartbeat_loop: every registered subscriber, acked or not. *)
HeartbeatTo(r) ==
  IF r.phase \in Registered THEN EvictIfLagging(Enqueue(r, Beat)) ELSE r

Heartbeat ==
  /\ AtIdle
  /\ beats < MaxBeats
  /\ beats' = beats + 1
  /\ subs' = [s \in Sub |-> HeartbeatTo(subs[s])]
  /\ UNCHANGED <<tableVars, bellVars, loopVars>>

(* The peer reads one frame.                                               *)
PeerReads(s) ==
  /\ subs[s].peer
  /\ subs[s].read < subs[s].sent
  /\ subs' = [subs EXCEPT ![s].read = @ + 1]
  /\ UNCHANGED <<tableVars, bellVars, loopVars, beats>>

(* The peer closes its end or dies; the daemon notices at its next send.   *)
PeerGone(s) ==
  /\ subs[s].peer
  /\ subs' = [subs EXCEPT ![s].peer = FALSE]
  /\ UNCHANGED <<tableVars, bellVars, loopVars, beats>>

-----------------------------------------------------------------------------
(* Lifecycle: run, _shutdown, SIGKILL.                                     *)

(* run() seeds the cursor before any socket is bound.                      *)
Boot ==
  /\ loop = "down"
  /\ loop' = "booting"
  /\ cursor' = Len(log)
  /\ sweepEnd' = Len(log)
  /\ UNCHANGED <<tableVars, bellVars, stopping, subs, beats>>

(* The listener and the doorbell are bound and the readers registered.     *)
Open ==
  /\ loop = "booting"
  /\ loop' = "idle"
  /\ rings' = 0 /\ eventfd' = FALSE
  /\ UNCHANGED <<tableVars, stopping, cursor, sweepEnd, subs, beats>>

(* SIGTERM: pending subscribe tasks are cancelled, then _shutdown begins   *)
(* its last broadcast pass.                                                *)
Stop ==
  /\ AtIdle
  /\ stopping' = TRUE
  /\ loop' = "woken"
  /\ subs' = [s \in Sub |-> IF subs[s].phase = "hello"
                            THEN CloseSubscriber(subs[s], FALSE) ELSE subs[s]]
  /\ UNCHANGED <<tableVars, bellVars, cursor, sweepEnd, beats>>

ClosedAll ==
  [s \in Sub |-> IF subs[s].phase \in Registered \cup {"hello"}
                 THEN CloseSubscriber(subs[s], FALSE) ELSE subs[s]]

(* _shutdown closes every subscriber and both sockets.                     *)
Shutdown ==
  /\ loop = "closing"
  /\ loop' = "down" /\ stopping' = FALSE
  /\ subs' = ClosedAll
  /\ rings' = 0 /\ eventfd' = FALSE
  /\ sweepEnd' = cursor
  /\ UNCHANGED <<tableVars, cursor, beats>>

(* SIGKILL anywhere: the kernel closes every socket, frames it had already *)
(* taken stay readable by the peer.                                        *)
Crash ==
  /\ loop # "down"
  /\ loop' = "down" /\ stopping' = FALSE
  /\ subs' = ClosedAll
  /\ rings' = 0 /\ eventfd' = FALSE
  /\ sweepEnd' = cursor
  /\ UNCHANGED <<tableVars, cursor, beats>>

-----------------------------------------------------------------------------

Init ==
  /\ log = <<>>
  /\ prod = [p \in Producer |-> "idle"]
  /\ rings = 0 /\ eventfd = FALSE
  /\ loop = "down" /\ stopping = FALSE
  /\ cursor = 0 /\ sweepEnd = 0
  /\ subs = [s \in Sub |-> Unused]
  /\ beats = 0

Batches == UNION {[1..n -> Event] : n \in 1..MaxBatch}

ProducerStep(p) ==
  \/ \E rows \in Batches : Commit(p, rows)
  \/ Ring(p)

SubscribeStep(s) ==
  \/ Accept(s)
  \/ \E want \in Filter, since \in {NoSince} \cup 0..Len(log) : Subscribe(s, want, since)
  \/ SendAck(s)
  \/ ResumeTask(s) \/ ReplayRow(s) \/ ReplayDone(s) \/ FlushRow(s) \/ FlushDone(s)

DaemonStep == AcceptRing \/ Wake \/ Select \/ FanOutRow \/ Heartbeat \/ Boot \/ Open

(* Steps in which every process, peer and send does what is hoped of it.   *)
NormalNext ==
  \/ \E p \in Producer : ProducerStep(p)
  \/ \E s \in Sub : SubscribeStep(s) \/ Drain(s) \/ PeerReads(s)
  \/ DaemonStep

SubscriberFault(s) ==
  \/ HelloFails(s) \/ RejectVersion(s) \/ AckFails(s) \/ ReplayFails(s)
  \/ \E want \in Filter : SnapshotFails(s, want)
  \/ DrainError(s) \/ PeerGone(s)

(* Failures, refusals and the end of a daemon's life.                      *)
FaultNext ==
  \/ \E p \in Producer : RingLost(p)
  \/ \E s \in Sub : SubscriberFault(s)
  \/ AcceptRingTimeout \/ SelectFails \/ Stop \/ Shutdown \/ Crash

Next == NormalNext \/ FaultNext

Spec == Init /\ [][Next]_vars

(***************************************************************************)
(* Fairness.  asyncio polls every registered fd on each turn of the loop,  *)
(* so a callback that keeps becoming ready is run (SF for what competes    *)
(* for an idle loop), and a callback that holds the loop goes on (WF).     *)
(* The accept-thread, a committed producer and a reading peer go on too.   *)
(* Left out: what loses a ring or ends the daemon.                         *)
(***************************************************************************)
LiveNext ==
  \/ NormalNext
  \/ \E s \in Sub : SubscriberFault(s)

Fairness ==
  /\ WF_vars(Boot) /\ WF_vars(Open) /\ WF_vars(AcceptRing)
  /\ SF_vars(Wake) /\ WF_vars(Select) /\ WF_vars(FanOutRow)
  /\ \A p \in Producer : WF_vars(Ring(p))
  /\ \A s \in Sub :
       /\ SF_vars(SendAck(s) \/ AckFails(s))
       /\ SF_vars(ResumeTask(s) \/ ReplayFails(s))
       /\ WF_vars(ReplayRow(s) \/ ReplayDone(s) \/ FlushRow(s) \/ FlushDone(s))
       /\ SF_vars(Drain(s) \/ DrainError(s))
       /\ WF_vars(PeerReads(s))

LiveSpec == Init /\ [][LiveNext]_vars /\ Fairness

-----------------------------------------------------------------------------
(* Properties.                                                             *)

(* Every variable has its type.                                            *)
TypeOK ==
  /\ log \in Seq(Event)
  /\ prod \in [Producer -> {"idle", "committed"}]
  /\ rings \in 0..BACKLOG
  /\ eventfd \in BOOLEAN
  /\ loop \in {"down", "booting", "idle", "woken", "sweep", "task", "closing"}
  /\ stopping \in BOOLEAN
  /\ cursor \in Nat /\ sweepEnd \in Nat
  /\ subs \in [Sub -> SubscriberType]
  /\ beats \in Nat

(* Frames of rows reach a subscriber in seq order and never twice, whichever *)
(* of _replay, the pre-ack buffer and _fan_out hands them over: the replay   *)
(* watermark is what keeps the three from overlapping.                       *)
InOrder(r) ==
  /\ \A i, j \in DOMAIN r.out : i < j /\ r.out[i] > 0 /\ r.out[j] > 0 => r.out[i] < r.out[j]
  /\ \A i, j \in DOMAIN r.buf : i < j => r.buf[i] < r.buf[j]
  /\ \A i \in DOMAIN r.out, j \in DOMAIN r.buf : r.out[i] < r.buf[j]

NoDuplicateInSeqOrder == \A s \in Sub : InOrder(subs[s])

(* A registered subscriber that is not about to be evicted has been handed   *)
(* exactly the rows it asked for: the ones its replay has covered and every  *)
(* row the daemon has fanned out since its base.  Nothing falls between the  *)
(* registration, the snapshot and the fan-out that runs while the ack is in  *)
(* flight, and nothing it did not ask for slips in.                          *)
Owed(r, q) ==
  /\ log[q] \in r.want
  /\ q \in (r.lo + 1)..r.pos \/ q \in (r.base + 1)..cursor

Handed(r, q) ==
  \/ \E i \in DOMAIN r.out : r.out[i] = q
  \/ \E i \in DOMAIN r.buf : r.buf[i] = q

ExactFeed ==
  \A s \in Sub :
    subs[s].phase \in Registered /\ subs[s].lag < LAG_LIMIT =>
      \A q \in 1..Len(log) : Handed(subs[s], q) <=> Owed(subs[s], q)

(* No event frame is handed to a connection before its one subscribe_ack,    *)
(* and a subscribe_rejected frame is the last thing it carries and never     *)
(* follows a frame that was still queued.                                    *)
EventsFollowAck ==
  \A s \in Sub :
    LET out == subs[s].out
    IN  /\ \A i \in DOMAIN out : out[i] > 0 => \E j \in 1..(i - 1) : out[j] = Ack
        /\ \A i, j \in DOMAIN out : out[i] = Ack /\ out[j] = Ack => i = j
        /\ \A i \in DOMAIN out : out[i] = Reject =>
              i = Len(out) /\ subs[s].phase = "closed" /\ subs[s].sent = i

(* The memory a subscriber can pin is bounded: the tx queue never outgrows   *)
(* the lag counter, a counter at the limit only survives on a dead peer with *)
(* nothing queued, and the pre-ack buffer keeps to its cap.                  *)
BoundedBacklog ==
  \A s \in Sub :
    LET r == subs[s]
    IN  /\ Len(r.out) - r.sent <= r.lag
        /\ r.lag >= LAG_LIMIT => r.lag = LAG_LIMIT /\ ~r.peer /\ ~Queued(r)
        /\ Len(r.buf) <= PRE_ACK_BUFFER_FRAMES

(* A ring the doorbell holds is answered by a sweep of the SWEEP_LIMIT rows   *)
(* after the ones already selected: drain-then-SELECT loses no wake-up,       *)
(* whatever coalesces and whatever pass is running when the ring arrives.     *)
RingIsAnswered ==
  \A q \in 1..Cardinality(Event) :
    (Listening /\ (rings > 0 \/ eventfd) /\ q <= Len(log) /\ q <= sweepEnd + SWEEP_LIMIT)
      ~> (cursor >= q)

(* broadcast.py and _emit.py: the pass loses nothing and delays a row by at   *)
(* most one ring, so every row committed before a ring is swept by itself.    *)
RungRowsAreSwept ==
  \A q \in 1..Cardinality(Event) :
    (Listening /\ (rings > 0 \/ eventfd) /\ q <= Len(log)) ~> (cursor >= q)

(* A registered subscription ends its handshake: live, or closed.             *)
SubscribeCompletes ==
  \A s \in Sub : (subs[s].phase = "acking") ~> (subs[s].phase \in {"live", "closed"})

(* broadcast.py, on its replay: a database fault must not crash the task and  *)
(* leak the subscriber, so every subscriber in the map goes live or is closed *)
(* unless its peer gives up.                                                  *)
NoOrphans ==
  \A s \in Sub :
    (subs[s].phase \in Registered) ~> (subs[s].phase \in {"live", "closed"} \/ ~subs[s].peer)

(* CONSUMER_API.md: a `since` subscribe replays every persisted event after   *)
(* the cursor before it goes live.                                            *)
ReplayIsComplete ==
  \A s \in Sub :
    LET r == subs[s]
    IN  r.phase = "live" /\ r.since # NoSince /\ r.lag < LAG_LIMIT =>
          \A q \in (r.lo + 1)..r.base : log[q] \in r.want => Handed(r, q)
=============================================================================
