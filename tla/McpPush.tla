------------------------------- MODULE McpPush -------------------------------
(***************************************************************************)
(* The push side of the MCP server (waitbus/mcp.py,                        *)
(* _mcp_subscriptions.py): a task reads the daemon's frames and turns each *)
(* into a channel notification and a resources/updated ping for every      *)
(* subscribed URI it matches.  Until the client has sent                   *)
(* notifications/initialized they are kept in a bounded queue, which the   *)
(* dispatch loop then flushes while the task goes on.                      *)
(*                                                                         *)
(* An asyncio task gives way at each send; what is between two sends is    *)
(* one step.  Sends do not fail: the process ends with its client.         *)
(***************************************************************************)
EXTENDS Integers, FiniteSetsExt, SequencesExt

CONSTANTS
  QueueMax,    \* _PENDING_QUEUE_MAX
  MaxEvents,   \* bound: events committed
  MaxRead,     \* bound: frames read, on all connections
  MaxRequests  \* bound: subscribe and unsubscribe requests

ASSUME PushAssumption == QueueMax \in Nat \ {0}

VARIABLES
  events,      \* the events' kinds, in seq order
  replays,     \* [mcp] since is configured, and no event lies below it
  link,        \* "down", "backoff", "up", "rejected"
  upcoming,    \* the next event on the stream
  frames,      \* the kinds of the frames read, by all connections (history)
  negotiated,  \* the client has the claude/channel capability
  ready,       \* state.initialized
  flushing,    \* _flush_pending is under way
  subs,        \* state.subscriptions
  todo,        \* notifications still to make for the frame in hand
  pending,     \* state.pending
  overflowed,  \* state.pending_overflowed
  sent,        \* what the client was sent
  owed,        \* notifications due for the frames read (history)
  requests     \* requests served

session == <<subs, pending, overflowed, ready, flushing>>
stream == <<events, replays, link, upcoming, frames>>
pushVars == <<stream, negotiated, session, todo, sent, owed, requests>>

Uris == {"current", "repo", "agent"}

(* An event of a repository, an agent's message, the stub of an event that *)
(* is too long for a frame.                                                *)
Kinds == {"run", "message", "stub"}

Note(i, to) == [frame |-> i, to |-> to]
Marker == Note(0, "channel")

-----------------------------------------------------------------------------
(* The queue.                                                              *)

(* Mutant: saturation is noticed one entry late.                           *)
EnqueueUnmarked(n) ==
  /\ pending' = SubSeq(Append(pending, n), 1 + Max({0, Len(pending) + 1 - QueueMax}), Len(pending) + 1)
  /\ overflowed' = (overflowed \/ Len(pending) > QueueMax)

(* _queue_pending, _queue_pending_channel, _mark_overflow_if_saturated:    *)
(* a deque drops its oldest.                                               *)
Enqueue(n) ==
  /\ pending' = SubSeq(Append(pending, n), 1 + Max({0, Len(pending) + 1 - QueueMax}), Len(pending) + 1)
  /\ overflowed' = (overflowed \/ Len(pending) >= QueueMax)

(* _emit_frame, _ping_session_uri.                                         *)
Notify(n) ==
  IF ~ready THEN Enqueue(n) /\ UNCHANGED sent
  ELSE /\ sent' = IF n.to = "channel" /\ ~negotiated THEN sent ELSE Append(sent, n)
       /\ UNCHANGED <<pending, overflowed>>

-----------------------------------------------------------------------------
(* _stream_events_loop.                                                    *)

(* The socket exists and accepts.  _load_filters: live from the            *)
(* subscription on, or each connection replays from `since`.               *)
Connect ==
  /\ link \in {"down", "backoff"}
  /\ link' = "up" /\ upcoming' = IF replays THEN 1 ELSE Len(events) + 1
  /\ UNCHANGED <<events, replays, frames, negotiated, session, todo, sent, owed, requests>>

Disconnect ==
  /\ link \in {"up", "rejected"} /\ todo = <<>>
  /\ link' = "backoff"
  /\ UNCHANGED <<events, replays, upcoming, frames, negotiated, session, todo, sent, owed, requests>>

(* _emit_to_subscribed_sessions, _emit_agent_doorbell, _uri_matches_frame: *)
(* an agent's message pings no other resource, and what comes without an   *)
(* owner pings none, the stub of an oversized event among it.              *)
PingedBy(kind) ==
  IF kind = "run" THEN {"current", "repo"} ELSE IF kind = "message" THEN {"agent"} ELSE {}

Matching(i) == subs \cap PingedBy(frames[i])

(* _build_frame_emissions: heartbeats and the ack apart, every frame is    *)
(* for the channel, a subscribe_rejected too (with nothing in it).         *)
Take(kind) ==
  LET n == Note(Len(frames) + 1, "channel")
  IN  /\ frames' = Append(frames, kind)
      /\ todo' = <<n>> /\ owed' = owed \cup {n}

(* A frame is read: its channel notification, then a ping per URI.         *)
ReadFrame ==
  /\ link = "up" /\ todo = <<>> /\ upcoming <= Len(events) /\ Len(frames) < MaxRead
  /\ Take(events[upcoming])
  /\ upcoming' = upcoming + 1
  /\ UNCHANGED <<events, replays, link, negotiated, session, sent, requests>>

(* The daemon's last word: it closes the connection behind it.             *)
ReadReject ==
  /\ link = "up" /\ todo = <<>> /\ Len(frames) < MaxRead
  /\ Take("rejected")
  /\ link' = "rejected"
  /\ UNCHANGED <<events, replays, upcoming, negotiated, session, sent, requests>>

(* The URIs are matched when the channel notification is out.              *)
EmitChannel ==
  /\ todo # <<>> /\ Head(todo).to = "channel"
  /\ Notify(Head(todo))
  /\ LET i == Head(todo).frame
         pings == SetToSeq({Note(i, u) : u \in Matching(i)}) IN
       todo' = pings /\ owed' = owed \cup Range(pings)
  /\ UNCHANGED <<stream, negotiated, subs, ready, flushing, requests>>

Ping ==
  /\ todo # <<>> /\ Head(todo).to # "channel"
  /\ Notify(Head(todo))
  /\ todo' = Tail(todo)
  /\ UNCHANGED <<stream, negotiated, subs, ready, flushing, owed, requests>>

-----------------------------------------------------------------------------
(* The dispatch loop: initialized, the flush, the handlers.                *)

Initialized ==
  /\ ~ready
  /\ ready' = TRUE /\ flushing' = TRUE
  /\ UNCHANGED <<stream, negotiated, subs, pending, overflowed, todo, sent, owed, requests>>

(* _flush_pending, up to its next send.                                    *)
Flush ==
  /\ flushing /\ pending # <<>>
  /\ pending' = Tail(pending)
  /\ sent' = IF Head(pending).to = "channel" /\ ~negotiated THEN sent
             ELSE Append(sent, Head(pending))
  /\ UNCHANGED <<stream, negotiated, subs, overflowed, ready, flushing, todo, owed, requests>>

FlushEnds ==
  /\ flushing /\ pending = <<>>
  /\ flushing' = FALSE
  /\ IF overflowed /\ negotiated
     THEN overflowed' = FALSE /\ sent' = Append(sent, Marker)
     ELSE UNCHANGED <<overflowed, sent>>
  /\ UNCHANGED <<stream, negotiated, subs, pending, ready, todo, owed, requests>>

(* _subscribe_handler is an error while the daemon's socket is missing.    *)
SubscribeUri(uri) ==
  /\ requests < MaxRequests /\ link # "down"
  /\ subs' = subs \cup {uri} /\ requests' = requests + 1
  /\ UNCHANGED <<stream, negotiated, pending, overflowed, ready, flushing, todo, sent, owed>>

UnsubscribeUri(uri) ==
  /\ requests < MaxRequests /\ uri \in subs
  /\ subs' = subs \ {uri} /\ requests' = requests + 1
  /\ UNCHANGED <<stream, negotiated, pending, overflowed, ready, flushing, todo, sent, owed>>

CommitEvent(kind) ==
  /\ Len(events) < MaxEvents
  /\ events' = Append(events, kind)
  /\ UNCHANGED <<replays, link, upcoming, frames, negotiated, session, todo, sent, owed, requests>>

-----------------------------------------------------------------------------

PushInit ==
  /\ events = <<>> /\ replays \in BOOLEAN /\ link = "down" /\ upcoming = 1 /\ frames = <<>>
  /\ negotiated \in BOOLEAN
  /\ ready = FALSE /\ flushing = FALSE /\ subs = {} /\ todo = <<>>
  /\ pending = <<>> /\ overflowed = FALSE /\ sent = <<>> /\ owed = {} /\ requests = 0

PushNext ==
  \/ Connect \/ Disconnect \/ ReadFrame \/ ReadReject \/ EmitChannel \/ Ping
  \/ Initialized \/ Flush \/ FlushEnds
  \/ \E uri \in Uris : SubscribeUri(uri) \/ UnsubscribeUri(uri)
  \/ \E kind \in Kinds : CommitEvent(kind)

PushSpec == PushInit /\ [][PushNext]_pushVars

-----------------------------------------------------------------------------
(* Properties.                                                             *)

Settled == owed \ Range(todo)
Absent == {n \in Settled : n \notin Range(sent) \cup Range(pending)}

(* A client that takes the channel is told of every loss, and of nothing   *)
(* else, however the handshake, the flush, the stream and its reconnects   *)
(* interleave: each notification that a frame read called for is sent or   *)
(* queued, once; what the queue has dropped its flag tells until the flush *)
(* is over, and the marker from then on.  A client that did not negotiate  *)
(* the channel lacks the channel's notifications and what the queue has    *)
(* dropped, and nothing ever tells it (README, "Where the code             *)
(* disagrees").  A frame that no connection has read is owed to nobody.    *)
NothingLostSilently ==
  /\ IsInjective(sent \o pending)
  /\ negotiated /\ Absent # {} => IF ready /\ ~flushing THEN Marker \in Range(sent) ELSE overflowed
  /\ overflowed \/ Marker \in Range(sent) => Absent # {}
  /\ ~negotiated => /\ Marker \notin Range(sent)
                    /\ \A n \in Absent : overflowed \/ (ready /\ n.to = "channel")
=============================================================================
