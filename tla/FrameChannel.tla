---------------------------- MODULE FrameChannel ----------------------------
(***************************************************************************)
(* What a Subscriber promises the rest of the daemon: a bounded FIFO of    *)
(* whole frames.  The frame level at which Broadcast describes a           *)
(* connection, with the kernel's buffer left open.                         *)
(***************************************************************************)
EXTENDS Integers, Sequences

CONSTANTS
  FrameSet,    \* frames that can be handed over
  LAG_LIMIT    \* consecutive unclean sends before eviction

VARIABLES
  out,    \* frames handed over and neither refused nor discarded
  sent,   \* how many of them the kernel took whole
  lag,    \* consecutive unclean sends
  up      \* the subscriber is in the map

chanVars == <<out, sent, lag, up>>

ChannelInit == out = <<>> /\ sent = 0 /\ lag = 0 /\ up = TRUE

(* A frame is handed over and taken at once: only past an empty queue.     *)
Pass(f) ==
  /\ up /\ sent = Len(out)
  /\ out' = Append(out, f) /\ sent' = sent + 1 /\ lag' = 0
  /\ UNCHANGED up

(* A frame is handed over and waits, below the lag limit.                  *)
Wait(f) ==
  /\ up /\ lag + 1 < LAG_LIMIT
  /\ out' = Append(out, f) /\ lag' = lag + 1
  /\ UNCHANGED <<sent, up>>

(* The oldest waiting frame is taken; the last one clears the lag.         *)
Flush ==
  /\ up /\ sent < Len(out)
  /\ sent' = sent + 1
  /\ lag' = IF sent + 1 = Len(out) THEN 0 ELSE lag
  /\ UNCHANGED <<out, up>>

(* The connection failed: what waits is gone, and the lag says so.         *)
Fail ==
  /\ up /\ sent < Len(out)
  /\ out' = SubSeq(out, 1, sent) /\ lag' = LAG_LIMIT
  /\ UNCHANGED <<sent, up>>

(* The subscriber leaves the map with the frames the kernel took, at the   *)
(* lag limit or for a reason of the daemon's own.                          *)
Close ==
  /\ up
  /\ out' = SubSeq(out, 1, sent) /\ up' = FALSE
  /\ lag' \in {lag, LAG_LIMIT}
  /\ UNCHANGED sent

ChannelNext ==
  \/ \E f \in FrameSet : Pass(f) \/ Wait(f)
  \/ Flush \/ Fail \/ Close

ChannelSpec == ChannelInit /\ [][ChannelNext]_chanVars
=============================================================================
