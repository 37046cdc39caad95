----------------------------- MODULE FsDebounce -----------------------------
(***************************************************************************)
(* The file-system source (waitbus/sources/fs_watch.py): the observer      *)
(* thread puts completed saves into the debouncer's pending map, a daemon  *)
(* thread flushes it as one emit_batch per debounce period, and leaving    *)
(* watch() stops the observer, stops the loop, joins and flushes what is   *)
(* left.                                                                   *)
(*                                                                         *)
(* A save is one delivery_id (path and mtime); a notification repeated for *)
(* the same on-disk state is the same save.  The lock makes add and the    *)
(* taking of a batch atomic; emit_batch runs off the lock and takes a step *)
(* of its own.                                                             *)
(***************************************************************************)
EXTENDS Integers, FiniteSets

CONSTANTS
  Save,        \* completed saves
  MaxNotices   \* bound: notifications, repeated ones included

ASSUME FsAssumption == MaxNotices \in Nat

VARIABLES
  observing,  \* the observer thread dispatches notifications
  notices,    \* notifications dispatched so far
  added,      \* saves given to add (a record of the past)
  pending,    \* _pending
  batch,      \* the batch each thread has taken and not yet emitted
  stopEvt,    \* _stop_evt
  flusher,    \* the daemon thread: "wait", "emit", "exited", "died"
  main,       \* watch(): "run", "stopping", "joining", "flush", "emit", "ended", "raised"
  rows,       \* delivery_ids in the events table
  failed      \* saves of batches whose emit raised (a record of the past)

buffers == <<notices, added, pending, batch, rows, failed>>
vars == <<observing, stopEvt, flusher, main, buffers>>

Thread == {"flusher", "main"}

-----------------------------------------------------------------------------

(* _Handler._emit and _Debouncer.add, for a file that still exists.        *)
Add(x) ==
  /\ observing /\ notices < MaxNotices
  /\ notices' = notices + 1
  /\ added' = added \cup {x}
  /\ pending' = pending \cup {x}
  /\ UNCHANGED <<observing, batch, stopEvt, flusher, main, rows, failed>>

(* The locked half of flush.                                               *)
Take(t) ==
  /\ batch' = [batch EXCEPT ![t] = pending]
  /\ pending' = {}
  /\ UNCHANGED <<notices, added, rows, failed>>

(* Mutant: the buffer is cleared when the batch is in, with what came in   *)
(* meanwhile.                                                              *)
EmittedClears(t) ==
  /\ rows' = rows \cup batch[t]
  /\ batch' = [batch EXCEPT ![t] = {}]
  /\ pending' = {}
  /\ UNCHANGED <<notices, added, failed>>

(* emit_batch commits: one transaction, repeated delivery_ids ignored.     *)
Emitted(t) ==
  /\ rows' = rows \cup batch[t]
  /\ batch' = [batch EXCEPT ![t] = {}]
  /\ UNCHANGED <<notices, added, pending, failed>>

(* emit_batch raises (the database stayed locked): no row is committed.    *)
EmitRaises(t) ==
  /\ failed' = failed \cup batch[t]
  /\ batch' = [batch EXCEPT ![t] = {}]
  /\ UNCHANGED <<notices, added, pending, rows>>

-----------------------------------------------------------------------------
(* _Debouncer._run.                                                        *)

(* The debounce period is over; flush of an empty buffer does nothing.     *)
FlusherTakes ==
  /\ flusher = "wait" /\ ~stopEvt /\ pending # {}
  /\ Take("flusher")
  /\ flusher' = "emit"
  /\ UNCHANGED <<observing, stopEvt, main>>

FlusherEmits ==
  /\ flusher = "emit"
  /\ Emitted("flusher")
  /\ flusher' = "wait"
  /\ UNCHANGED <<observing, stopEvt, main>>

(* Nothing catches what emit_batch raises: the thread ends.                *)
FlusherDies ==
  /\ flusher = "emit"
  /\ EmitRaises("flusher")
  /\ flusher' = "died"
  /\ UNCHANGED <<observing, stopEvt, main>>

(* _stop_evt ends the loop without a flush.                                *)
FlusherExits ==
  /\ flusher = "wait" /\ stopEvt
  /\ flusher' = "exited"
  /\ UNCHANGED <<observing, stopEvt, main, buffers>>

-----------------------------------------------------------------------------
(* The finally block of watch().                                           *)

(* Mutant: the debouncer is stopped while the observer still dispatches.   *)
StopObserverLate ==
  /\ main = "run"
  /\ main' = "stopping"
  /\ UNCHANGED <<observing, stopEvt, flusher, buffers>>

(* SIGINT or the stop event: stop the observer and join it.                *)
StopObserver ==
  /\ main = "run"
  /\ observing' = FALSE
  /\ main' = "stopping"
  /\ UNCHANGED <<stopEvt, flusher, buffers>>

(* _Debouncer.stop.                                                        *)
StopDebouncer ==
  /\ main = "stopping"
  /\ stopEvt' = TRUE
  /\ main' = "joining"
  /\ UNCHANGED <<observing, flusher, buffers>>

(* The join returns: the thread is over, or five seconds are, which only   *)
(* an emit under way can outlast.                                          *)
Joined ==
  /\ main = "joining" /\ flusher \in {"exited", "died", "emit"}
  /\ main' = "flush"
  /\ UNCHANGED <<observing, stopEvt, flusher, buffers>>

(* The final flush: nothing to do, or a batch.                             *)
MainTakes ==
  /\ main = "flush"
  /\ IF pending = {} THEN main' = "ended" /\ UNCHANGED buffers
                     ELSE main' = "emit" /\ Take("main")
  /\ UNCHANGED <<observing, stopEvt, flusher>>

MainEmits ==
  /\ main = "emit"
  /\ Emitted("main")
  /\ main' = "ended"
  /\ UNCHANGED <<observing, stopEvt, flusher>>

(* The final flush raises out of watch(), where its caller sees it.        *)
MainRaises ==
  /\ main = "emit"
  /\ EmitRaises("main")
  /\ main' = "raised"
  /\ UNCHANGED <<observing, stopEvt, flusher>>

Init ==
  /\ observing = TRUE /\ notices = 0 /\ added = {} /\ pending = {}
  /\ batch = [t \in Thread |-> {}] /\ stopEvt = FALSE
  /\ flusher = "wait" /\ main = "run" /\ rows = {} /\ failed = {}

FlusherNext == FlusherTakes \/ FlusherEmits \/ FlusherDies \/ FlusherExits
MainNext == StopDebouncer \/ Joined \/ MainTakes \/ MainEmits \/ MainRaises

Next ==
  \/ \E x \in Save : Add(x)
  \/ FlusherNext
  \/ StopObserver \/ MainNext

Spec == Init /\ [][Next]_vars

(* Both threads go on; nothing says that a watch is ever stopped.          *)
LiveSpec == Spec /\ WF_vars(FlusherNext) /\ WF_vars(MainNext)

-----------------------------------------------------------------------------
(* Properties.                                                             *)

(* Every variable has its type, and a thread is emitting exactly while it  *)
(* holds a batch: no empty batch is ever emitted.                          *)
TypeOK ==
  /\ observing \in BOOLEAN /\ stopEvt \in BOOLEAN
  /\ notices \in 0..MaxNotices
  /\ added \subseteq Save /\ pending \subseteq added
  /\ rows \subseteq added /\ failed \subseteq added
  /\ batch \in [Thread -> SUBSET added]
  /\ flusher \in {"wait", "emit", "exited", "died"}
  /\ main \in {"run", "stopping", "joining", "flush", "emit", "ended", "raised"}
  /\ batch["flusher"] # {} <=> flusher = "emit"
  /\ batch["main"] # {} <=> main = "emit"

(* Whatever fails or comes late, a save the observer handed over is in the *)
(* buffer, in the batch of one thread, in the table, or in a batch whose   *)
(* emit raised: the lock and the off-lock emit lose none in between.       *)
SavesAreAccountedFor ==
  added = pending \cup batch["flusher"] \cup batch["main"] \cup rows \cup failed

(* A watch that returns has stored every save it was told of, unless an    *)
(* emit raised or is still under way: the order observer, loop, join,      *)
(* flush leaves no save in a buffer nobody reads (fs_watch: "a completed   *)
(* save is never dropped on shutdown").                                    *)
SavesSurviveStop == main = "ended" => rows \cup failed \cup batch["flusher"] = added

(* A save reaches the table, stopped watch or not, a flush period later,   *)
(* unless an emit raised.                                                  *)
SavesReachTheTable == \A x \in Save : (x \in added) ~> (x \in rows \/ failed # {})
=============================================================================
