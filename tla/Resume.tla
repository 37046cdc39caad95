------------------------------- MODULE Resume -------------------------------
(***************************************************************************)
(* Resuming from a bookmark (waitbus/_broadcast_sub.py BookmarkCursor and  *)
(* await_predicate, coalesce.py, replay.py, broadcast_tap.py): sessions of *)
(* one consumer read the table from after their bookmark, emit, and move   *)
(* the bookmark, until they end or are killed; the next one starts from    *)
(* the file.                                                               *)
(*                                                                         *)
(* A row's place in the table is its seq, the order the daemon sends in.   *)
(* Its event_id is drawn before the insert takes the write lock, so two    *)
(* producers may commit in the other order.  The session ends or dies in   *)
(* every state; the daemon (module Broadcast) delivers in seq order.       *)
(***************************************************************************)
EXTENDS Integers, FiniteSetsExt, SequencesExt

CONSTANTS
  Entity,      \* what entity_key collapses on
  NoEntity,    \* entity_key of a row that is passed through
  MaxRows,     \* bound: rows
  MaxSessions  \* bound: sessions

ASSUME ResumeAssumption == MaxRows \in Nat

VARIABLES
  table,     \* rows in seq order: [id, ent]
  bookmark,  \* the event_id in the bookmark file
  phase,     \* "off", "read", "handed", "flush", "advance"
  mode,      \* how the consumer reads: one of Modes
  pos,       \* the next seq on the stream
  started,   \* the first seq of the session's stream (history)
  snap,      \* seqs accumulated: snapshot and passthrough
  merged,    \* seqs left to flush
  emitted,   \* seqs emitted by all sessions (history)
  sessions,  \* sessions started
  kills      \* sessions that were killed or raised (history)

Modes == {"faithful", "coalesce"}

session == <<phase, mode, pos, started, snap, merged>>
resumeVars == <<table, bookmark, session, emitted, sessions, kills>>

Id(i) == table[i].id
Ent(i) == table[i].ent

(* seq_for_event_id: the row of this very event_id; 0 if it is gone.       *)
SeqForEventId(id) == Max({i \in DOMAIN table : Id(i) = id} \cup {0})

-----------------------------------------------------------------------------

Commit(id, ent) ==
  /\ Len(table) < MaxRows
  /\ \A i \in DOMAIN table : Id(i) # id
  /\ table' = Append(table, [id |-> id, ent |-> ent])
  /\ UNCHANGED <<bookmark, session, emitted, sessions, kills>>

(* Load the bookmark, subscribe with it as `since`.                        *)
Start ==
  /\ phase = "off" /\ sessions < MaxSessions
  /\ sessions' = sessions + 1
  /\ phase' = "read"
  /\ pos' = SeqForEventId(bookmark) + 1 /\ started' = pos'
  /\ snap' = {} /\ merged' = <<>>
  /\ UNCHANGED <<table, bookmark, mode, emitted, kills>>

-----------------------------------------------------------------------------
(* Faithful: await_predicate with the cursor.                              *)

(* Mutant: the bookmark is written after decide.                           *)
AdvanceLate ==
  /\ phase = "read" /\ mode = "faithful" /\ pos <= Len(table)
  /\ phase' = "handed"
  /\ UNCHANGED <<table, bookmark, mode, pos, started, snap, merged, emitted, sessions, kills>>

(* A frame is read and the bookmark is written.                            *)
Advance ==
  /\ phase = "read" /\ mode = "faithful" /\ pos <= Len(table)
  /\ bookmark' = Id(pos)
  /\ phase' = "handed"
  /\ UNCHANGED <<table, mode, pos, started, snap, merged, emitted, sessions, kills>>

(* decide emits the frame, and matches or goes on.                         *)
Decide ==
  /\ phase = "handed"
  /\ emitted' = Append(emitted, pos)
  /\ pos' = pos + 1
  /\ phase' \in {"read", "off"}
  /\ UNCHANGED <<table, bookmark, mode, started, snap, merged, sessions, kills>>

-----------------------------------------------------------------------------
(* Coalesced: coalesce_replay.                                             *)

(* _accumulate: the newest event_id of an entity stays.                    *)
Accumulate(i) ==
  LET same == {j \in snap : Ent(i) # NoEntity /\ Ent(j) = Ent(i)}
  IN  snap' = IF \A j \in same : Id(i) > Id(j) THEN (snap \ same) \cup {i} ELSE snap

Collect ==
  /\ phase = "read" /\ mode = "coalesce" /\ pos <= Len(table)
  /\ Accumulate(pos)
  /\ pos' = pos + 1
  /\ UNCHANGED <<table, bookmark, phase, mode, started, merged, emitted, sessions, kills>>

(* Mutant: the flush follows the order of arrival, newest first.           *)
MergeReversed ==
  CHOOSE s \in [1..Cardinality(snap) -> snap] : \A k, l \in DOMAIN s : k < l => Id(s[k]) > Id(s[l])

(* What was collected, in event_id order.                                  *)
Merge ==
  CHOOSE s \in [1..Cardinality(snap) -> snap] : \A k, l \in DOMAIN s : k < l => Id(s[k]) < Id(s[l])

(* The stream was idle long enough, or the daemon closed it.               *)
BacklogEnds ==
  /\ phase = "read" /\ mode = "coalesce"
  /\ merged' = Merge
  /\ phase' = IF merged' = <<>> THEN "off" ELSE "flush"
  /\ UNCHANGED <<table, bookmark, mode, pos, started, snap, emitted, sessions, kills>>

FlushEmit ==
  /\ phase = "flush"
  /\ emitted' = Append(emitted, Head(merged))
  /\ phase' = "advance"
  /\ UNCHANGED <<table, bookmark, mode, pos, started, snap, merged, sessions, kills>>

FlushAdvance ==
  /\ phase = "advance"
  /\ bookmark' = Id(Head(merged))
  /\ merged' = Tail(merged)
  /\ phase' = IF merged' = <<>> THEN "off" ELSE "flush"
  /\ UNCHANGED <<table, mode, pos, started, snap, emitted, sessions, kills>>

-----------------------------------------------------------------------------

(* Idle, end of file, SIGINT while it waits for a frame.                   *)
End ==
  /\ phase = "read"
  /\ phase' = "off"
  /\ UNCHANGED <<table, bookmark, mode, pos, started, snap, merged, emitted, sessions, kills>>

(* SIGKILL, a signal between two statements, an emit or an advance that    *)
(* raises.                                                                 *)
Kill ==
  /\ phase # "off"
  /\ phase' = "off" /\ kills' = kills + 1
  /\ UNCHANGED <<table, bookmark, mode, pos, started, snap, merged, emitted, sessions>>

(* A bookmark at the first row, left by an earlier session.                *)
ResumeInit ==
  /\ \E id \in 1..MaxRows : table = <<[id |-> id, ent |-> NoEntity]>> /\ bookmark = id
  /\ phase = "off" /\ mode \in Modes /\ pos = 2 /\ started = 2
  /\ snap = {} /\ merged = <<>> /\ emitted = <<>>
  /\ sessions = 0 /\ kills = 0

ResumeNext ==
  \/ \E id \in 1..MaxRows, ent \in Entity \cup {NoEntity} : Commit(id, ent)
  \/ Start \/ Advance \/ Decide
  \/ Collect \/ BacklogEnds \/ FlushEmit \/ FlushAdvance
  \/ End \/ Kill

ResumeSpec == ResumeInit /\ [][ResumeNext]_resumeVars

-----------------------------------------------------------------------------
(* Properties.                                                             *)

(* Every variable has its type; a flush holds each accumulated row once,   *)
(* in event_id order.                                                      *)
ResumeTypeOK ==
  /\ table \in Seq([id : 1..MaxRows, ent : Entity \cup {NoEntity}])
  /\ \E i \in DOMAIN table : bookmark = Id(i)
  /\ phase \in {"off", "read", "handed", "flush", "advance"} /\ mode \in Modes
  /\ started \in 2..Len(table) + 1 /\ pos \in started..Len(table) + 1
  /\ snap \subseteq DOMAIN table /\ merged \in Seq(snap)
  /\ emitted \in Seq(DOMAIN table)
  /\ sessions \in 0..MaxSessions /\ kills \in 0..sessions
  /\ \A k \in 1..Len(merged) - 1 : Id(merged[k]) < Id(merged[k + 1])

(* The row the bookmark names.                                             *)
Bookmarked == CHOOSE i \in DOMAIN table : Id(i) = bookmark

(* Faithful sessions, however they end: no frame is emitted twice and none *)
(* out of seq order, because the bookmark is written before decide.        *)
EmittedOnceInOrder ==
  mode = "faithful" => \A k \in 1..Len(emitted) - 1 : emitted[k] < emitted[k + 1]

(* And a session that is killed costs at most the one frame it had taken.  *)
LossIsBounded ==
  mode = "faithful" =>
    Cardinality({i \in 2..Bookmarked :
                   i \notin Range(emitted) /\ ~(phase = "handed" /\ i = pos)}) <= kills

(* Both: a bookmark read back after any ends and kills resumes a faithful  *)
(* session without a repeat and with at most a frame lost for each kill.   *)
FaithfulResume == EmittedOnceInOrder /\ LossIsBounded

(* What a coalesced flush emits for an entity is the newest of what the    *)
(* session collected, whatever order it came in.                           *)
SnapshotIsLatest ==
  phase \in {"flush", "advance"} =>
    \A i \in started..pos - 1 :
      \E j \in snap : IF Ent(i) = NoEntity THEN j = i
                      ELSE Ent(j) = Ent(i) /\ Id(j) >= Id(i)

(* Whatever a kill in mid-flush leaves unemitted is pulled again by the    *)
(* next session, as itself or as a newer state of its entity               *)
(* (coalesce_replay: "the next resume re-pulls the un-flushed remainder"). *)
Repulled(i) ==
  \/ i \in Range(emitted)
  \/ /\ Ent(i) # NoEntity
     /\ \E j \in DOMAIN table :
          /\ Ent(j) = Ent(i) /\ Id(j) > Id(i)
          /\ j > Bookmarked \/ j \in Range(emitted)

UnflushedIsRepulled ==
  mode = "coalesce" /\ phase = "off" => \A i \in 2..Bookmarked : Repulled(i)

(* It is, as long as the event_ids ascend with seq: a single producer.     *)
IdsInOrder == \A i, j \in DOMAIN table : i < j => Id(i) < Id(j)

UnflushedIsRepulledInOrder == IdsInOrder => UnflushedIsRepulled

(* An entity is never reported in an older state than before, over all     *)
(* sessions, backlogs cut short by the daemon included ("a future resume   *)
(* can only get the same-or-newer state, never a regression"), as long as  *)
(* the event_ids ascend and no session is killed.                          *)
NoEntityRegresses ==
  mode = "coalesce" /\ IdsInOrder /\ kills = 0 =>
    \A k, l \in DOMAIN emitted :
      k < l /\ Ent(emitted[k]) # NoEntity /\ Ent(emitted[k]) = Ent(emitted[l])
        => Id(emitted[k]) <= Id(emitted[l])

(* All three: a coalesced session emits the newest state of every entity,  *)
(* a later one only repeats or supersedes it, and nothing below the        *)
(* bookmark is left unsaid.                                                *)
CoalescedResume == SnapshotIsLatest /\ UnflushedIsRepulledInOrder /\ NoEntityRegresses
=============================================================================
