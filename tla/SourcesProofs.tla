---------------------------- MODULE SourcesProofs ----------------------------
(***************************************************************************)
(* Proofs about the sources: the file-system watcher, the docker watcher   *)
(* and the pull-request monitor, for any number of saves, messages, pull   *)
(* requests, drops and rows.                                               *)
(***************************************************************************)
EXTENDS FsDebounce, DockerWatch, PrMonitor, FiniteSetTheorems, TLAPS

-----------------------------------------------------------------------------
(* FsDebounce: every save is accounted for at all times, and a watch that  *)
(* has returned left none in a buffer.                                     *)

(* What each stage of the stop sequence has settled: the observer hands    *)
(* over no more, the flush thread takes no more, and the final flush has   *)
(* emptied the buffer.                                                     *)
StopInv ==
  /\ main # "run" => ~observing
  /\ main \in {"joining", "flush", "emit", "ended", "raised"} => stopEvt
  /\ main \in {"emit", "ended", "raised"} => pending = {}

Sound == TypeOK /\ SavesAreAccountedFor

(***************************************************************************)
(* Accounting, faults included.                                            *)
(***************************************************************************)
LEMMA SoundInit == Init => Sound
<1> SUFFICES ASSUME Init PROVE Sound
  OBVIOUS
<1>1. batch["flusher"] = {} /\ batch["main"] = {}
  BY DEF Init, Thread
<1>2. batch \in [Thread -> SUBSET added]
  BY DEF Init
<1>3. SavesAreAccountedFor
  BY <1>1 DEF Init, SavesAreAccountedFor
<1>4. notices \in 0..MaxNotices
  BY FsAssumption DEF Init
<1>5. observing \in BOOLEAN /\ stopEvt \in BOOLEAN /\ flusher = "wait" /\ main = "run"
  BY DEF Init
<1>6. added = {} /\ pending = {} /\ rows = {} /\ failed = {}
  BY DEF Init
<1>7. TypeOK
  BY <1>1, <1>2, <1>4, <1>5, <1>6 DEF TypeOK
<1> QED BY <1>3, <1>7 DEF Sound

LEMMA SoundAdd == ASSUME Sound, NEW x \in Save, Add(x) PROVE Sound'
  BY FsAssumption DEF Add, Sound, TypeOK, SavesAreAccountedFor, Thread

LEMMA SoundFlusher == ASSUME Sound, FlusherNext PROVE Sound'
<1>1. CASE FlusherTakes
  BY <1>1 DEF FlusherTakes, Take, Sound, TypeOK, SavesAreAccountedFor, Thread
<1>2. CASE FlusherEmits
  BY <1>2 DEF FlusherEmits, Emitted, Sound, TypeOK, SavesAreAccountedFor, Thread
<1>3. CASE FlusherDies
  BY <1>3 DEF FlusherDies, EmitRaises, Sound, TypeOK, SavesAreAccountedFor, Thread
<1>4. CASE FlusherExits
  BY <1>4 DEF FlusherExits, buffers, Sound, TypeOK, SavesAreAccountedFor
<1> QED BY <1>1, <1>2, <1>3, <1>4 DEF FlusherNext

LEMMA SoundMain == ASSUME Sound, StopObserver \/ MainNext PROVE Sound'
<1>1. CASE StopObserver
  BY <1>1 DEF StopObserver, buffers, Sound, TypeOK, SavesAreAccountedFor
<1>2. CASE StopDebouncer
  BY <1>2 DEF StopDebouncer, buffers, Sound, TypeOK, SavesAreAccountedFor
<1>3. CASE Joined
  BY <1>3 DEF Joined, buffers, Sound, TypeOK, SavesAreAccountedFor
<1>4. CASE MainTakes
  <2>1. CASE pending = {}
    BY <1>4, <2>1 DEF MainTakes, buffers, Sound, TypeOK, SavesAreAccountedFor
  <2>2. CASE pending # {}
    BY <1>4, <2>2 DEF MainTakes, Take, Sound, TypeOK, SavesAreAccountedFor, Thread
  <2> QED BY <2>1, <2>2
<1>5. CASE MainEmits
  BY <1>5 DEF MainEmits, Emitted, Sound, TypeOK, SavesAreAccountedFor, Thread
<1>6. CASE MainRaises
  BY <1>6 DEF MainRaises, EmitRaises, Sound, TypeOK, SavesAreAccountedFor, Thread
<1> QED BY <1>1, <1>2, <1>3, <1>4, <1>5, <1>6 DEF MainNext

LEMMA SoundStep == ASSUME Sound, [Next]_vars PROVE Sound'
<1>1. CASE UNCHANGED vars
  BY <1>1 DEF vars, buffers, Sound, TypeOK, SavesAreAccountedFor
<1> QED BY <1>1, SoundAdd, SoundFlusher, SoundMain DEF Next

(* Whatever the emits do, each save handed to the debouncer is in the      *)
(* buffer, in a batch, in the table or in a batch that raised.             *)
THEOREM SavesAccounted == Spec => []SavesAreAccountedFor
<1>1. Sound => SavesAreAccountedFor
  BY DEF Sound
<1> QED BY <1>1, SoundInit, SoundStep, PTL DEF Spec

(***************************************************************************)
(* The stop sequence.                                                      *)
(***************************************************************************)
LEMMA StopStep ==
  ASSUME Sound, StopInv, [Next]_vars PROVE StopInv'
<1>1. CASE UNCHANGED vars
  BY <1>1 DEF vars, buffers, StopInv
<1>2. ASSUME NEW x \in Save, Add(x) PROVE StopInv'
  BY <1>2 DEF Add, StopInv, Sound, TypeOK
<1>3. CASE FlusherNext
  BY <1>3 DEF FlusherNext, FlusherTakes, FlusherEmits, FlusherDies, FlusherExits,
    Take, Emitted, EmitRaises, buffers, StopInv
<1>4. CASE StopObserver \/ StopDebouncer \/ Joined
  BY <1>4 DEF StopObserver, StopDebouncer, Joined, buffers, StopInv
<1>5. CASE MainTakes \/ MainEmits \/ MainRaises
  BY <1>5 DEF MainTakes, MainEmits, MainRaises, Take, Emitted, EmitRaises, buffers, StopInv
<1> QED BY <1>1, <1>2, <1>3, <1>4, <1>5 DEF Next, MainNext

(* A watch that has returned has stored every save it was told of, but for *)
(* the batches whose emit raised or is still under way: observer, loop,    *)
(* join and final flush leave no gap between them.                         *)
THEOREM StopKeepsSaves == Spec => []SavesSurviveStop
<1>1. Init => StopInv
  BY DEF Init, StopInv
<1>2. Sound /\ StopInv /\ [Next]_vars => StopInv'
  BY StopStep
<1>3. Sound /\ StopInv => SavesSurviveStop
  BY DEF Sound, TypeOK, SavesAreAccountedFor, StopInv, SavesSurviveStop
<1>4. Sound /\ [Next]_vars => Sound'
  BY SoundStep
<1> QED BY <1>1, <1>2, <1>3, <1>4, SoundInit, PTL DEF Spec

-----------------------------------------------------------------------------
(* DockerWatch: no exit falls between two connections, for any length of   *)
(* the Engine's log and any number of drops.                               *)

Msg == [kind : Kind, sec : Nat \ {0}]

(* The Engine's clock does not go back, and the cursor is not ahead of it. *)
ClockInv ==
  /\ log \in Seq(Msg)
  /\ \A i, j \in 1 .. Len(log) : i <= j => log[i].sec <= log[j].sec
  /\ cursor \in Nat \cup {NoSince}
  /\ cursor <= LastSec

(* What the connection has still to serve is at or after the cursor, and   *)
(* so is the exit that is about to be stored.                              *)
StreamInv ==
  /\ pos \in 1 .. Len(log) + 1
  /\ pc \in {"read", "emit"} => \A i \in pos .. Len(log) : log[i].sec >= cursor
  /\ pc = "emit" => pos > 1 /\ log[pos - 1].sec >= cursor

CursorInv == from \in Nat /\ (from # 0 => cursor # NoSince)

DockerInv == ClockInv /\ StreamInv /\ CursorInv /\ WindowIsReplayed

(* The log's seconds.                                                      *)
LEMMA Seconds ==
  ASSUME ClockInv
  PROVE  /\ Len(log) \in Nat /\ DOMAIN log = 1 .. Len(log)
         /\ \A i \in 1 .. Len(log) : log[i].sec \in Nat \ {0}
<1>1. Len(log) \in Nat /\ DOMAIN log = 1 .. Len(log) /\ \A i \in 1 .. Len(log) : log[i] \in Msg
  BY DEF ClockInv
<1>2. \A m \in Msg : m.sec \in Nat \ {0}
  BY DEF Msg
<1> QED BY <1>1, <1>2

(* A request is served from the first message at or after its cursor.      *)
LEMMA ServedFromIs ==
  ASSUME ClockInv, cursor # NoSince
  PROVE  /\ ServedFrom(cursor) \in 1 .. Len(log) + 1
         /\ \A i \in 1 .. Len(log) : i >= ServedFrom(cursor) <=> log[i].sec >= cursor
<1> DEFINE Before == {i \in DOMAIN log : log[i].sec < cursor}
<1>1. Len(log) \in Nat /\ DOMAIN log = 1 .. Len(log) /\ cursor \in Nat
      /\ \A i \in 1 .. Len(log) : log[i].sec \in Nat
  BY Seconds DEF ClockInv, NoSince
<1>2. \A n \in Nat : IsFiniteSet(1 .. n) /\ Cardinality(1 .. n) = n
  <2> SUFFICES ASSUME NEW n \in Nat PROVE IsFiniteSet(1 .. n) /\ Cardinality(1 .. n) = n
    OBVIOUS
  <2>1. IsFiniteSet(1 .. n) /\ Cardinality(1 .. n) = IF 1 > n THEN 0 ELSE n - 1 + 1
    BY FS_Interval
  <2> QED BY <2>1
<1>3. IsFiniteSet(Before) /\ Cardinality(Before) \in Nat /\ Cardinality(Before) <= Len(log)
  <2>1. Before \subseteq 1 .. Len(log)
    BY <1>1
  <2>2. IsFiniteSet(Before) /\ Cardinality(Before) <= Cardinality(1 .. Len(log))
    BY <2>1, <1>1, <1>2, FS_Subset
  <2> QED BY <2>2, <1>1, <1>2, FS_CardinalityType
<1>4. ServedFrom(cursor) = Cardinality(Before) + 1
  BY DEF ServedFrom
<1>5. ASSUME NEW i \in 1 .. Len(log), log[i].sec >= cursor PROVE i >= Cardinality(Before) + 1
  <2>1. Before \subseteq 1 .. i - 1
    <3> SUFFICES ASSUME NEW k \in Before PROVE k \in 1 .. i - 1
      OBVIOUS
    <3>1. k \in 1 .. Len(log) /\ log[k].sec < cursor
      BY <1>1
    <3>2. ~(i <= k)
      BY <3>1, <1>1, <1>5 DEF ClockInv
    <3> QED BY <3>1, <3>2
  <2>2. Cardinality(Before) <= Cardinality(1 .. i - 1)
    BY <2>1, <1>2, FS_Subset
  <2> QED BY <2>2, <1>2, <1>3
<1>6. ASSUME NEW i \in 1 .. Len(log), log[i].sec < cursor PROVE i < Cardinality(Before) + 1
  <2>1. 1 .. i \subseteq Before
    <3> SUFFICES ASSUME NEW k \in 1 .. i PROVE k \in DOMAIN log /\ log[k].sec < cursor
      OBVIOUS
    <3>1. k \in 1 .. Len(log) /\ log[k].sec <= log[i].sec
      BY <1>1 DEF ClockInv
    <3> QED BY <3>1, <1>1, <1>6
  <2>2. Cardinality(1 .. i) <= Cardinality(Before)
    BY <2>1, <1>3, FS_Subset
  <2> QED BY <2>2, <1>2, <1>3
<1>7. ASSUME NEW i \in 1 .. Len(log) PROVE i >= ServedFrom(cursor) <=> log[i].sec >= cursor
  BY <1>1, <1>3, <1>4, <1>5, <1>6
<1>8. ServedFrom(cursor) \in 1 .. Len(log) + 1
  BY <1>1, <1>3, <1>4
<1> QED BY <1>7, <1>8

(* The Engine logs a message.                                              *)
LEMMA LogsKeeps ==
  ASSUME DockerInv, NEW kind \in Kind, NEW sec \in 1 .. MaxSec, EngineLogs(kind, sec)
  PROVE  DockerInv'
<1> DEFINE m == [kind |-> kind, sec |-> sec]
           n == Len(log)
<1>1. log \in Seq(Msg) /\ n \in Nat /\ \A i \in 1 .. n : log[i] \in Msg
  BY DEF DockerInv, ClockInv
<1>2. m \in Msg /\ log' = Append(log, m)
  BY DEF EngineLogs, Msg
<1>3. log' \in Seq(Msg) /\ Len(log') = n + 1
  BY <1>1, <1>2
<1>4. /\ \A i \in 1 .. n : log'[i] = log[i]
      /\ log'[n + 1].sec = sec /\ log'[n + 1].kind = kind
  BY <1>1, <1>2
<1>5. LastSec \in Nat /\ sec \in Nat /\ sec >= LastSec /\ \A i \in 1 .. n : log[i].sec \in Nat
  BY <1>1 DEF LastSec, EngineLogs, Msg
<1>6. \A i \in 1 .. n : log[i].sec <= LastSec
  <2>1. n # 0 => log # <<>>
    BY <1>1
  <2> QED BY <2>1, <1>1 DEF LastSec, DockerInv, ClockInv
<1>7. LastSec' = sec
  <2>1. log' # <<>>
    BY <1>1, <1>3
  <2> QED BY <2>1, <1>3, <1>4 DEF LastSec
<1>8. /\ cursor' = cursor /\ pos' = pos /\ pc' = pc /\ from' = from /\ stored' = stored
  BY DEF EngineLogs
<1> HIDE DEF m
<1>9. ClockInv'
  <2>1. cursor' <= LastSec'
    BY <1>5, <1>7, <1>8 DEF DockerInv, ClockInv, NoSince
  <2>2. ASSUME NEW i \in 1 .. n + 1, NEW j \in 1 .. n + 1, i <= j
        PROVE  log'[i].sec <= log'[j].sec
    <3>1. CASE j \in 1 .. n
      BY <3>1, <2>2, <1>1, <1>4 DEF DockerInv, ClockInv
    <3>2. CASE j = n + 1
      BY <3>2, <2>2, <1>1, <1>4, <1>5, <1>6
    <3> QED BY <3>1, <3>2, <1>1
  <2> QED BY <2>1, <2>2, <1>3, <1>8 DEF DockerInv, ClockInv
<1>10. cursor <= sec
  BY <1>5 DEF DockerInv, ClockInv, NoSince
<1>11. StreamInv'
  <2>1. pos' \in 1 .. Len(log') + 1
    BY <1>1, <1>3, <1>8 DEF DockerInv, StreamInv
  <2>2. ASSUME pc \in {"read", "emit"}, NEW i \in pos .. n + 1 PROVE log'[i].sec >= cursor
    BY <2>2, <1>1, <1>4, <1>10 DEF DockerInv, StreamInv
  <2>3. ASSUME pc = "emit" PROVE pos > 1 /\ log'[pos - 1].sec >= cursor
    BY <2>3, <1>1, <1>4 DEF DockerInv, StreamInv
  <2> QED BY <2>1, <2>2, <2>3, <1>3, <1>8 DEF StreamInv
<1>12. CursorInv'
  BY <1>8 DEF DockerInv, CursorInv
<1>13. ASSUME from # 0, NEW i \in from .. n + 1 PROVE Safe(i)'
  <2>0. cursor # NoSince /\ from \in Nat
    BY <1>13 DEF DockerInv, CursorInv
  <2>1. CASE i \in 1 .. n
    <3>1. Safe(i)
      BY <2>0, <2>1, <1>1, <1>13 DEF DockerInv, WindowIsReplayed
    <3> QED BY <3>1, <2>1, <1>4, <1>8 DEF Safe
  <2>2. CASE i = n + 1
    <3>1. pos <= n + 1 /\ log'[i].sec >= cursor
      BY <2>2, <1>1, <1>4, <1>10 DEF DockerInv, StreamInv
    <3> QED BY <3>1, <2>0, <2>2, <1>8 DEF Safe
  <2> QED BY <2>0, <2>1, <2>2, <1>1, <1>13
<1>14. WindowIsReplayed'
  BY <1>13, <1>3, <1>8 DEF WindowIsReplayed
<1> QED BY <1>9, <1>11, <1>12, <1>14 DEF DockerInv

(* Whatever keeps the log, the cursor and the rows keeps the window, as    *)
(* long as it does not take the stream up again or a message out of hand.  *)
LEMMA LeaveKeeps ==
  ASSUME DockerInv, UNCHANGED <<log, pos, cursor, stored, from>>,
         \/ pc' = pc
         \/ pc' = "raised"
         \/ pc # "raised" /\ pc' \notin {"read", "emit"}
  PROVE  DockerInv'
<1>1. ClockInv'
  BY DEF DockerInv, ClockInv, LastSec
<1>2. StreamInv'
  BY DEF DockerInv, StreamInv
<1>3. CursorInv'
  BY DEF DockerInv, CursorInv
<1>4. ASSUME from # 0, NEW i \in from .. Len(log) PROVE Safe(i)'
  <2>1. Safe(i) /\ cursor # NoSince /\ i \in 1 .. Len(log) /\ cursor \in Int
    BY <1>4 DEF DockerInv, WindowIsReplayed, CursorInv, ClockInv, NoSince
  <2>2. CASE pc' = pc \/ pc' = "raised"
    BY <2>1, <2>2 DEF Safe
  <2>3. CASE pc # "raised" /\ pc' \notin {"read", "emit"}
    <3>1. pc \in {"read", "emit"} /\ i >= pos => log[i].sec >= cursor
      BY <2>1 DEF DockerInv, StreamInv
    <3>2. pc = "emit" /\ i = pos - 1 => log[i].sec >= cursor
      BY <2>1 DEF DockerInv, StreamInv
    <3> QED BY <3>1, <3>2, <2>1, <2>3 DEF Safe
  <2> QED BY <2>2, <2>3
<1>5. WindowIsReplayed'
  BY <1>4 DEF WindowIsReplayed
<1> QED BY <1>1, <1>2, <1>3, <1>5 DEF DockerInv

(* The three steps that move the stream.                                   *)
LEMMA AnsweredKeeps == ASSUME DockerInv, Answered PROVE DockerInv'
<1>1. /\ UNCHANGED <<log, cursor, stored>> /\ pos' = ServedFrom(cursor) /\ pc' = "read" /\ pc = "request"
      /\ from' = IF from = 0 /\ cursor # NoSince THEN pos' ELSE from
  BY DEF Answered
<1>2. Len(log) \in Nat /\ \A i \in 1 .. Len(log) : log[i].sec \in Nat
  BY Seconds DEF DockerInv
<1>3. pos' \in 1 .. Len(log) + 1
  <2>1. CASE cursor = NoSince
    BY <2>1, <1>1, <1>2 DEF ServedFrom
  <2>2. CASE cursor # NoSince
    BY <2>2, <1>1, ServedFromIs DEF DockerInv
  <2> QED BY <2>1, <2>2
<1>4. \A i \in 1 .. Len(log) : cursor # NoSince => (i >= pos' <=> log[i].sec >= cursor)
  BY <1>1, ServedFromIs DEF DockerInv
<1>5. ClockInv'
  BY <1>1 DEF DockerInv, ClockInv, LastSec
<1>6. StreamInv'
  <2>1. ASSUME NEW i \in pos' .. Len(log) PROVE log[i].sec >= cursor
    BY <1>2, <1>3, <1>4 DEF NoSince
  <2> QED BY <2>1, <1>1, <1>3 DEF StreamInv
<1>7. CursorInv'
  BY <1>1, <1>3 DEF DockerInv, CursorInv
<1>8. ASSUME from' # 0, NEW i \in from' .. Len(log) PROVE Safe(i)'
  <2>1. CASE from = 0
    <3>1. i >= pos'
      BY <2>1, <1>1, <1>8
    <3> QED BY <3>1, <1>1 DEF Safe
  <2>2. CASE from # 0
    <3>1. from' = from /\ cursor # NoSince /\ from \in Nat
      BY <2>2, <1>1 DEF DockerInv, CursorInv
    <3>2. Safe(i) /\ i \in 1 .. Len(log)
      BY <2>2, <3>1 DEF DockerInv, WindowIsReplayed
    <3>3. log[i].sec >= cursor => i >= pos'
      BY <3>1, <3>2, <1>4
    <3> QED BY <3>2, <3>3, <1>1 DEF Safe
  <2> QED BY <2>1, <2>2
<1>9. WindowIsReplayed'
  BY <1>8, <1>1 DEF WindowIsReplayed
<1> QED BY <1>5, <1>6, <1>7, <1>9 DEF DockerInv

LEMMA ReadLineKeeps == ASSUME DockerInv, ReadLine PROVE DockerInv'
<1> DEFINE m == log[pos]
<1>1. /\ UNCHANGED <<log, stored>> /\ pos' = pos + 1 /\ pc = "read"
      /\ cursor' = IF m.kind = "garbled" THEN cursor ELSE m.sec - 1
      /\ from' = IF from = 0 /\ m.kind # "garbled" THEN pos ELSE from
      /\ pc' = IF m.kind = "exit" THEN "emit" ELSE "read"
  BY DEF ReadLine, AdvanceCursor
<1>2. Len(log) \in Nat /\ \A i \in 1 .. Len(log) : log[i].sec \in Nat \ {0}
  BY Seconds DEF DockerInv
<1>3. pos \in 1 .. Len(log) /\ m.sec \in Nat \ {0} /\ m.sec >= cursor
  BY <1>2 DEF ReadLine, DockerInv, StreamInv
<1>4. \A i \in pos .. Len(log) : m.sec <= log[i].sec
  BY <1>2, <1>3 DEF DockerInv, ClockInv
<1>5. cursor' \in Nat \cup {NoSince} /\ cursor' <= m.sec /\ (cursor # NoSince => cursor' # NoSince)
      /\ (m.kind # "garbled" => cursor' # NoSince)
  BY <1>1, <1>3 DEF DockerInv, ClockInv, NoSince
<1> HIDE DEF m
<1>6. ClockInv'
  <2>1. log # <<>> /\ LastSec = log[Len(log)].sec
    BY <1>2, <1>3 DEF LastSec
  <2>2. cursor' <= LastSec
    BY <2>1, <1>2, <1>3, <1>4, <1>5 DEF NoSince
  <2> QED BY <2>2, <1>1, <1>5 DEF DockerInv, ClockInv, LastSec
<1>7. StreamInv'
  <2>1. ASSUME NEW i \in pos + 1 .. Len(log) PROVE log[i].sec >= cursor'
    BY <1>2, <1>3, <1>4, <1>5 DEF NoSince
  <2>2. pos' - 1 = pos /\ pos' > 1 /\ pos' \in 1 .. Len(log) + 1
    BY <1>1, <1>2, <1>3
  <2>3. log[pos].sec >= cursor'
    BY <1>2, <1>3, <1>4, <1>5 DEF NoSince
  <2> QED BY <2>1, <2>2, <2>3, <1>1 DEF StreamInv
<1>8. CursorInv'
  BY <1>1, <1>3, <1>5 DEF DockerInv, CursorInv
<1>9. ASSUME from' # 0, NEW i \in from' .. Len(log) PROVE Safe(i)'
  <2>1. i \in 1 .. Len(log)
    BY <1>1, <1>2, <1>3, <1>9 DEF DockerInv, CursorInv
  <2>2. CASE i > pos
    BY <2>2, <2>1, <1>1, <1>3 DEF Safe
  <2>3. CASE i = pos
    BY <2>3, <1>1, <1>3 DEF Safe, m
  <2>4. CASE i < pos
    <3>1. from' = from
      BY <2>4, <1>1, <1>3, <1>9
    <3>2. Safe(i)
      BY <3>1, <1>9 DEF DockerInv, WindowIsReplayed
    <3> QED BY <3>2, <2>1, <2>4, <1>1, <1>3 DEF Safe
  <2> QED BY <2>1, <2>2, <2>3, <2>4, <1>3
<1>10. WindowIsReplayed'
  BY <1>9, <1>1 DEF WindowIsReplayed
<1> QED BY <1>6, <1>7, <1>8, <1>10 DEF DockerInv

LEMMA EmitCommitsKeeps == ASSUME DockerInv, EmitCommits PROVE DockerInv'
<1>1. /\ UNCHANGED <<log, pos, cursor, from>> /\ pc = "emit" /\ pc' = "read"
      /\ stored' = stored \cup {pos - 1}
  BY DEF EmitCommits
<1>2. ClockInv'
  BY <1>1 DEF DockerInv, ClockInv, LastSec
<1>3. StreamInv'
  BY <1>1 DEF DockerInv, StreamInv
<1>4. CursorInv'
  BY <1>1 DEF DockerInv, CursorInv
<1>5. ASSUME from # 0, NEW i \in from .. Len(log) PROVE Safe(i)'
  <2>1. Safe(i)
    BY <1>5 DEF DockerInv, WindowIsReplayed
  <2> QED BY <2>1, <1>1 DEF Safe
<1>6. WindowIsReplayed'
  BY <1>5, <1>1 DEF WindowIsReplayed
<1> QED BY <1>2, <1>3, <1>4, <1>6 DEF DockerInv

LEMMA DockerStep == ASSUME DockerInv, [DockerNext]_dockerVars PROVE DockerInv'
<1>1. CASE UNCHANGED dockerVars
  BY <1>1, LeaveKeeps DEF dockerVars
<1>2. CASE EngineDrops \/ StopSetsFlag \/ StopTakesConn \/ StopShutsDown
  BY <1>2, LeaveKeeps DEF EngineDrops, StopSetsFlag, StopTakesConn, StopShutsDown, stopVars
<1>3. CASE Connect \/ ConnectFails \/ Register \/ HandleDrop \/ BackoffEnds
  BY <1>3, LeaveKeeps DEF Connect, ConnectFails, Register, HandleDrop, BackoffEnds, stopVars
<1>4. CASE Refused \/ EmitFails \/ StreamEnds \/ StreamBreaks \/ Interrupt
  BY <1>4, LeaveKeeps DEF Refused, EmitFails, StreamEnds, StreamBreaks, Interrupt, CloseStream, Over
<1> QED BY <1>1, <1>2, <1>3, <1>4, LogsKeeps, AnsweredKeeps, ReadLineKeeps, EmitCommitsKeeps
        DEF DockerNext, WatchNext, StopperNext

(* From the first message its cursor knows of, no exit falls into the gap  *)
(* between two connections of the docker source, wherever the streams and  *)
(* the replays break, and however long the Engine's log is.                *)
THEOREM ExitsAreReplayed == DockerSpec => []WindowIsReplayed
<1>1. DockerInit => DockerInv
  BY DEF DockerInit, DockerInv, ClockInv, StreamInv, CursorInv, WindowIsReplayed, LastSec, NoSince
<1>2. DockerInv => WindowIsReplayed
  BY DEF DockerInv
<1> QED BY <1>1, <1>2, DockerStep, PTL DEF DockerSpec

-----------------------------------------------------------------------------
(* PrMonitor: any number of pull requests, commits, jobs and rows.         *)

Tables == [Shas \X Jobs -> Statuses \cup {None}]

(* What a pull request that the pass has come past owes to the pass.       *)
Reported(p) ==
  \E tbl \in during :
    /\ known[p] # None /\ lines[p] = Line(tbl, known[p])
    /\ ~Pending(tbl, known[p])

(* What was last printed for a pull request is its state; the pass has     *)
(* overlapped the present table; while the pass is still settled, those it *)
(* has come past are reported and were decided when it did.                *)
MonitorInv ==
  /\ state = [p \in Prs |-> state[p]] /\ lines = state
  /\ newest \in Tables /\ during \subseteq Tables
  /\ known \in Heads
  /\ at \in Nat \ {0}
  /\ monitor = "tick" => newest \in during
  /\ (monitor = "tick" /\ settled) => \A p \in Prs : p < at => Reported(p)

LEMMA Decided ==
  ASSUME NEW tbl \in Tables, NEW sha \in Shas, ~Pending(tbl, sha)
  PROVE  Terminal(tbl, sha)
<1> DEFINE all == Having(tbl, sha, Statuses)
           passed == Having(tbl, sha, {"success"})
           broken == Having(tbl, sha, {"failure"})
           sts == {tbl[<<sha, j>>] : j \in Jobs} \ {None}
<1>0. \A j \in Jobs : tbl[<<sha, j>>] \in Statuses \cup {None}
  BY DEF Tables
<1>1. all # {} /\ (broken # {} \/ passed = all)
  BY DEF Pending, Aggregate
<1>2. "failure" # None /\ "success" # None
  BY MonitorAssumption DEF Statuses
<1>3. CASE broken # {}
  <2>1. PICK j \in Jobs : tbl[<<sha, j>>] = "failure"
    BY <1>3 DEF Having
  <2> QED BY <2>1, <1>2 DEF Terminal
<1>4. CASE passed = all
  <2>1. PICK k \in Jobs : tbl[<<sha, k>>] = "success"
    BY <1>1, <1>4 DEF Having
  <2>2. \A j \in Jobs : tbl[<<sha, j>>] # None => tbl[<<sha, j>>] = "success"
    BY <1>0, <1>4 DEF Having
  <2>3. \A x : x \in sts <=> x \in {"success"}
    BY <2>1, <2>2, <1>2
  <2>4. sts = {"success"}
    BY <2>3
  <2> QED BY <2>4 DEF Terminal
<1> QED BY <1>1, <1>3, <1>4

LEMMA MonitorStarts == MonitorInit => MonitorInv
<1> SUFFICES ASSUME MonitorInit PROVE MonitorInv
  OBVIOUS
<1>1. state = [p \in Prs |-> state[p]] /\ lines = state
  BY DEF MonitorInit
<1>2. newest \in Tables /\ during \subseteq Tables
  BY DEF MonitorInit, Tables
<1>3. known \in Heads
  BY DEF MonitorInit, Heads
<1> QED BY <1>1, <1>2, <1>3 DEF MonitorInit, MonitorInv

(* A pass begins with nothing behind it.                                   *)
LEMMA PassBegins ==
  ASSUME MonitorInv, TickBegins, UNCHANGED table, known' \in Heads
  PROVE  MonitorInv'
<1>1. at' = 1 /\ during' = {newest} /\ UNCHANGED <<newest, state, lines>>
  BY DEF TickBegins, table
<1>2. \A p \in Prs : ~(p < at')
  BY <1>1 DEF Prs
<1> QED BY <1>1, <1>2 DEF MonitorInv

LEMMA LookKeeps ==
  ASSUME MonitorInv, Look
  PROVE  MonitorInv'
<1>1. /\ monitor = "tick" /\ at \in Prs /\ at' = at + 1
      /\ UNCHANGED <<newest, monitor, known, during>>
  BY DEF Look, table
<1>2. CASE Report(at)
  <2> DEFINE line == Line(newest, known[at])
  <2>1. /\ known[at] # None /\ state' = [state EXCEPT ![at] = line]
        /\ lines' = (IF state[at] # line THEN [lines EXCEPT ![at] = line] ELSE lines)
        /\ settled' => (settled /\ ~Pending(newest, known[at]))
    BY <1>2 DEF Report
  <2>2. lines' = state' /\ lines'[at] = line /\ \A p \in Prs \ {at} : lines'[p] = lines[p]
    BY <2>1, <1>1 DEF MonitorInv
  <2>3. state' = [p \in Prs |-> state'[p]]
    BY <2>1 DEF MonitorInv
  <2>4. ASSUME settled', NEW p \in Prs, p < at' PROVE Reported(p)'
    <3>1. CASE p = at
      BY <3>1, <2>1, <2>2, <2>4, <1>1 DEF Reported, MonitorInv
    <3>2. CASE p # at
      <4>1. p < at
        BY <3>2, <2>4, <1>1 DEF Prs
      <4>2. Reported(p)
        BY <4>1, <2>1, <2>4, <1>1 DEF MonitorInv
      <4> QED BY <4>2, <3>2, <2>2, <1>1 DEF Reported
    <3> QED BY <3>1, <3>2
  <2> QED BY <2>2, <2>3, <2>4, <1>1 DEF MonitorInv, Prs
<1>3. CASE PassOver(at)
  BY <1>1, <1>3 DEF PassOver, MonitorInv, Prs
<1> QED BY <1>2, <1>3 DEF Look

LEMMA StoreKeeps ==
  ASSUME MonitorInv, NEW sha \in Shas, NEW job \in Jobs, NEW status \in Statuses,
         Store(sha, job, status)
  PROVE  MonitorInv'
<1>1. /\ UNCHANGED <<known, monitor, at, settled, state, lines>>
      /\ newest' = [newest EXCEPT ![<<sha, job>>] = status]
      /\ during' = (IF monitor = "tick" THEN during \cup {newest'} ELSE during)
  BY DEF Store, pass
<1>2. newest' \in Tables
  BY <1>1 DEF MonitorInv, Tables
<1>3. during \subseteq during' /\ during' \subseteq Tables /\ (monitor = "tick" => newest' \in during')
  BY <1>1, <1>2 DEF MonitorInv
<1>4. \A p \in Prs : Reported(p) => Reported(p)'
  BY <1>1, <1>3 DEF Reported
<1> QED BY <1>1, <1>2, <1>3, <1>4 DEF MonitorInv

LEMMA MonitorStep == MonitorInv /\ [MonitorNext]_monitorVars => MonitorInv'
<1> SUFFICES ASSUME MonitorInv, [MonitorNext]_monitorVars PROVE MonitorInv'
  OBVIOUS
<1>1. CASE UNCHANGED monitorVars
  BY <1>1 DEF monitorVars, table, pass, MonitorInv, Reported
<1>2. CASE Start
  BY <1>2, PassBegins DEF Start
<1>3. CASE Wait
  <2>1. known' \in Heads
    BY <1>3 DEF Wait, MonitorInv
  <2> QED BY <1>3, <2>1, PassBegins DEF Wait
<1>4. CASE Look
  BY <1>4, LookKeeps
<1>5. CASE TickEnds
  <2>1. monitor' # "tick" /\ during' = {} /\ UNCHANGED <<newest, known, at, settled, state, lines>>
    BY <1>5 DEF TickEnds, table, pass
  <2> QED BY <2>1 DEF MonitorInv
<1>6. CASE CtrlC
  BY <1>6 DEF CtrlC, table, pass, MonitorInv
<1>7. ASSUME NEW sha \in Shas, NEW job \in Jobs, NEW status \in Statuses, Store(sha, job, status)
      PROVE  MonitorInv'
  BY <1>7, StoreKeeps
<1> QED BY <1>1, <1>2, <1>3, <1>4, <1>5, <1>6, <1>7 DEF MonitorNext

(* MONITOR_DONE comes only when every pull request was reported in this    *)
(* very pass, decided as a table of during the pass gave it: never for a   *)
(* head that was not looked up, never for a line of an earlier pass.       *)
THEOREM DoneMeansDecided == MonitorSpec => DoneIsDecided
<1>1. ASSUME MonitorInv, MonitorNext, monitor # "done", monitor' = "done", NEW p \in Prs
      PROVE  \E tbl \in during :
               /\ known[p] # None /\ lines[p] = Line(tbl, known[p])
               /\ Terminal(tbl, known[p])
  <2>1. TickEnds
    BY <1>1 DEF MonitorNext, Start, Look, CtrlC, Wait, Store
  <2>2. monitor = "tick" /\ settled /\ at \notin Prs
    BY <2>1, <1>1 DEF TickEnds
  <2>3. p < at
    BY <2>2, <1>1, MonitorAssumption DEF MonitorInv, Prs
  <2>4. Reported(p)
    BY <2>2, <2>3, <1>1 DEF MonitorInv
  <2>5. PICK tbl \in during : /\ known[p] # None /\ lines[p] = Line(tbl, known[p])
                               /\ ~Pending(tbl, known[p])
    BY <2>4 DEF Reported
  <2>6. tbl \in Tables /\ known[p] \in Shas
    BY <2>5, <1>1 DEF MonitorInv, Heads
  <2>7. Terminal(tbl, known[p])
    <3>1. PICK sha \in Shas : sha = known[p]
      BY <2>6
    <3> QED BY <3>1, <2>5, <2>6, Decided
  <2> QED BY <2>5, <2>7
<1>2. ASSUME MonitorInv, [MonitorNext]_monitorVars
      PROVE  [monitor # "done" /\ monitor' = "done" =>
               \A p \in Prs : \E tbl \in during :
                 /\ known[p] # None /\ lines[p] = Line(tbl, known[p])
                 /\ Terminal(tbl, known[p])]_monitorVars
  BY <1>1, <1>2
<1> QED BY <1>2, MonitorStarts, MonitorStep, PTL DEF MonitorSpec, DoneIsDecided
=============================================================================
