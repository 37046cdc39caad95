---------------------------- MODULE DockerWatch -----------------------------
(***************************************************************************)
(* The docker source (waitbus/sources/docker_watch.py): watch() streams    *)
(* the Engine's /events, stores one row per container exit, and reconnects *)
(* with a `since` cursor after a drop; a WatchStopper ends it from another *)
(* thread by shutting the registered connection down.                      *)
(*                                                                         *)
(* The Engine's events are a log of messages with a clock in seconds, in   *)
(* order.  A connection opened with since = s is served the messages at or *)
(* after second s, one opened without it what happens from then on.        *)
(***************************************************************************)
EXTENDS Integers, Sequences, FiniteSets

CONSTANTS
  FloatMaxExp,  \* 2.0 ** n overflows from this n on (1024 for a double)
  MaxEvents,    \* bound: messages of the Engine
  MaxSec        \* bound: seconds its clock advances

VARIABLES
  log,         \* the Engine's messages: [kind, sec]
  until,       \* the caller gave an `until`
  pc,          \* where the loop of watch() stands
  conn,        \* the connection: "none", "up", "cut", "eof", "shut" (by the stopper)
  pos,         \* the next message the connection is served
  cursor,      \* cursor; NoSince when there is none
  attempt,     \* reconnect_attempt
  stored,        \* messages stored as rows
  from,        \* the first message whose second the cursor knows (history)
  flag,        \* WatchStopper._event
  registered,  \* WatchStopper._conn is set
  stopper      \* the thread in stop(): "idle", "flagged", "holding", "done"

stopVars == <<flag, registered, stopper>>
dockerVars == <<log, until, pc, conn, pos, cursor, attempt, stored, from, stopVars>>

NoSince == -1
Kind == {"exit", "other", "garbled"}  \* garbled: no JSON, or no usable clock
Over == {"ended", "raised"}

LastSec == IF log = <<>> THEN 1 ELSE log[Len(log)].sec

(* The first message a request with this cursor is served.                 *)
ServedFrom(since) ==
  IF since = NoSince THEN Len(log) + 1
  ELSE Cardinality({i \in DOMAIN log : log[i].sec < since}) + 1

-----------------------------------------------------------------------------
(* The Engine.                                                             *)

EngineLogs(kind, sec) ==
  /\ Len(log) < MaxEvents
  /\ sec \in LastSec..MaxSec
  /\ log' = Append(log, [kind |-> kind, sec |-> sec])
  /\ UNCHANGED <<until, pc, conn, pos, cursor, attempt, stored, from, stopVars>>

(* The stream ends in the middle of a chunk, or cleanly.                   *)
EngineDrops ==
  /\ conn = "up" /\ pc \in {"request", "read", "emit"}
  /\ \/ conn' = "cut"
     \/ conn' = "eof" /\ pc # "request"
  /\ UNCHANGED <<log, until, pc, pos, cursor, attempt, stored, from, stopVars>>

-----------------------------------------------------------------------------
(* watch() and _iter_event_lines.                                          *)

(* The generator's finally: _clear, conn.close.                            *)
CloseStream(next) ==
  /\ conn' = "none" /\ registered' = FALSE
  /\ pc' = next

Connect ==
  /\ pc = "check"
  /\ IF flag THEN pc' = "ended" /\ UNCHANGED conn
             ELSE pc' = "connected" /\ conn' = "up"
  /\ UNCHANGED <<log, until, pos, cursor, attempt, stored, from, stopVars>>

(* DockerSocketError: raised, never retried.                               *)
ConnectFails ==
  /\ pc = "check" /\ ~flag
  /\ pc' = "raised"
  /\ UNCHANGED <<log, until, conn, pos, cursor, attempt, stored, from, stopVars>>

(* Mutant: a stop that ran before the registration is not looked for.      *)
RegisterBlindly ==
  /\ pc = "connected"
  /\ registered' = TRUE
  /\ pc' = "request"
  /\ UNCHANGED <<log, until, conn, pos, cursor, attempt, stored, from, flag, stopper>>

(* WatchStopper._register.                                                 *)
Register ==
  /\ pc = "connected"
  /\ registered' = TRUE
  /\ conn' = IF flag THEN "shut" ELSE conn
  /\ pc' = "request"
  /\ UNCHANGED <<log, until, pos, cursor, attempt, stored, from, flag, stopper>>

(* The request is answered with a stream.                                  *)
Answered ==
  /\ pc = "request" /\ conn = "up"
  /\ pos' = ServedFrom(cursor)
  /\ from' = IF from = 0 /\ cursor # NoSince THEN pos' ELSE from
  /\ pc' = "read"
  /\ UNCHANGED <<log, until, conn, cursor, attempt, stored, stopVars>>

(* The request is answered with a status other than 200.                   *)
Refused ==
  /\ pc = "request" /\ conn = "up"
  /\ CloseStream("raised")
  /\ UNCHANGED <<log, until, pos, cursor, attempt, stored, from, flag, stopper>>

(* Mutant: the cursor resumes after the second it has seen.                *)
AdvanceCursorPast(msg) == IF msg.kind = "garbled" THEN cursor ELSE msg.sec + 1

AdvanceCursor(msg) == IF msg.kind = "garbled" THEN cursor ELSE msg.sec - 1

(* One line; what was in the socket buffer before a stop is still read.    *)
ReadLine ==
  /\ pc = "read" /\ conn \in {"up", "shut"} /\ pos <= Len(log)
  /\ attempt' = 0
  /\ cursor' = AdvanceCursor(log[pos])
  /\ from' = IF from = 0 /\ log[pos].kind # "garbled" THEN pos ELSE from
  /\ pos' = pos + 1
  /\ pc' = IF log[pos].kind = "exit" THEN "emit" ELSE "read"
  /\ UNCHANGED <<log, until, conn, stored, stopVars>>

(* emit commits; a repeated delivery_id is ignored.                        *)
EmitCommits ==
  /\ pc = "emit"
  /\ stored' = stored \cup {pos - 1}
  /\ pc' = "read"
  /\ UNCHANGED <<log, until, conn, pos, cursor, attempt, from, stopVars>>

(* A database error ends the watch.                                        *)
EmitFails ==
  /\ pc = "emit"
  /\ CloseStream("raised")
  /\ UNCHANGED <<log, until, pos, cursor, attempt, stored, from, flag, stopper>>

(* A clean end of the stream: with `until` the watch is over, without it   *)
(* the loop connects again at once.                                        *)
StreamEnds ==
  /\ pc = "read" /\ conn \in {"eof", "shut"}
  /\ CloseStream(IF until THEN "ended" ELSE "check")
  /\ UNCHANGED <<log, until, pos, cursor, attempt, stored, from, flag, stopper>>

(* OSError or HTTPException.                                               *)
StreamBreaks ==
  /\ pc \in {"request", "read"} /\ conn \in {"cut", "shut"}
  /\ CloseStream("dropped")
  /\ UNCHANGED <<log, until, pos, cursor, attempt, stored, from, flag, stopper>>

(* The handler and _reconnect_backoff: the power is computed before the    *)
(* cap is applied to it.                                                   *)
HandleDrop ==
  /\ pc = "dropped"
  /\ IF flag \/ until THEN pc' = "ended" /\ UNCHANGED attempt
     ELSE /\ attempt' = attempt + 1
          /\ pc' = IF attempt < FloatMaxExp THEN "backoff" ELSE "raised"
  /\ UNCHANGED <<log, until, conn, pos, cursor, stored, from, stopVars>>

(* The delay is over, or the stop flag cuts it short.                      *)
BackoffEnds ==
  /\ pc = "backoff"
  /\ pc' = "check"
  /\ UNCHANGED <<log, until, conn, pos, cursor, attempt, stored, from, stopVars>>

Interrupt ==
  /\ pc \notin Over
  /\ CloseStream("ended")
  /\ UNCHANGED <<log, until, pos, cursor, attempt, stored, from, flag, stopper>>

-----------------------------------------------------------------------------
(* WatchStopper.stop.                                                      *)

StopSetsFlag ==
  /\ stopper = "idle"
  /\ flag' = TRUE
  /\ stopper' = "flagged"
  /\ UNCHANGED <<log, until, pc, conn, pos, cursor, attempt, stored, from, registered>>

StopTakesConn ==
  /\ stopper = "flagged"
  /\ stopper' = IF registered THEN "holding" ELSE "done"
  /\ registered' = FALSE
  /\ UNCHANGED <<log, until, pc, conn, pos, cursor, attempt, stored, from, flag>>

(* The shutdown of a connection that is closed by now is a no-op.          *)
StopShutsDown ==
  /\ stopper = "holding"
  /\ conn' = IF conn = "up" THEN "shut" ELSE conn
  /\ stopper' = "done"
  /\ UNCHANGED <<log, until, pc, pos, cursor, attempt, stored, from, flag, registered>>

DockerInit ==
  /\ log = <<>> /\ until \in BOOLEAN /\ pc = "check" /\ conn = "none" /\ pos = 1
  /\ cursor \in {NoSince, 1} /\ attempt = 0 /\ stored = {} /\ from = 0
  /\ flag = FALSE /\ registered = FALSE /\ stopper = "idle"

StopperNext == StopTakesConn \/ StopShutsDown

(* Steps that wait for nobody.                                             *)
WatchNext ==
  \/ Connect \/ Register \/ ReadLine \/ EmitCommits \/ EmitFails
  \/ StreamEnds \/ StreamBreaks \/ HandleDrop \/ BackoffEnds

DockerNext ==
  \/ \E kind \in Kind, sec \in 1..MaxSec : EngineLogs(kind, sec)
  \/ EngineDrops
  \/ ConnectFails \/ Answered \/ Refused \/ Interrupt
  \/ WatchNext
  \/ StopSetsFlag \/ StopperNext

DockerSpec == DockerInit /\ [][DockerNext]_dockerVars

(* Both threads go on; the Engine need never answer, send or drop.         *)
DockerLiveSpec == DockerSpec /\ WF_dockerVars(WatchNext) /\ WF_dockerVars(StopperNext)

-----------------------------------------------------------------------------
(* Properties.                                                             *)

(* Every variable has its type, and what the stopper could shut down is a  *)
(* connection that is open.                                                *)
DockerTypeOK ==
  /\ log \in Seq([kind : Kind, sec : 1..MaxSec]) /\ until \in BOOLEAN
  /\ pc \in {"check", "connected", "request", "read", "emit", "dropped", "backoff"} \cup Over
  /\ conn \in {"none", "up", "cut", "eof", "shut"}
  /\ pos \in 1..Len(log) + 1 /\ cursor \in Int
  /\ attempt \in 0..FloatMaxExp + 1
  /\ stored \subseteq DOMAIN log
  /\ from \in 0..Len(log) + 1
  /\ flag \in BOOLEAN /\ registered \in BOOLEAN
  /\ stopper \in {"idle", "flagged", "holding", "done"}
  /\ registered => conn # "none" /\ pc \in {"request", "read", "emit"}

(* A message is safe if it is no exit, is stored, is being stored, is due  *)
(* on this connection, or would be served to the next one.                 *)
Safe(i) ==
  \/ log[i].kind # "exit"
  \/ i \in stored
  \/ pc = "emit" /\ i = pos - 1
  \/ pc = "raised"
  \/ IF pc \in {"read", "emit"} THEN i >= pos
                                ELSE cursor # NoSince /\ log[i].sec >= cursor

(* From the first message the cursor knows of, no exit falls into the gap  *)
(* between two connections, wherever the stream broke and however often    *)
(* the replay itself was cut (a replayed message moves the cursor back).   *)
WindowIsReplayed == from # 0 => \A i \in from..Len(log) : Safe(i)

(* "a wedged socket is retried at a steady operator-visible cadence": a    *)
(* drop does not end a watch nobody stopped.                               *)
RetriesGoOn == [][pc = "dropped" /\ ~flag => pc' # "raised"]_dockerVars

(* stop() ends the watch wherever it lands: between the flag check and the *)
(* registration, in a blocked read, in the backoff (_register: "instead of *)
(* blocking forever on a read nobody will ever wake").                     *)
StopEnds == flag ~> (pc \in Over)
=============================================================================
