------------------------------ MODULE OnCommand ------------------------------
(***************************************************************************)
(* `waitbus on` (waitbus/on.py): a supervisor that runs a command when a   *)
(* frame matches, once, on every match, or terminating the command of the  *)
(* match before.  The wait for a match is module Waiting.                  *)
(*                                                                         *)
(* A command is a process group of a leader and a helper the leader has    *)
(* started; both may ignore SIGTERM, and end when they like.  A signal     *)
(* handler of the supervisor raises between any two of its statements.     *)
(***************************************************************************)
EXTENDS Integers, FiniteSets

CONSTANTS
  MaxCommands,  \* bound: commands spawned
  MaxSignals    \* bound: signals sent to the supervisor

VARIABLES
  mode,     \* "once", "loop", "restart"
  pc,       \* where the supervisor is
  then,     \* what follows a termination: "spawn", or the exit code
  spawned,  \* commands spawned
  running,  \* the command _run_loop_restart knows of; 0 for none
  alive,    \* living processes: <<command, role>>
  files,    \* event files that exist, numbered as the commands
  signals,  \* signals sent
  struck,   \* where in a spawn the supervisor was raised out of it (history)
  cut,      \* a signal has left the last termination early (history)
  exit      \* "" before the end

children == <<spawned, alive, files>>
onHistory == <<struck, cut>>
onVars == <<mode, pc, then, running, children, signals, onHistory, exit>>

Group(k) == {k} \X {"leader", "helper"}

Exit(code) == pc' = "done" /\ exit' = code

(* The finally of _run_loop_restart, then _supervise.                      *)
Unwind(code) ==
  IF running = 0 THEN Exit(code) /\ UNCHANGED then
  ELSE pc' = "term" /\ then' = code /\ UNCHANGED exit

-----------------------------------------------------------------------------
(* Waiting for a match.                                                    *)

(* _open_acked_subscriber.                                                 *)
Acked ==
  /\ pc = "ack"
  /\ \/ pc' = "wait" /\ UNCHANGED exit
     \/ Exit("2")
  /\ UNCHANGED <<mode, then, running, children, signals, onHistory>>

(* _next_match_or_exit, _run_once: a frame matched.                        *)
Matched ==
  /\ pc = "wait" /\ spawned < MaxCommands
  /\ IF running = 0 THEN pc' = "write" /\ UNCHANGED then
     ELSE pc' = "term" /\ then' = "spawn"
  /\ UNCHANGED <<mode, running, children, signals, onHistory, exit>>

(* _outcome_exit; "1" is the traceback of a subscribe_rejected frame.      *)
WaitEnds ==
  /\ pc = "wait"
  /\ \E code \in {"124", "2", "1"} : Unwind(code)
  /\ UNCHANGED <<mode, running, children, signals, onHistory>>

-----------------------------------------------------------------------------
(* The event file, then the command (_run_blocking, _RunningChild.spawn).  *)

(* A raise out of _write_event_file leaves a file behind, or none.         *)
MaybeWritten == {files, files \cup {spawned + 1}}

WriteFile ==
  /\ pc = "write"
  /\ files' = files \cup {spawned + 1}
  /\ pc' = "popen"
  /\ UNCHANGED <<mode, then, running, spawned, alive, signals, onHistory, exit>>

(* No space, no directory: an OSError that nothing maps, exit 1.           *)
WriteFails ==
  /\ pc = "write"
  /\ files' \in MaybeWritten /\ struck' = "write"
  /\ Unwind("1")
  /\ UNCHANGED <<mode, running, spawned, alive, signals, cut>>

SpawnFails ==
  /\ pc = "popen"
  /\ files' = files \ {spawned + 1}
  /\ Unwind("127")
  /\ UNCHANGED <<mode, running, spawned, alive, signals, onHistory>>

Popen ==
  /\ pc = "popen"
  /\ spawned' = spawned + 1 /\ alive' = alive \cup Group(spawned')
  /\ pc' = IF mode = "restart" THEN "bind" ELSE "blocked"
  /\ UNCHANGED <<mode, then, running, files, signals, onHistory, exit>>

BlockingReturns ==
  /\ pc = "blocked" /\ <<spawned, "leader">> \notin alive
  /\ files' = files \ {spawned}
  /\ IF mode = "once" THEN Exit("child") ELSE pc' = "wait" /\ UNCHANGED exit
  /\ UNCHANGED <<mode, then, running, spawned, alive, signals, onHistory>>

-----------------------------------------------------------------------------
(* restart: `running`, terminate_and_cleanup.                              *)

Bind ==
  /\ pc = "bind"
  /\ running' = spawned
  /\ pc' = "wait"
  /\ UNCHANGED <<mode, then, children, signals, onHistory, exit>>

(* A leader that still runs gets SIGTERM, with its group.                  *)
SendTerm ==
  /\ pc = "term"
  /\ IF <<running, "leader">> \in alive
     THEN (\E deaf \in SUBSET Group(running) : alive' = alive \ (Group(running) \ deaf)) /\ pc' = "grace"
     ELSE pc' = "kill" /\ UNCHANGED alive
  /\ UNCHANGED <<mode, then, running, spawned, files, signals, onHistory, exit>>

(* The leader exits, or the grace period does.                             *)
GraceEnds ==
  /\ pc = "grace"
  /\ pc' = "kill"
  /\ UNCHANGED <<mode, then, running, children, signals, onHistory, exit>>

(* Mutant: SIGKILL only if the leader outlived the grace period.           *)
KillIfAlive ==
  /\ pc = "kill"
  /\ alive' = IF <<running, "leader">> \in alive THEN alive \ Group(running) ELSE alive
  /\ pc' = "unlink"
  /\ UNCHANGED <<mode, then, running, spawned, files, signals, onHistory, exit>>

Kill ==
  /\ pc = "kill"
  /\ alive' = alive \ Group(running)
  /\ pc' = "unlink"
  /\ UNCHANGED <<mode, then, running, spawned, files, signals, onHistory, exit>>

Unlink ==
  /\ pc = "unlink"
  /\ files' = files \ {running}
  /\ IF then = "spawn" THEN pc' = "write" /\ UNCHANGED exit ELSE Exit(then)
  /\ UNCHANGED <<mode, then, running, spawned, alive, signals, onHistory>>

-----------------------------------------------------------------------------
(* Signals.                                                                *)

Code(sig) == [INT |-> "130", TERM |-> "143", HUP |-> "129"][sig]

(* once and loop: Ctrl-C kills the command that subprocess.run waits for,  *)
(* and _event_file unlinks; the other signals have their default action.   *)
SignalBlocking(sig) ==
  /\ mode # "restart"
  /\ Exit(Code(sig))
  /\ IF sig = "INT" /\ pc \in {"popen", "blocked"}
     THEN alive' = alive \ {<<spawned, "leader">>} /\ files' = {}
     ELSE files' \in (IF pc = "write" THEN MaybeWritten ELSE {files}) /\ UNCHANGED alive
  /\ UNCHANGED <<mode, then, running, spawned, onHistory>>

(* restart, outside a termination.  In a spawn only an OSError of Popen    *)
(* unlinks the file; at "bind" the command is spawned as well, and         *)
(* `running` is not yet assigned.                                          *)
SignalRestart(sig) ==
  /\ mode = "restart" /\ pc \in {"wait", "write", "popen", "bind"}
  /\ files' \in IF pc = "write" THEN MaybeWritten ELSE {files}
  /\ struck' = IF pc = "wait" THEN struck ELSE pc
  /\ Unwind(Code(sig))
  /\ UNCHANGED <<mode, running, spawned, alive, cut>>

(* restart, inside terminate_and_cleanup: its wait swallows Ctrl-C and     *)
(* goes on to SIGKILL; any other raise leaves it there, past its finally,  *)
(* or out of it.  What it unwinds to is the finally of the loop, or, out   *)
(* of that one itself, the exit.                                           *)
SignalTerminating(sig) ==
  /\ mode = "restart" /\ pc \in {"term", "grace", "kill", "unlink"}
  /\ IF sig = "INT" /\ pc = "grace"
     THEN pc' = "kill" /\ UNCHANGED <<then, files, cut, exit>>
     ELSE /\ cut' = (then # "spawn")
          /\ files' \in {files \ {running}} \cup (IF pc = "unlink" THEN {files} ELSE {})
          /\ IF then = "spawn" THEN Unwind(Code(sig)) ELSE Exit(Code(sig)) /\ UNCHANGED then
  /\ UNCHANGED <<mode, running, spawned, alive, struck>>

Signal(sig) ==
  /\ signals < MaxSignals /\ pc \notin {"ack", "done"}
  /\ signals' = signals + 1
  /\ SignalBlocking(sig) \/ SignalRestart(sig) \/ SignalTerminating(sig)

(* A process of a command ends by itself.                                  *)
ProcessEnds(p) ==
  /\ p \in alive /\ pc # "done"
  /\ alive' = alive \ {p}
  /\ UNCHANGED <<mode, pc, then, running, spawned, files, signals, onHistory, exit>>

-----------------------------------------------------------------------------

OnInit ==
  /\ mode \in {"once", "loop", "restart"} /\ pc = "ack" /\ then = ""
  /\ spawned = 0 /\ running = 0 /\ alive = {} /\ files = {}
  /\ signals = 0 /\ struck = "no" /\ cut = FALSE /\ exit = ""

OnNext ==
  \/ Acked \/ Matched \/ WaitEnds
  \/ WriteFile \/ WriteFails \/ SpawnFails \/ Popen
  \/ BlockingReturns \/ Bind
  \/ SendTerm \/ GraceEnds \/ Kill \/ Unlink
  \/ \E sig \in {"INT", "TERM", "HUP"} : Signal(sig)
  \/ \E p \in (1..MaxCommands) \X {"leader", "helper"} : ProcessEnds(p)

OnSpec == OnInit /\ [][OnNext]_onVars

-----------------------------------------------------------------------------
(* Properties.                                                             *)

(* `--restart` runs one command at a time: when a command is spawned, no   *)
(* process and no event file of an earlier one is left, whatever ignored   *)
(* SIGTERM and whichever leader left its helper behind.  When `on` has     *)
(* exited, what is left of the last one tells how it was lost: a command   *)
(* only by a signal between its Popen and `running`; its event file also   *)
(* by a signal, or a failing write, between the match and Popen; and both  *)
(* by one that strikes the last termination itself (a second Ctrl-C in the *)
(* grace period does not).                                                 *)
OneCommandAtATime ==
  mode = "restart" =>
    /\ \A k \in 1..spawned - 1 : Group(k) \cap alive = {} /\ k \notin files
    /\ (pc = "done" /\ ~cut /\ alive # {}) => struck = "bind"
    /\ (pc = "done" /\ ~cut /\ files # {}) => struck \in {"write", "popen", "bind"}

(* on.py:508: signals "are forwarded into teardown so the child is never   *)
(* orphaned".                                                              *)
(* The code does not keep it (README, "Where the code disagrees").         *)
NeverOrphaned == mode = "restart" /\ pc = "done" => alive = {}
=============================================================================
