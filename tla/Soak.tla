-------------------------------- MODULE Soak --------------------------------
(***************************************************************************)
(* The soak run (scripts/soak, scripts/soak_monitor.py): a smoke pre-phase *)
(* against a throwaway daemon; then one loop that emits, samples, probes   *)
(* faults and suspends a daemon while a thread subscribes; then a verdict. *)
(*                                                                         *)
(* Each daemon is in a session of its own and holds the read end of a pipe *)
(* whose write end is the harness's (benchmarks/_harness.py): when the     *)
(* harness is gone, however it went, the kernel closes the pipe.           *)
(***************************************************************************)
EXTENDS Integers, Sequences, FiniteSets

CONSTANTS MaxEmits, MaxCycles  \* bounds: events emitted, suspend cycles

VARIABLES
  step,        \* "start", "smoke", "spawn", "try", "socket", "run", "pre",
               \* "stopped", "post", "finally", "wait", "judge", "end"
  smoke,       \* the pre-phase's daemon is the one at work
  process,     \* the daemon: "off", "boot", "up", "stopped", "ending", "dead"
  subscriber,  \* the thread: "off", "reads", "ended"
  emitted, received,  \* events emitted, and those of them the thread has read
  cycles,      \* suspend cycles still to come
  probes,      \* fault probes still to come
  outcomes,    \* axis -> what its probe saw
  suspended,   \* the verdicts of the suspend cycles
  baseline,    \* frames seen before the present cycle
  partial,     \* the daemon was found gone
  unread,      \* an event was emitted after a SIGCONT and nobody reads (history)
  status,      \* the exit code, -1 before there is one
  cutOff       \* what kept the harness from its teardown (history): "no", "killed",
               \* "early", "late" or, after a first interrupt or error, "again"

soakVars == <<step, smoke, process, subscriber, emitted, received, cycles, probes, outcomes,
              suspended, baseline, partial, unread, status, cutOff>>
fate == <<smoke, partial, status, cutOff>>
counts == <<emitted, received, unread>>
loop == <<cycles, probes, outcomes, suspended, baseline>>

Axes == <<"version_reject", "token_reject", "replay_lag_eviction">>
SmokeAxes == {Axes[i] : i \in 1 .. 3} \cup {"heartbeat_lag"}
Evictions == {"replay_lag_eviction", "heartbeat_lag"}

(* What a probe can see: a daemon without a token has nothing to reject,   *)
(* and one may be too quick or too slow to be lagged.                      *)
ProbeSees(axis) ==
  IF axis = "version_reject" THEN {"observed", "missed"} ELSE {"observed", "missed", "skipped"}

(* fault_injection_coverage_threshold.                                     *)
Covered(seenBy, expected) ==
  expected \subseteq DOMAIN seenBy /\ \A a \in expected : seenBy[a] # "missed"

(* fault_injection_close_reason_consistency_threshold: an eviction seen on *)
(* the wire is in the daemon's log.                                        *)
Consistent(seenBy, tally) == \A a \in Evictions : seenBy[a] = "observed" => a \in tally

-----------------------------------------------------------------------------
(* The daemons.                                                            *)

Alive == process \in {"boot", "up", "stopped", "ending"}

(* spawn_waitbus_daemon.                                                   *)
SpawnDaemon ==
  /\ process' = "boot"
  /\ \/ /\ step = "start" /\ step' = "smoke" /\ smoke' = TRUE
     \/ /\ step = "spawn" /\ step' = "try" /\ smoke' = FALSE
  /\ UNCHANGED <<subscriber, counts, loop, partial, status, cutOff>>

DaemonBinds ==
  /\ process = "boot" /\ process' = "up"
  /\ UNCHANGED <<step, subscriber, counts, loop, fate>>

DaemonDies ==
  /\ Alive
  /\ process' = IF process = "ending" THEN "off" ELSE "dead"
  /\ subscriber' = IF subscriber = "reads" THEN "ended" ELSE subscriber
  /\ UNCHANGED <<step, counts, loop, fate>>

(* The daemon's end of the pipe is at EOF: Broadcast.run stops.            *)
DaemonReadsEof ==
  /\ step = "end" /\ process = "up" /\ process' = "ending"
  /\ UNCHANGED <<step, subscriber, counts, loop, fate>>

-----------------------------------------------------------------------------
(* The smoke gate.                                                         *)

SkipSmoke ==
  /\ step = "start" /\ step' = "spawn"
  /\ UNCHANGED <<process, subscriber, counts, loop, fate>>

(* run_drain_path_smoke: the probes, and the daemon's log when it is gone. *)
SmokeProbes ==
  /\ step = "smoke" /\ process # "boot" /\ step' = "finally"
  /\ \E seenBy \in [SmokeAxes -> {"observed", "missed", "skipped"}], tally \in SUBSET Evictions :
       /\ \A a \in SmokeAxes : seenBy[a] \in IF process = "up" THEN ProbeSees(a) ELSE {"missed"}
       /\ status' = IF Covered(seenBy, SmokeAxes) /\ Consistent(seenBy, tally) THEN -1 ELSE 1
  /\ UNCHANGED <<process, subscriber, counts, loop, smoke, partial, cutOff>>

-----------------------------------------------------------------------------
(* The measured run's way into its loop.                                   *)

(* open() of the progress log, between the spawn and the try.              *)
OpenProgress ==
  /\ step = "try" /\ step' = "socket"
  /\ UNCHANGED <<process, subscriber, counts, loop, fate>>

OpenFails ==
  /\ step = "try" /\ step' = "end" /\ status' = 1 /\ cutOff' = "early"
  /\ UNCHANGED <<process, subscriber, counts, loop, smoke, partial>>

(* wait_for_socket, and the thread's wait_started.                         *)
StartSubscriber ==
  /\ step = "socket" /\ process = "up"
  /\ subscriber' = "reads" /\ step' = "run"
  /\ UNCHANGED <<process, counts, loop, fate>>

(* The socket or the thread does not come, an emit or a probe fails or the *)
(* operator interrupts: no verdict.                                        *)
Raises ==
  /\ step \in {"smoke", "socket", "run", "pre", "stopped", "post"}
  /\ step' = "finally" /\ status' = 1
  /\ UNCHANGED <<process, subscriber, counts, loop, smoke, partial, cutOff>>

(* An interrupt in the finally clause cuts it short.                       *)
Interrupted ==
  /\ step \in {"finally", "wait"}
  /\ step' = "end" /\ status' = 1 /\ cutOff' = IF status = -1 THEN "late" ELSE "again"
  /\ UNCHANGED <<process, subscriber, counts, loop, smoke, partial>>

(* SIGKILL: no clause runs.                                                *)
Killed ==
  /\ step # "end" /\ step' = "end" /\ status' = 1 /\ cutOff' = "killed"
  /\ UNCHANGED <<process, subscriber, counts, loop, smoke, partial>>

(* _SubscriberThread: a frame; or the daemon evicts it, or a read fails.   *)
Receive ==
  /\ subscriber = "reads" /\ process = "up" /\ received < emitted
  /\ received' = received + 1
  /\ UNCHANGED <<step, process, subscriber, emitted, unread, loop, fate>>

ThreadEnds ==
  /\ subscriber = "reads" /\ process = "up"
  /\ subscriber' = "ended"
  /\ UNCHANGED <<step, process, counts, loop, fate>>

-----------------------------------------------------------------------------
(* The loop.                                                               *)

(* _advance_emit: of the corpus or synthetic; the store needs no daemon.   *)
AdvanceEmit ==
  /\ step = "run" /\ emitted < MaxEmits
  /\ emitted' = emitted + 1
  /\ unread' = (unread \/ (subscriber = "ended" /\ suspended # {}))
  /\ UNCHANGED <<step, process, subscriber, received, loop, fate>>

Gone == partial' = TRUE /\ step' = "finally"

(* _collect_sample_or_partial, in the loop.                                *)
SampleFails ==
  /\ step = "run" /\ process = "dead"
  /\ Gone
  /\ UNCHANGED <<process, subscriber, counts, loop, smoke, status, cutOff>>

(* _maybe_dispatch_fault_injection.                                        *)
DispatchProbe ==
  /\ step = "run" /\ probes # <<>>
  /\ probes' = Tail(probes)
  /\ \E o \in IF process = "up" THEN ProbeSees(Head(probes)) ELSE {"missed"} :
       outcomes' = [a \in DOMAIN outcomes \cup {Head(probes)} |->
                      IF a = Head(probes) THEN o ELSE outcomes[a]]
  /\ UNCHANGED <<step, process, subscriber, counts, cycles, suspended, baseline, fate>>

(* _run_suspend_cycle: a sample, SIGSTOP, SIGCONT, a sample, a verdict.    *)
StartCycle ==
  /\ step = "run" /\ cycles > 0
  /\ cycles' = cycles - 1
  /\ baseline' = received
  /\ IF process = "dead" THEN Gone ELSE step' = "pre" /\ UNCHANGED partial
  /\ UNCHANGED <<process, subscriber, counts, probes, outcomes, suspended, smoke, status, cutOff>>

Suspend ==
  /\ step = "pre" /\ step' = "stopped"
  /\ process' = IF process = "up" THEN "stopped" ELSE process
  /\ UNCHANGED <<subscriber, counts, loop, fate>>

Resume ==
  /\ step = "stopped" /\ step' = "post"
  /\ process' = IF process = "stopped" THEN "up" ELSE process
  /\ UNCHANGED <<subscriber, counts, loop, fate>>

(* suspend_recovery_threshold.  What was emitted since the cycle began is  *)
(* asked of the count the cycle was called with: nothing.                  *)
Recovered(events, ratio, integrity) ==
  LET since  == events - events
      frames == received - baseline
  IN  baseline > 0 /\ ratio /\ integrity /\ ~(since > frames)

EndCycle ==
  /\ step = "post"
  /\ IF process = "dead" THEN Gone /\ UNCHANGED suspended
     ELSE /\ step' = "run" /\ UNCHANGED partial
          /\ \E ratio, integrity \in BOOLEAN :
               suspended' = suspended \cup {Recovered(emitted, ratio, integrity)}
  /\ UNCHANGED <<process, subscriber, counts, cycles, probes, outcomes, baseline, smoke, status, cutOff>>

Deadline ==
  /\ step = "run" /\ step' = "finally"
  /\ UNCHANGED <<process, subscriber, counts, loop, fate>>

-----------------------------------------------------------------------------
(* The finally clauses: the thread, then terminate_daemon_group.           *)

(* SIGTERM ends a daemon in its boot, stops one that runs and waits for    *)
(* one that is suspended.                                                  *)
Sigterm ==
  /\ step = "finally" /\ step' = "wait"
  /\ subscriber' = "off"
  /\ process' = IF process = "boot" THEN "off" ELSE IF process = "up" THEN "ending" ELSE process
  /\ UNCHANGED <<counts, loop, fate>>

Afterwards ==
  step' = IF status # -1 THEN "end" ELSE IF smoke THEN "spawn" ELSE "judge"

Reap ==
  /\ step = "wait" /\ ~Alive
  /\ Afterwards
  /\ UNCHANGED <<process, subscriber, counts, loop, fate>>

(* Mutant: a SIGTERM is all, and the wait is given up.                     *)
GivesUpWaiting ==
  /\ step = "wait" /\ Alive
  /\ Afterwards
  /\ UNCHANGED <<process, subscriber, counts, loop, fate>>

(* The wait is over: SIGKILL, which a suspended daemon does not survive.   *)
Sigkill ==
  /\ step = "wait" /\ Alive
  /\ process' = "off"
  /\ Afterwards
  /\ UNCHANGED <<subscriber, counts, loop, fate>>

(* _compute_verdict_doc: the thresholds on the samples, the shares of the  *)
(* sources (none without an event), the cycles and the probes.             *)
Judge ==
  /\ step = "judge" /\ step' = "end"
  /\ \E healthy \in BOOLEAN :
       status' = IF healthy /\ emitted > 0 /\ FALSE \notin suspended /\ Covered(outcomes, {Axes[i] : i \in 1 .. 3})
               THEN 0 ELSE 1
  /\ UNCHANGED <<process, subscriber, counts, loop, smoke, partial, cutOff>>

-----------------------------------------------------------------------------
SoakInit ==
  /\ step = "start" /\ smoke = FALSE /\ process = "off" /\ subscriber = "off"
  /\ emitted = 0 /\ received = 0 /\ unread = FALSE
  /\ cycles \in 0 .. MaxCycles /\ probes = Axes /\ outcomes = <<>> /\ suspended = {}
  /\ baseline = 0 /\ partial = FALSE /\ status = -1 /\ cutOff = "no"

SoakNext ==
  \/ SpawnDaemon \/ DaemonBinds \/ DaemonDies \/ DaemonReadsEof \/ SkipSmoke \/ SmokeProbes
  \/ OpenProgress \/ OpenFails \/ StartSubscriber \/ Raises \/ Interrupted \/ Killed
  \/ Receive \/ ThreadEnds \/ AdvanceEmit \/ SampleFails \/ DispatchProbe
  \/ StartCycle \/ Suspend \/ Resume \/ EndCycle \/ Deadline
  \/ Sigterm \/ Reap \/ Sigkill \/ Judge

SoakSpec == SoakInit /\ [][SoakNext]_soakVars

-----------------------------------------------------------------------------
(* A harness whose finally clause comes to its end, after an interrupt or  *)
(* an error too, leaves no daemon, and no daemon is spawned beside another *)
(* one.  Where the clause is not entered or is cut short a daemon may run  *)
(* on, to read EOF on its pipe; a suspended one reads nothing and stays,   *)
(* and it takes a SIGKILL or a second interrupt to leave it so (README,    *)
(* "Where the code disagrees").                                            *)
NoDaemonLeft ==
  /\ step \in {"spawn", "judge"} => ~Alive
  /\ step = "end" /\ Alive => IF process = "stopped" THEN cutOff \in {"killed", "again"} ELSE cutOff # "no"

(* benchmarks/_harness.py: "when this process dies by any means, the       *)
(* kernel closes the write end and the daemon's read end hits EOF"; the    *)
(* test's "so the daemon shuts down gracefully".                           *)
(* The code does not keep it (README, "Where the code disagrees").         *)
NoneStranded == step = "end" => process # "stopped"

(* suspend_recovery_threshold: "events_lost_post_resume counts only events *)
(* emitted AFTER SIGCONT that the subscriber did not observe.  Any non-zero *)
(* is a fail."                                                             *)
(* The code does not keep it (README, "Where the code disagrees").         *)
LossIsAFailure == status = 0 => ~unread

=============================================================================
