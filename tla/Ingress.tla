------------------------------- MODULE Ingress -------------------------------
(***************************************************************************)
(* What writes rows on request: the webhook listener (waitbus/listener.py, *)
(* a thread per request beside the main thread's accept loop) and the      *)
(* batched producers, as the pytest plugin is one (sources/pytest_emit.py, *)
(* _emit.py), here the workers and the controller of one pytest-xdist run. *)
(***************************************************************************)
EXTENDS Integers, Sequences, FiniteSets

CONSTANTS
  Deliveries,  \* webhook deliveries, by their delivery id
  Threads,     \* request threads
  TestWorkers, \* pytest processes that run tests
  Controller,  \* the one that only distributes them
  Tests,
  NoDelivery,        \* no delivery
  MaxSends     \* bound: requests sent

(* A worker is a process beside the controller.                            *)
ASSUME IngressAssumption == Controller \notin TestWorkers

VARIABLES
  stored,   \* rows: delivery ids, and <<session, test, outcome>>
  rung,     \* the rows that were committed when the doorbell last rang
  host,     \* the listener's process: "daemon" (its own) or "serve"
  loop,     \* serve_forever: "on", "interrupted" (by a signal handler), "closed"
  asked,    \* shutdown has been called, and waits for the loop to close
  thread,   \* per request thread: [at, id, flaw, new]
  answers,  \* per delivery: what its sender has been told
  sends,    \* requests so far
  numprocesses, \* the run is distributed by -n; if not, by -d or --tx
  results,  \* per pytest process: the outcomes recorded
  pytest,   \* per pytest process: "run", "commit", "ring", "end", "dead"
  killed    \* a producer was killed between its commit and its ring (history)

listenerVars == <<host, loop, asked, thread, answers, sends>>
pytestVars == <<numprocesses, results, pytest>>
ingressVars == <<stored, rung, listenerVars, pytestVars, killed>>

-----------------------------------------------------------------------------
(* The listener.                                                           *)

(* What can be wrong with a request, in the order do_POST,                 *)
(* _check_request_framing, _read_body, _verify_hmac and the handlers look  *)
(* for it, and what each answers.                                          *)
Refusals == [framing |-> 411, path |-> 404, unprovisioned |-> 503, length |-> 400,
             slow |-> 408, signature |-> 401, delivery_id |-> 400, ignored |-> 200,
             json |-> 400]
Flaws == DOMAIN Refusals
NoRequest == [at |-> "idle", id |-> NoDelivery, flaw |-> "none", new |-> FALSE]

At(t, where) == thread[t].at = where
ThreadGoes(t, r) == thread' = [thread EXCEPT ![t] = r]

(* A request is accepted in the loop; senders repeat what they will.       *)
Accept(t, d, flaw) ==
  /\ loop = "on" /\ thread[t] = NoRequest
  /\ sends < MaxSends
  /\ sends' = sends + 1
  /\ ThreadGoes(t, [at |-> IF flaw = "none" THEN "insert" ELSE "refuse",
                 id |-> d, flaw |-> flaw, new |-> FALSE])
  /\ UNCHANGED <<stored, rung, host, loop, asked, answers, pytestVars, killed>>

Answer(t, what) ==
  /\ \/ answers' = [answers EXCEPT ![thread[t].id] = @ \cup {what}]
     \/ UNCHANGED answers
  /\ ThreadGoes(t, NoRequest)

(* Where the answer is a 200 of a request that is ignored, its text says   *)
(* so.  A body that is JSON but no object kills the thread, unanswered.    *)
Refuse(t) ==
  /\ At(t, "refuse")
  /\ \/ thread[t].flaw = "object" /\ ThreadGoes(t, NoRequest) /\ UNCHANGED answers
     \/ thread[t].flaw # "object" /\ Answer(t, <<Refusals[thread[t].flaw], thread[t].flaw>>)
  /\ UNCHANGED <<stored, rung, host, loop, asked, sends, pytestVars, killed>>

(* insert_event: INSERT OR IGNORE and the commit, or an sqlite error.      *)
InsertEvent(t) ==
  /\ At(t, "insert")
  /\ \/ /\ stored' = stored \cup {thread[t].id}
        /\ ThreadGoes(t, [thread[t] EXCEPT !.at = "ring", !.new = thread[t].id \notin stored])
        /\ UNCHANGED answers
     \/ Answer(t, <<500, "db_error">>) /\ UNCHANGED stored
  /\ UNCHANGED <<rung, host, loop, asked, sends, pytestVars, killed>>

(* The ring, if a row is new; then the answer.                             *)
Ring(t) ==
  /\ At(t, "ring")
  /\ rung' = IF thread[t].new THEN stored ELSE rung
  /\ Answer(t, <<200, "ok">>)
  /\ UNCHANGED <<stored, host, loop, asked, sends, pytestVars, killed>>

(* SIGTERM.  In its own process the handler runs in the main thread, on    *)
(* top of serve_forever, and calls shutdown there; `waitbus serve` calls   *)
(* it from another thread.                                                 *)
Shutdown ==
  /\ loop = "on" /\ ~asked
  /\ asked' = TRUE
  /\ loop' = IF host = "daemon" THEN "interrupted" ELSE "on"
  /\ UNCHANGED <<stored, rung, host, thread, answers, sends, pytestVars, killed>>

(* serve_forever looks at the request, server_close.                       *)
LoopEnds ==
  /\ loop = "on" /\ asked
  /\ loop' = "closed"
  /\ UNCHANGED <<stored, rung, host, asked, thread, answers, sends, pytestVars, killed>>

(* The process ends, its request threads with it, or is killed; and starts *)
(* anew.                                                                   *)
Restart ==
  /\ thread # [t \in Threads |-> NoRequest] \/ asked
  /\ loop' = "on" /\ asked' = FALSE
  /\ thread' = [t \in Threads |-> NoRequest]
  /\ killed' = (killed \/ \E t \in Threads : At(t, "ring") /\ thread[t].new)
  /\ UNCHANGED <<stored, rung, host, answers, sends, pytestVars>>

-----------------------------------------------------------------------------
(* pytest.                                                                 *)

Processes == TestWorkers \cup {Controller}

(* Mutant: the controller is taken for a plain run.                        *)
StandsDownNever(w) == w = NoDelivery

(* _is_xdist_controller: it knows the controller by the option alone.      *)
StandsDown(w) == w = Controller /\ numprocesses

(* _session_id: the run's, which the controller has no part in.            *)
Session(w) == IF w = Controller THEN "own" ELSE "run"

Rows(w) == {<<Session(w), r[1], r[2]>> : r \in results[w]}

(* pytest_runtest_logreport: in the worker, and forwarded to the           *)
(* controller; a test may run in several workers, and fail in two phases.  *)
Report(w, test, outcome) ==
  /\ w \in TestWorkers /\ pytest[w] = "run"
  /\ results' = [p \in Processes |-> IF p = w \/ (p = Controller /\ pytest[p] = "run")
                                    THEN results[p] \cup {<<test, outcome>>} ELSE results[p]]
  /\ UNCHANGED <<stored, rung, listenerVars, numprocesses, pytest, killed>>

(* pytest_sessionfinish.                                                   *)
Finish(w) ==
  /\ pytest[w] = "run"
  /\ pytest' = [pytest EXCEPT ![w] = IF results[w] = {} \/ StandsDown(w) THEN "end" ELSE "commit"]
  /\ UNCHANGED <<stored, rung, listenerVars, numprocesses, results, killed>>

(* Mutant: the last insert decides whether to ring.                        *)
EmitBatchByOne(w) ==
  /\ pytest[w] = "commit"
  /\ stored' = stored \cup Rows(w)
  /\ \E r \in Rows(w) : pytest' = [pytest EXCEPT ![w] = IF r \in stored THEN "end" ELSE "ring"]
  /\ UNCHANGED <<rung, listenerVars, numprocesses, results, killed>>

(* emit_batch: one commit; a ring if any row was new.                      *)
EmitBatch(w) ==
  /\ pytest[w] = "commit"
  /\ stored' = stored \cup Rows(w)
  /\ pytest' = [pytest EXCEPT ![w] = IF Rows(w) \subseteq stored THEN "end" ELSE "ring"]
  /\ UNCHANGED <<rung, listenerVars, numprocesses, results, killed>>

RingBatch(w) ==
  /\ pytest[w] = "ring"
  /\ rung' = stored
  /\ pytest' = [pytest EXCEPT ![w] = "end"]
  /\ UNCHANGED <<stored, listenerVars, numprocesses, results, killed>>

(* Killed, or the batch fails: what is not committed is rolled back.       *)
Dies(w) ==
  /\ pytest[w] \notin {"end", "dead"}
  /\ pytest' = [pytest EXCEPT ![w] = "dead"]
  /\ killed' = (killed \/ pytest[w] = "ring")
  /\ UNCHANGED <<stored, rung, listenerVars, numprocesses, results>>

-----------------------------------------------------------------------------
IngressInit ==
  /\ stored = {} /\ rung = {} /\ killed = FALSE
  /\ host \in {"daemon", "serve"} /\ loop = "on" /\ asked = FALSE
  /\ thread = [t \in Threads |-> NoRequest]
  /\ answers = [d \in Deliveries |-> {}] /\ sends = 0
  /\ numprocesses \in BOOLEAN
  /\ results = [w \in Processes |-> {}] /\ pytest = [w \in Processes |-> "run"]

Listener ==
  \/ Shutdown \/ LoopEnds \/ Restart
  \/ \E t \in Threads :
       \/ \E d \in Deliveries, flaw \in Flaws \cup {"none", "object"} : Accept(t, d, flaw)
       \/ Refuse(t) \/ InsertEvent(t) \/ Ring(t)

Pytest ==
  \E w \in Processes :
    \/ \E test \in Tests, outcome \in {"passed", "failed"} : Report(w, test, outcome)
    \/ Finish(w) \/ EmitBatch(w) \/ RingBatch(w) \/ Dies(w)

IngressNext == Listener \/ Pytest

(* serve_forever goes on; a restart is somebody else's doing.              *)
IngressSpec == IngressInit /\ [][IngressNext]_ingressVars /\ WF_ingressVars(LoopEnds)

-----------------------------------------------------------------------------
(* A delivery answered "ok" is stored, whatever threads handled it and     *)
(* whenever they were killed; and no row is left without a ring of the     *)
(* doorbell after its commit, unless its producer was killed before it.    *)
NothingIsSilent ==
  /\ \A d \in Deliveries : <<200, "ok">> \in answers[d] => d \in stored
  /\ \/ killed \/ stored = rung
     \/ \E t \in Threads : At(t, "ring") /\ thread[t].new
     \/ \E w \in Processes : pytest[w] = "ring"

(* However the tests of a run are spread over workers: with -n an outcome  *)
(* is one row, without it at most the run's and the controller's; and once *)
(* all have ended it is lost only with every worker that recorded it.      *)
OneRowPerOutcome ==
  /\ \A x, y \in stored \ Deliveries :
       x[2] = y[2] /\ x[3] = y[3] => x = y \/ (~numprocesses /\ x[1] # y[1])
  /\ (\A p \in Processes : pytest[p] \in {"end", "dead"}) =>
       \A w \in TestWorkers : \A r \in results[w] :
         \/ <<"run", r[1], r[2]>> \in stored
         \/ \A u \in TestWorkers : r \in results[u] => pytest[u] = "dead"

(* _is_xdist_controller's docstring: the controller stands down "so the    *)
(* per-worker emits are the single source of truth".  The code does not    *)
(* keep it under -d or --tx (README, "Where the code disagrees").          *)
WorkersAreTheSource == \A x \in stored \ Deliveries : x[1] = "run"

(* main's docstring: the handlers are set before serve_forever "so SIGTERM *)
(* during a slow first request can still tear down the server cleanly".    *)
(* The code does not keep it (README, "Where the code disagrees").         *)
SigtermTearsDown == asked ~> loop = "closed"

=============================================================================
