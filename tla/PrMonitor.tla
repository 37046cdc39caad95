------------------------------ MODULE PrMonitor ------------------------------
(***************************************************************************)
(* The pull-request monitor (waitbus/pr_monitor.py): a subscriber that     *)
(* rolls the job rows of each pull request's head commit up, prints each   *)
(* change and ends when every state is terminal.  A pass reads the pull    *)
(* requests one after another, each with a query of its own and no         *)
(* transaction around them; producers store job rows meanwhile, in any     *)
(* order: reruns and late webhooks take a job back.                        *)
(***************************************************************************)
EXTENDS Integers, FiniteSets

CONSTANTS
  Watched,  \* pull requests watched: the list prs is 1..Watched
  Shas,     \* commits
  Jobs,     \* jobs of each commit
  None,     \* no commit, no row
  MaxRows   \* bound: job rows stored

VARIABLES
  newest,   \* the newest row of each job of each commit: its status
  count,    \* rows stored
  monitor,  \* "start", "tick", "wait", "done" (MONITOR_DONE), "exited"
  known,    \* pr_sha
  state,    \* pr_state, with observed: None until the first line
  at,       \* tick: the pull request the pass comes to next
  settled,  \* tick: all_observed and not any_pending, so far
  lines,    \* the last line printed for each (history)
  during    \* the tables there were during the pass (history)

table == <<newest, count>>
pass == <<at, settled, state, lines>>
monitorVars == <<table, monitor, known, pass, during>>

Prs == 1..Watched
(* A row's status and conclusion, as AGG_SQL tells them apart: "neither"   *)
(* is one still to run, skipped, neutral, stale or held for a human.       *)
Statuses == {"neither", "success", "failure"}

ASSUME MonitorAssumption == None \notin Statuses /\ Watched \in Nat

(* head_sha: a push may have moved the head; None when gh fails.           *)
Heads == [Prs -> Shas \cup {None}]

TickBegins == at' = 1 /\ settled' = TRUE /\ during' = {newest} /\ UNCHANGED <<state, lines>>

(* main: the heads, then the subscription and the first pass.              *)
Start ==
  /\ monitor = "start"
  /\ known' \in Heads
  /\ monitor' \in {"tick", "exited"}
  /\ TickBegins /\ UNCHANGED table

Having(tbl, sha, statuses) == {j \in Jobs : tbl[<<sha, j>>] \in statuses}

(* AGG_SQL, over the newest row of each job of the commit.                 *)
Aggregate(tbl, sha) ==
  LET all == Having(tbl, sha, Statuses)
      passed == Having(tbl, sha, {"success"})
      failed == Having(tbl, sha, {"failure"})
      verdict == IF all = {} THEN "NO_JOBS" ELSE IF failed # {} THEN "FAIL"
                 ELSE IF passed = all THEN "ALL_GREEN" ELSE "PENDING"
  IN  <<verdict, Cardinality(all), Cardinality(passed), Cardinality(failed)>>

Line(tbl, sha) == <<sha, Aggregate(tbl, sha)>>
Pending(tbl, sha) == Aggregate(tbl, sha)[1] \in {"PENDING", "NO_JOBS"}

(* tick, one turn of its loop: a line is printed only when it is news.     *)
Report(p) ==
  LET line == Line(newest, known[p])
  IN  /\ known[p] # None
      /\ state' = [state EXCEPT ![p] = line]
      /\ lines' = IF state[p] # line THEN [lines EXCEPT ![p] = line] ELSE lines
      /\ settled' = (settled /\ ~Pending(newest, known[p]))

(* Mutant: a pull request whose head is unknown does not hold the end up.  *)
PassOverSilently(p) ==
  /\ known[p] = None
  /\ UNCHANGED <<settled, state, lines>>

PassOver(p) ==
  /\ known[p] = None /\ settled' = FALSE
  /\ UNCHANGED <<state, lines>>

Look ==
  /\ monitor = "tick" /\ at \in Prs
  /\ Report(at) \/ PassOver(at)
  /\ at' = at + 1
  /\ UNCHANGED <<table, monitor, known, during>>

TickEnds ==
  /\ monitor = "tick" /\ at \notin Prs
  /\ monitor' = IF settled THEN "done" ELSE "wait"
  /\ during' = {}
  /\ UNCHANGED <<table, known, pass>>

(* Ctrl-C in a pass.                                                       *)
CtrlC ==
  /\ monitor = "tick" /\ monitor' = "exited"
  /\ UNCHANGED <<table, known, pass, during>>

(* _pr_monitor_tick: the heads when they are due, then the whole safety    *)
(* net (no frame ends that wait), or the end of the connection, or Ctrl-C. *)
Wait ==
  /\ monitor = "wait"
  /\ known' \in {known} \cup Heads
  /\ monitor' \in {"tick", "exited"}
  /\ TickBegins /\ UNCHANGED table

(* Rows stored after the monitor's end are left out: nobody reads them.    *)
Store(sha, job, status) ==
  /\ count < MaxRows /\ monitor \notin {"done", "exited"}
  /\ newest' = [newest EXCEPT ![<<sha, job>>] = status] /\ count' = count + 1
  /\ during' = IF monitor = "tick" THEN during \cup {newest'} ELSE during
  /\ UNCHANGED <<monitor, known, pass>>

MonitorInit ==
  /\ newest = [k \in Shas \X Jobs |-> None] /\ count = 0
  /\ monitor = "start" /\ known = [p \in Prs |-> None]
  /\ state = [p \in Prs |-> None] /\ lines = [p \in Prs |-> None]
  /\ at = 1 /\ settled = TRUE /\ during = {}

MonitorNext ==
  \/ Start \/ Look \/ TickEnds \/ CtrlC \/ Wait
  \/ \E sha \in Shas, job \in Jobs, status \in Statuses : Store(sha, job, status)

MonitorSpec == MonitorInit /\ [][MonitorNext]_monitorVars

-----------------------------------------------------------------------------
(* Properties.                                                             *)

(* In that table, the jobs of the commit have all passed or one failed.    *)
Terminal(tbl, sha) ==
  LET sts == {tbl[<<sha, j>>] : j \in Jobs} \ {None}
  IN  "failure" \in sts \/ sts = {"success"}

(* MONITOR_DONE comes only when every pull request was reported in this    *)
(* very pass: its last line is its present commit's, as a table of during  *)
(* the pass gave it, with all its jobs passed or one of them failed.       *)
(* Never for a head that could not be looked up, and never for a line of   *)
(* an earlier pass, before a rerun.  (Not that all of them were terminal   *)
(* at one moment: a rerun of the first may come while the second is read.) *)
DoneIsDecided ==
  [][monitor # "done" /\ monitor' = "done" =>
       \A p \in Prs : \E tbl \in during :
         /\ known[p] # None /\ lines[p] = Line(tbl, known[p])
         /\ Terminal(tbl, known[p])]_monitorVars
=============================================================================
