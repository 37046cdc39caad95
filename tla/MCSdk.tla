------------------------------- MODULE MCSdk -------------------------------
(* The consumers of the Python SDK: the async generator, the bookmarked    *)
(* session, and a call that waits.  Each behaviour runs one of them; they  *)
(* meet in the table only.                                                 *)
EXTENDS AsyncSubscribe, Resume, Waiting

CONSTANT run1

VARIABLE part

(* The invocations of Waiting and the frames they tell apart.              *)
Gh(sha, concl) == [source |-> "github", repo |-> "mine", sha |-> sha, conclusion |-> concl]
TheFrames ==
  {Gh("asked", "success"), Gh("asked", "failure"), Gh("asked", "skipped"), Gh("other", "success"),
   [source |-> "github", repo |-> "theirs", sha |-> "asked", conclusion |-> "failure"],
   [source |-> "docker", repo |-> None, sha |-> None, conclusion |-> None]}
Plain == [verb |-> "wait", sha |-> FALSE, source |-> None, match |-> {}, repo |-> None,
          origin |-> "mine", compose |-> None, clauses |-> {}, exitStatus |-> TRUE,
          timeout |-> 1, malformed |-> FALSE]
Ended == {<<"conclusion", "success">>, <<"conclusion", "failure">>}
Both == {<<"github", "conclusion", "failure">>, <<"docker", "conclusion", None>>}
TheCalls ==
  {[Plain EXCEPT !.sha = TRUE], [Plain EXCEPT !.sha = TRUE, !.origin = None],
   [Plain EXCEPT !.sha = TRUE, !.source = "docker"], Plain,
   [Plain EXCEPT !.match = Ended, !.exitStatus = FALSE],
   [Plain EXCEPT !.match = Ended, !.repo = "theirs", !.source = "github"],
   [Plain EXCEPT !.source = "docker", !.timeout = 0], [Plain EXCEPT !.malformed = TRUE],
   [Plain EXCEPT !.compose = "all", !.clauses = Both],
   [Plain EXCEPT !.compose = "first", !.clauses = Both, !.match = Ended],
   [Plain EXCEPT !.compose = "first", !.clauses = Both],
   [Plain EXCEPT !.verb = "wait_for", !.match = Ended],
   [Plain EXCEPT !.verb = "wait_for", !.compose = "all", !.clauses = Both, !.timeout = None],
   [Plain EXCEPT !.verb = "wait_for", !.compose = "first", !.clauses = Both],
   [Plain EXCEPT !.verb = "subscribe", !.match = Ended, !.timeout = None]}

mcVars == <<part, asyncVars, resumeVars, waitVars>>

MCInit ==
  /\ part \in {"async", "bookmark", "wait"}
  /\ AsyncInit /\ ResumeInit /\ WaitingInit
  /\ part # "bookmark" => mode = "faithful" /\ bookmark = 1
  /\ part # "wait" => call = Plain /\ link = "up"

MCNext ==
  \/ part = "async" /\ AsyncNext /\ UNCHANGED <<part, resumeVars, waitVars>>
  \/ part = "bookmark" /\ ResumeNext /\ UNCHANGED <<part, asyncVars, waitVars>>
  \/ part = "wait" /\ WaitingNext /\ UNCHANGED <<part, asyncVars, resumeVars>>

(* The fairness of AsyncSubscribe and of Waiting, each for its own part.   *)
MCSpec ==
  /\ MCInit /\ [][MCNext]_mcVars
  /\ WF_asyncVars(part = "async" /\ WorkerNext) /\ WF_asyncVars(PutLands)
  /\ WF_asyncVars(part = "async" /\ ConsumerGets) /\ WF_asyncVars(Drain)
  /\ WF_asyncVars(part = "async" /\ JoinReturns)
  /\ WF_waitVars(part = "wait" /\ Consumer)
  /\ WF_waitVars(part = "wait" /\ Tick)
=============================================================================
