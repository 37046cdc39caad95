------------------------------- MODULE Polling -------------------------------
(***************************************************************************)
(* GitHub read by polling (waitbus/etag_poll.py), for one repository.  The *)
(* poll is one-shot: a timer starts it, it may die anywhere, and only the  *)
(* ETag file and the table outlive it.                                     *)
(*                                                                         *)
(* A run has one job, known by the run.  An ETag stands for the content it *)
(* was served with.                                                        *)
(***************************************************************************)
EXTENDS Integers, FiniteSetsExt, SequencesExt

CONSTANTS
  Runs,       \* workflow runs
  None,       \* no ETag
  MaxChanges  \* bound: how far the runs get, together

VARIABLES
  github,   \* the status of each run and of its job; "absent" at first
  polled,   \* per resource and run: the statuses stored, in received_at order
  etagFile, \* the ETag file
  poll,     \* "off", "runs", "upsert", "list", "jobs", "upsert_jobs", "save"
  etags,    \* the state a poll works on
  served,   \* the body a request was answered with
  waiting   \* runs whose jobs are still to be polled

stored == <<polled, etagFile>>
pollVars == <<poll, etags, served, waiting>>
vars == <<github, stored, pollVars>>

Open == {"queued", "in_progress"}
NoEtags == [k \in Runs \cup {"listing"} |-> None]

Listing == github
LastRow(what, r) == IF polled[<<what, r>>] = <<>> THEN "absent" ELSE Last(polled[<<what, r>>])

(* insert_event: the delivery_id is the resource and its status.           *)
Insert(what, r, status) ==
  IF status = "absent" \/ status \in Range(polled[<<what, r>>]) THEN polled[<<what, r>>]
  ELSE Append(polled[<<what, r>>], status)

-----------------------------------------------------------------------------
(* etag_poll.                                                              *)

(* main, load_etag_state.                                                  *)
Start ==
  /\ poll = "off"
  /\ etags' = etagFile
  /\ poll' = "runs" /\ served' = None /\ waiting' = {}
  /\ UNCHANGED <<github, stored>>

(* _conditional_get, after its retries: 200, 304, or anything else.        *)
Answer(key, body, stage, otherwise) ==
  \/ etags[key] # body /\ served' = body /\ poll' = stage
  \/ poll' = otherwise /\ UNCHANGED served

FetchRuns ==
  /\ poll = "runs"
  /\ Answer("listing", Listing, "upsert", "list")
  /\ UNCHANGED <<github, stored, etags, waiting>>

(* Mutant: the transaction fails, is caught, and the ETag is kept.         *)
UpsertRunsOrNot ==
  /\ poll = "upsert"
  /\ \/ polled' = [k \in DOMAIN polled |-> IF k[1] = "run" THEN Insert("run", k[2], served[k[2]]) ELSE polled[k]]
     \/ polled' = polled
  /\ etags' = [etags EXCEPT !["listing"] = served]
  /\ poll' = "list" /\ served' = None
  /\ UNCHANGED <<github, etagFile, waiting>>

(* upsert_runs: one transaction; then the ETag is noted.                   *)
UpsertRuns ==
  /\ poll = "upsert"
  /\ polled' = [k \in DOMAIN polled |-> IF k[1] = "run" THEN Insert("run", k[2], served[k[2]]) ELSE polled[k]]
  /\ etags' = [etags EXCEPT !["listing"] = served]
  /\ poll' = "list" /\ served' = None
  /\ UNCHANGED <<github, etagFile, waiting>>

(* in_progress_run_ids: by the newest row of each run.                     *)
ListRuns ==
  /\ poll = "list"
  /\ waiting' = {r \in Runs : LastRow("run", r) \in Open}
  /\ poll' = "jobs"
  /\ UNCHANGED <<github, stored, etags, served>>

FetchJobs(r) ==
  /\ poll = "jobs" /\ r \in waiting
  /\ Answer(r, github[r], "upsert_jobs", "jobs")
  /\ waiting' = IF poll' = "jobs" THEN waiting \ {r} ELSE {r} \cup waiting
  /\ UNCHANGED <<github, stored, etags>>

UpsertJobs(r) ==
  /\ poll = "upsert_jobs" /\ r \in waiting
  /\ polled' = [polled EXCEPT ![<<"job", r>>] = Insert("job", r, served)]
  /\ etags' = [etags EXCEPT ![r] = served]
  /\ poll' = "jobs" /\ waiting' = waiting \ {r} /\ served' = None
  /\ UNCHANGED <<github, etagFile>>

Exits == poll' = "off" /\ etags' = NoEtags /\ served' = None /\ waiting' = {}

(* emit_stall_synthetic_events: any jobs the table has as open and that    *)
(* started too long ago.                                                   *)
EmitStalls ==
  /\ poll = "jobs" /\ waiting = {}
  /\ \E late \in SUBSET {r \in Runs : LastRow("job", r) \in Open} :
       polled' = [k \in DOMAIN polled |->
                  IF k[1] = "job" /\ k[2] \in late THEN Insert("job", k[2], "stalled") ELSE polled[k]]
  /\ poll' = "save"
  /\ UNCHANGED <<github, etagFile, etags, served, waiting>>

SaveState ==
  /\ poll = "save"
  /\ etagFile' = etags
  /\ Exits
  /\ UNCHANGED <<github, polled>>

(* A crash, or an error of the table: the state is not saved, or in part,  *)
(* which is read as an empty one.                                          *)
Abort ==
  /\ poll # "off"
  /\ etagFile' \in {etagFile} \cup (IF poll = "save" THEN {NoEtags} ELSE {})
  /\ Exits
  /\ UNCHANGED <<github, polled>>

-----------------------------------------------------------------------------
(* GitHub.                                                                 *)

Progress(gh) ==
  MapThenSumSet(LAMBDA r : CASE gh[r] = "absent" -> 0 [] gh[r] = "queued" -> 1
                             [] gh[r] = "in_progress" -> 2 [] OTHER -> 3, Runs)

Goes(r, status) ==
  /\ \/ github[r] = "absent" /\ status = "queued"
     \/ github[r] = "queued" /\ status = "in_progress"
     \/ github[r] \in Open /\ status = "completed"
  /\ github' = [github EXCEPT ![r] = status] /\ Progress(github') <= MaxChanges
  /\ UNCHANGED <<stored, pollVars>>

Init ==
  /\ github = [r \in Runs |-> "absent"]
  /\ polled = [k \in {"run", "job"} \X Runs |-> <<>>] /\ etagFile = NoEtags
  /\ poll = "off" /\ etags = NoEtags /\ served = None /\ waiting = {}

Next ==
  \/ Start \/ FetchRuns \/ UpsertRuns \/ ListRuns
  \/ \E r \in Runs : FetchJobs(r) \/ UpsertJobs(r)
  \/ EmitStalls \/ SaveState \/ Abort
  \/ \E r \in Runs, status \in Open \cup {"completed"} : Goes(r, status)

Spec == Init /\ [][Next]_vars

-----------------------------------------------------------------------------
(* Properties.                                                             *)

(* The rows an ETag stands for.                                             *)
StoredBy(state) ==
  \A r \in Runs :
    /\ state["listing"] # None /\ state["listing"][r] # "absent" =>
         state["listing"][r] \in Range(polled[<<"run", r>>])
    /\ state[r] # None => state[r] \in Range(polled[<<"job", r>>])

(* A later poll never answers 304 for what is not in the table: whatever   *)
(* is saved, or is about to be, was committed before, wherever the poll    *)
(* died and whichever request failed (etag_poll: "304 is a no-op").        *)
EtagNeverAhead == StoredBy(etags) /\ StoredBy(etagFile)
=============================================================================
