--------------------------- MODULE ProgramsProofs ---------------------------
(***************************************************************************)
(* Proofs about the programs that run beside the bus: GitHub polling,      *)
(* `waitbus on`, the soak and the stress harness.                          *)
(***************************************************************************)
EXTENDS Polling, OnCommand, Stress, Soak, FiniteSetTheorems, SequenceTheorems, TLAPS

-----------------------------------------------------------------------------
(* Polling: however often a poll dies, no saved ETag stands for what was   *)
(* not stored, for any set of workflow runs.                               *)

Status == {"absent", "queued", "in_progress", "completed", "stalled"}
Key == {"run", "job"} \X Runs

PollingTypeOK ==
  /\ github \in [Runs -> Status]
  /\ polled \in [Key -> Seq(Status)]
  /\ etags \in [Runs \cup {"listing"} -> {None} \cup Status \cup [Runs -> Status]]
  /\ etagFile \in [Runs \cup {"listing"} -> {None} \cup Status \cup [Runs -> Status]]
  /\ waiting \subseteq Runs

(* What is listed, is waited for or has been answered existed, and a run   *)
(* does not go back to not existing; so the row of a job is never the one  *)
(* Insert leaves out.                                                      *)
ExistsInv ==
  /\ \A r \in Runs : polled[<<"run", r>>] # <<>> => github[r] # "absent"
  /\ \A r \in waiting : github[r] # "absent"
  /\ poll = "upsert" =>
       served \in [Runs -> Status] /\ \A r \in Runs : served[r] # "absent" => github[r] # "absent"
  /\ poll = "upsert_jobs" => served \in Status \ {"absent"}

PollingInv == PollingTypeOK /\ ExistsInv /\ EtagNeverAhead

-----------------------------------------------------------------------------
(* The rows of a table only grow.                                          *)

LEMMA RangeAppend ==
  ASSUME NEW s \in Seq(Status), NEW e \in Status
  PROVE  Append(s, e) \in Seq(Status) /\ Append(s, e) # <<>> /\ Range(Append(s, e)) = Range(s) \cup {e}
<1>1. Append(s, e) \in Seq(Status) /\ Len(Append(s, e)) = Len(s) + 1
  OBVIOUS
<1>2. \A i \in 1..Len(s) : Append(s, e)[i] = s[i]
  OBVIOUS
<1>3. Append(s, e)[Len(s) + 1] = e
  OBVIOUS
<1>4. DOMAIN s = 1..Len(s) /\ DOMAIN Append(s, e) = 1..(Len(s) + 1) /\ Len(s) \in Nat
  BY <1>1
<1> QED BY <1>1, <1>2, <1>3, <1>4 DEF Range

LEMMA InsertGrows ==
  ASSUME PollingTypeOK, NEW w \in {"run", "job"}, NEW r \in Runs, NEW x \in Status
  PROVE  /\ Insert(w, r, x) \in Seq(Status)
         /\ Range(polled[<<w, r>>]) \subseteq Range(Insert(w, r, x))
         /\ x # "absent" => x \in Range(Insert(w, r, x))
         /\ x = "absent" => Insert(w, r, x) = polled[<<w, r>>]
<1>1. polled[<<w, r>>] \in Seq(Status)
  BY DEF PollingTypeOK, Key
<1> QED BY <1>1, RangeAppend DEF Insert

(* What an ETag stands for stays stored.                                   *)
LEMMA StoredByGrows ==
  ASSUME NEW state, StoredBy(state),
         \A k \in Key : Range(polled[k]) \subseteq Range(polled[k]')
  PROVE  \A r \in Runs :
           /\ state["listing"] # None /\ state["listing"][r] # "absent" =>
                state["listing"][r] \in Range(polled[<<"run", r>>]')
           /\ state[r] # None => state[r] \in Range(polled[<<"job", r>>]')
  BY DEF StoredBy, Key

LEMMA NothingIsSavedAtFirst == StoredBy(NoEtags)
  BY DEF StoredBy, NoEtags

LEMMA PollingStarts == Init => PollingInv
<1> SUFFICES ASSUME Init PROVE PollingInv
  OBVIOUS
<1>1. NoEtags \in [Runs \cup {"listing"} -> {None} \cup Status \cup [Runs -> Status]]
  BY DEF NoEtags
<1>2. github \in [Runs -> Status] /\ polled \in [Key -> Seq(Status)]
  BY DEF Init, Status, Key
<1>3. \A r \in Runs : polled[<<"run", r>>] = <<>>
  BY DEF Init
<1>4. PollingTypeOK
  BY <1>1, <1>2 DEF Init, PollingTypeOK
<1>5. ExistsInv
  BY <1>3 DEF Init, ExistsInv
<1>6. EtagNeverAhead
  BY NothingIsSavedAtFirst DEF Init, EtagNeverAhead
<1> QED BY <1>4, <1>5, <1>6 DEF PollingInv

-----------------------------------------------------------------------------
(* The steps that leave the table alone.                                   *)

LEMMA StartKeeps == ASSUME PollingInv, Start PROVE PollingInv'
  BY DEF Start, stored, PollingInv, PollingTypeOK, ExistsInv, EtagNeverAhead, StoredBy

LEMMA FetchRunsKeeps == ASSUME PollingInv, FetchRuns PROVE PollingInv'
<1>1. UNCHANGED <<github, polled, etagFile, etags, waiting>>
  BY DEF FetchRuns, stored
<1>2. /\ poll' = "upsert" => served' = github
      /\ poll' # "upsert_jobs"
  BY DEF FetchRuns, Answer, Listing
<1>3. PollingTypeOK' /\ EtagNeverAhead'
  BY <1>1 DEF PollingInv, PollingTypeOK, EtagNeverAhead, StoredBy
<1>4. ExistsInv'
  BY <1>1, <1>2 DEF PollingInv, PollingTypeOK, ExistsInv
<1> QED BY <1>3, <1>4 DEF PollingInv

LEMMA ListRunsKeeps == ASSUME PollingInv, ListRuns PROVE PollingInv'
<1>1. UNCHANGED <<github, polled, etagFile, etags, served>> /\ poll' = "jobs"
  BY DEF ListRuns, stored
<1>2. \A r \in waiting' : r \in Runs /\ polled[<<"run", r>>] # <<>>
  BY DEF ListRuns, LastRow, Open
<1>3. PollingTypeOK' /\ EtagNeverAhead'
  BY <1>1, <1>2 DEF PollingInv, PollingTypeOK, EtagNeverAhead, StoredBy
<1>4. ExistsInv'
  BY <1>1, <1>2 DEF PollingInv, ExistsInv
<1> QED BY <1>3, <1>4 DEF PollingInv

LEMMA FetchJobsKeeps == ASSUME PollingInv, NEW r \in Runs, FetchJobs(r) PROVE PollingInv'
<1>1. UNCHANGED <<github, polled, etagFile, etags>> /\ r \in waiting
  BY DEF FetchJobs, stored
<1>2. waiting' \subseteq waiting
  BY <1>1 DEF FetchJobs
<1>3. /\ poll' = "upsert_jobs" => served' = github[r]
      /\ poll' # "upsert"
  BY DEF FetchJobs, Answer
<1>4. PollingTypeOK' /\ EtagNeverAhead'
  BY <1>1, <1>2 DEF PollingInv, PollingTypeOK, EtagNeverAhead, StoredBy
<1>5. ExistsInv'
  BY <1>1, <1>2, <1>3 DEF PollingInv, PollingTypeOK, ExistsInv
<1> QED BY <1>4, <1>5 DEF PollingInv

LEMMA ExitKeeps == ASSUME PollingInv, SaveState \/ Abort PROVE PollingInv'
<1>1. UNCHANGED <<github, polled>> /\ poll' = "off" /\ waiting' = {} /\ etags' = NoEtags
  BY DEF SaveState, Abort, Exits
<1>2. etagFile' \in {etagFile, etags, NoEtags}
  BY DEF SaveState, Abort
<1>3. NoEtags \in [Runs \cup {"listing"} -> {None} \cup Status \cup [Runs -> Status]]
  BY DEF NoEtags
<1>4. PollingTypeOK'
  BY <1>1, <1>2, <1>3 DEF PollingInv, PollingTypeOK
<1>5. ExistsInv'
  BY <1>1 DEF PollingInv, ExistsInv
<1>6. EtagNeverAhead'
  BY <1>1, <1>2, NothingIsSavedAtFirst DEF PollingInv, EtagNeverAhead, StoredBy
<1> QED BY <1>4, <1>5, <1>6 DEF PollingInv

LEMMA GoesKeeps ==
  ASSUME PollingInv, NEW r \in Runs, NEW next \in Open \cup {"completed"}, Goes(r, next)
  PROVE  PollingInv'
<1>1. UNCHANGED <<polled, etagFile, poll, etags, served, waiting>>
  BY DEF Goes, stored, pollVars
<1>2. github' = [github EXCEPT ![r] = next] /\ next \in Status \ {"absent"}
  BY DEF Goes, Open, Status
<1>3. PollingTypeOK' /\ EtagNeverAhead'
  BY <1>1, <1>2 DEF PollingInv, PollingTypeOK, EtagNeverAhead, StoredBy
<1>4. \A q \in Runs : github[q] # "absent" => github'[q] # "absent"
  BY <1>2 DEF PollingInv, PollingTypeOK
<1>5. ExistsInv'
  BY <1>1, <1>4 DEF PollingInv, PollingTypeOK, ExistsInv
<1> QED BY <1>3, <1>5 DEF PollingInv

-----------------------------------------------------------------------------
(* The steps that store, and note the ETag in the same step.               *)

LEMMA UpsertRunsKeeps ==
  ASSUME "listing" \notin Runs, PollingInv, UpsertRuns
  PROVE  PollingInv'
<1>1. /\ UNCHANGED <<github, etagFile, waiting>> /\ poll' = "list"
      /\ etags' = [etags EXCEPT !["listing"] = served]
  BY DEF UpsertRuns
<1>2. /\ served \in [Runs -> Status]
      /\ \A r \in Runs : served[r] # "absent" => github[r] # "absent"
  BY DEF UpsertRuns, PollingInv, ExistsInv
<1>3. \A k \in Key :
        polled'[k] = IF k[1] = "run" THEN Insert("run", k[2], served[k[2]]) ELSE polled[k]
  BY DEF UpsertRuns, PollingInv, PollingTypeOK
<1>4. polled' \in [Key -> Seq(Status)]
  <2>1. \A k \in Key : polled'[k] \in Seq(Status)
    <3> TAKE k \in Key
    <3>1. CASE k[1] = "run"
      BY <1>2, <1>3, <3>1, InsertGrows DEF Key, PollingInv
    <3>2. CASE k[1] # "run"
      BY <1>3, <3>2 DEF PollingInv, PollingTypeOK
    <3> QED BY <3>1, <3>2
  <2>2. polled' = [k \in Key |-> polled'[k]]
    BY DEF UpsertRuns, PollingInv, PollingTypeOK
  <2> QED BY <2>1, <2>2
<1>5. \A k \in Key : Range(polled[k]) \subseteq Range(polled'[k])
  <2> TAKE k \in Key
  <2>1. CASE k[1] = "run"
    <3>1. PICK r \in Runs : k = <<"run", r>>
      BY <2>1 DEF Key
    <3>2. polled'[k] = Insert("run", r, served[r])
      BY <1>3, <3>1
    <3> QED BY <1>2, <3>1, <3>2, InsertGrows DEF PollingInv
  <2>2. CASE k[1] # "run"
    BY <1>3, <2>2
  <2> QED BY <2>1, <2>2
<1>6. \A r \in Runs : polled'[<<"run", r>>] = Insert("run", r, served[r])
  BY <1>3 DEF Key
<1>7. PollingTypeOK'
  BY <1>1, <1>2, <1>4 DEF PollingInv, PollingTypeOK
<1>8. ExistsInv'
  BY <1>1, <1>2, <1>6, InsertGrows DEF PollingInv, ExistsInv
<1>9. StoredBy(etagFile)'
  BY <1>1, <1>5, StoredByGrows DEF PollingInv, EtagNeverAhead, StoredBy
<1>10. StoredBy(etags)'
  <2>1. etags'["listing"] = served /\ \A r \in Runs : etags'[r] = etags[r]
    BY <1>1 DEF PollingInv, PollingTypeOK
  <2>2. \A r \in Runs : served[r] # "absent" => served[r] \in Range(polled'[<<"run", r>>])
    BY <1>2, <1>6, InsertGrows DEF PollingInv
  <2> QED BY <1>5, <2>1, <2>2, StoredByGrows DEF PollingInv, EtagNeverAhead, StoredBy
<1> QED BY <1>7, <1>8, <1>9, <1>10 DEF PollingInv, EtagNeverAhead

LEMMA UpsertJobsKeeps ==
  ASSUME "listing" \notin Runs, PollingInv, NEW r \in Runs, UpsertJobs(r)
  PROVE  PollingInv'
<1>1. /\ UNCHANGED <<github, etagFile>> /\ poll' = "jobs" /\ waiting' \subseteq waiting
      /\ etags' = [etags EXCEPT ![r] = served]
  BY DEF UpsertJobs
<1>2. served \in Status \ {"absent"}
  BY DEF UpsertJobs, PollingInv, ExistsInv
<1>3. polled' = [polled EXCEPT ![<<"job", r>>] = Insert("job", r, served)]
  BY DEF UpsertJobs
<1>4. /\ Insert("job", r, served) \in Seq(Status)
      /\ Range(polled[<<"job", r>>]) \subseteq Range(Insert("job", r, served))
      /\ served \in Range(Insert("job", r, served))
  BY <1>2, InsertGrows DEF PollingInv
<1>5. /\ polled' \in [Key -> Seq(Status)]
      /\ polled'[<<"job", r>>] = Insert("job", r, served)
      /\ \A q \in Runs : polled'[<<"run", q>>] = polled[<<"run", q>>]
      /\ \A k \in Key : Range(polled[k]) \subseteq Range(polled'[k])
  BY <1>3, <1>4 DEF PollingInv, PollingTypeOK, Key
<1>6. PollingTypeOK'
  BY <1>1, <1>2, <1>5 DEF PollingInv, PollingTypeOK
<1>7. ExistsInv'
  BY <1>1, <1>5 DEF PollingInv, ExistsInv
<1>8. StoredBy(etagFile)'
  BY <1>1, <1>5, StoredByGrows DEF PollingInv, EtagNeverAhead, StoredBy
<1>9. StoredBy(etags)'
  <2>1. /\ etags'["listing"] = etags["listing"] /\ etags'[r] = served
        /\ \A q \in Runs \ {r} : etags'[q] = etags[q]
    BY <1>1 DEF PollingInv, PollingTypeOK
  <2> QED BY <1>4, <1>5, <2>1, StoredByGrows DEF PollingInv, EtagNeverAhead, StoredBy
<1> QED BY <1>6, <1>7, <1>8, <1>9 DEF PollingInv, EtagNeverAhead

LEMMA EmitStallsKeeps == ASSUME PollingInv, EmitStalls PROVE PollingInv'
<1>1. UNCHANGED <<github, etagFile, etags, waiting>> /\ poll' = "save"
  BY DEF EmitStalls
<1>2. PICK late \in SUBSET Runs :
        polled' = [k \in DOMAIN polled |->
                   IF k[1] = "job" /\ k[2] \in late THEN Insert("job", k[2], "stalled") ELSE polled[k]]
  BY DEF EmitStalls
<1>3. \A k \in Key : polled'[k] \in Seq(Status) /\ Range(polled[k]) \subseteq Range(polled'[k])
  <2> TAKE k \in Key
  <2>1. CASE k[1] = "job" /\ k[2] \in late
    <3>1. PICK r \in Runs : k = <<"job", r>>
      BY <2>1 DEF Key
    <3>2. polled'[k] = Insert("job", r, "stalled")
      BY <1>2, <2>1, <3>1 DEF PollingInv, PollingTypeOK
    <3> QED BY <3>1, <3>2, InsertGrows DEF PollingInv, Status
  <2>2. CASE ~(k[1] = "job" /\ k[2] \in late)
    BY <1>2, <2>2 DEF PollingInv, PollingTypeOK
  <2> QED BY <2>1, <2>2
<1>4. \A r \in Runs : polled'[<<"run", r>>] = polled[<<"run", r>>]
  BY <1>2 DEF PollingInv, PollingTypeOK, Key
<1>5. polled' = [k \in Key |-> polled'[k]]
  BY <1>2 DEF PollingInv, PollingTypeOK
<1>6. PollingTypeOK'
  BY <1>1, <1>3, <1>5 DEF PollingInv, PollingTypeOK
<1>7. ExistsInv'
  BY <1>1, <1>4 DEF PollingInv, ExistsInv
<1>8. EtagNeverAhead'
  BY <1>1, <1>3, StoredByGrows DEF PollingInv, EtagNeverAhead, StoredBy
<1> QED BY <1>6, <1>7, <1>8 DEF PollingInv

-----------------------------------------------------------------------------
LEMMA PollingStep == "listing" \notin Runs => (PollingInv /\ [Next]_vars => PollingInv')
<1> SUFFICES ASSUME "listing" \notin Runs, PollingInv, [Next]_vars PROVE PollingInv'
  OBVIOUS
<1>1. CASE UNCHANGED vars
  BY <1>1 DEF vars, stored, pollVars, PollingInv, PollingTypeOK, ExistsInv, EtagNeverAhead, StoredBy
<1>2. CASE Next
  BY <1>2, StartKeeps, FetchRunsKeeps, UpsertRunsKeeps, ListRunsKeeps, FetchJobsKeeps,
     UpsertJobsKeeps, EmitStallsKeeps, ExitKeeps, GoesKeeps DEF Next
<1> QED BY <1>1, <1>2

(* etag_poll: wherever a poll dies and whichever request fails, the ETags  *)
(* it works on and the ones in the file stand for rows that were committed *)
(* before; so a 304 of a later poll says nothing new that was not stored.  *)
(* The listing's entry is a key of its own.                                *)
THEOREM NeverAhead == "listing" \notin Runs => (Spec => []EtagNeverAhead)
<1> SUFFICES ASSUME "listing" \notin Runs PROVE Spec => []EtagNeverAhead
  OBVIOUS
<1>1. Init => PollingInv
  BY PollingStarts
<1>2. PollingInv /\ [Next]_vars => PollingInv'
  BY PollingStep
<1>3. PollingInv => EtagNeverAhead
  BY DEF PollingInv
<1> QED BY <1>1, <1>2, <1>3, PTL DEF Spec

-----------------------------------------------------------------------------
(* OnCommand: the commands of `waitbus on`, for any number of matches,     *)
(* restarts and signals.                                                   *)

(* The commands spawned so far, and what is left of them; a file is        *)
(* written before its command is spawned.                                  *)
OnTypeOK ==
  /\ mode \in {"once", "loop", "restart"}
  /\ spawned \in Nat /\ running \in 0..spawned
  /\ alive \subseteq (1..spawned) \X {"leader", "helper"}
  /\ files \subseteq 1..spawned + 1

(* Where the supervisor is tells what is left of the commands: none past   *)
(* a termination, the last one until then.  At "bind" the last one is not  *)
(* yet known; a termination on the way out may be of the one before.  A    *)
(* file without a command is about to be used, or lost in a spawn.         *)
RestartInv ==
  /\ \A k \in 1..spawned - 1 : Group(k) \cap alive = {} /\ k \notin files
  /\ pc = "ack" => spawned = 0
  /\ pc \in {"write", "popen"} => alive = {} /\ spawned \notin files
  /\ pc \in {"ack", "wait", "write", "popen", "bind"} => struck = "no"
  /\ (struck # "bind" /\ pc # "bind") => running = spawned
  /\ (struck = "bind" \/ pc = "bind") => running = spawned - 1
  /\ struck \in {"no", "write", "popen", "bind"}
  /\ spawned + 1 \in files => pc = "popen" \/ struck \in {"write", "popen"}
  /\ pc \in {"term", "grace", "kill", "unlink"} => running # 0 /\ (then = "spawn" => struck = "no")
  /\ pc = "unlink" => Group(running) \cap alive = {}
  /\ (pc = "done" /\ ~cut /\ alive # {}) => struck = "bind"
  /\ (pc = "done" /\ ~cut /\ files # {}) => struck # "no"
  /\ pc # "blocked"
  /\ cut => pc = "done"

OnInv == OnTypeOK /\ (mode = "restart" => RestartInv)

LEMMA OnStarts == OnInit => OnInv
<1> SUFFICES ASSUME OnInit PROVE OnInv
  OBVIOUS
<1>1. /\ mode \in {"once", "loop", "restart"} /\ pc = "ack" /\ ~cut /\ struck = "no"
      /\ spawned = 0 /\ running = 0 /\ alive = {} /\ files = {}
  BY DEF OnInit
<1>2. OnTypeOK /\ RestartInv
  BY <1>1 DEF OnTypeOK, RestartInv
<1> QED BY <1>1, <1>2 DEF OnInv

LEMMA OnType ==
  ASSUME OnTypeOK, OnNext PROVE OnTypeOK' /\ mode' = mode
<1> USE DEF OnTypeOK, children, MaybeWritten
<1>1. CASE Acked \/ Matched \/ WaitEnds \/ GraceEnds
  BY <1>1 DEF Acked, Matched, WaitEnds, GraceEnds
<1>2. CASE WriteFile \/ WriteFails \/ SpawnFails
  <2>1. /\ UNCHANGED <<mode, running, spawned, alive>>
        /\ files' \subseteq files \cup {spawned + 1}
    BY <1>2 DEF WriteFile, WriteFails, SpawnFails
  <2> QED BY <2>1
<1>3. CASE Popen
  BY <1>3 DEF Popen, Group
<1>4. CASE BlockingReturns \/ Unlink
  BY <1>4 DEF BlockingReturns, Unlink
<1>5. CASE Bind
  BY <1>5 DEF Bind
<1>6. CASE SendTerm
  BY <1>6 DEF SendTerm
<1>7. CASE Kill
  BY <1>7 DEF Kill
<1>8. ASSUME NEW sig \in {"INT", "TERM", "HUP"}, Signal(sig) PROVE OnTypeOK' /\ mode' = mode
  <2>1. CASE SignalBlocking(sig)
    <3>1. /\ UNCHANGED <<mode, running, spawned>>
          /\ alive' \subseteq alive /\ files' \subseteq files \cup {spawned + 1}
      BY <2>1 DEF SignalBlocking
    <3> QED BY <3>1
  <2>2. CASE SignalRestart(sig)
    <3>1. /\ UNCHANGED <<mode, running, spawned, alive>>
          /\ files' \subseteq files \cup {spawned + 1}
      BY <2>2 DEF SignalRestart
    <3> QED BY <3>1
  <2>3. CASE SignalTerminating(sig)
    BY <2>3 DEF SignalTerminating
  <2> QED BY <1>8, <2>1, <2>2, <2>3 DEF Signal
<1>9. ASSUME NEW p \in (1..MaxCommands) \X {"leader", "helper"}, ProcessEnds(p)
       PROVE  OnTypeOK' /\ mode' = mode
  BY <1>9 DEF ProcessEnds
<1> QED BY <1>1, <1>2, <1>3, <1>4, <1>5, <1>6, <1>7, <1>8, <1>9 DEF OnNext

(* Below the last command nothing is left.                                 *)
LEMMA OnlyTheLast ==
  ASSUME OnTypeOK, RestartInv
  PROVE  alive \subseteq Group(spawned) /\ files \subseteq {spawned, spawned + 1}
<1>1. ASSUME NEW p \in alive PROVE p \in Group(spawned)
  <2>1. PICK k \in 1..spawned, r \in {"leader", "helper"} : p = <<k, r>>
    BY DEF OnTypeOK
  <2>2. p \in Group(k)
    BY <2>1 DEF Group
  <2>3. k \notin 1..spawned - 1
    BY <2>2, <1>1 DEF RestartInv
  <2>4. k = spawned
    BY <2>3 DEF OnTypeOK
  <2> QED BY <2>2, <2>4
<1>2. ASSUME NEW k \in files PROVE k \in {spawned, spawned + 1}
  BY DEF OnTypeOK, RestartInv
<1> QED BY <1>1, <1>2

(* Raised out of the loop with nothing known, or with the command known.   *)
LEMMA Unwound ==
  ASSUME NEW last, last # "spawn", Unwind(last)
  PROVE  \/ running = 0 /\ pc' = "done"
         \/ running # 0 /\ pc' = "term" /\ then' # "spawn"
BY DEF Unwind, Exit

LEMMA RestartStep ==
  ASSUME OnTypeOK, RestartInv, mode = "restart", OnNext
  PROVE  RestartInv'
<1>0. OnTypeOK' /\ alive \subseteq Group(spawned) /\ files \subseteq {spawned, spawned + 1}
  BY OnType, OnlyTheLast
<1>a. running = 0 /\ struck # "bind" /\ pc # "bind" => spawned = 0 /\ alive = {} /\ files \subseteq {1}
  BY <1>0 DEF RestartInv, OnTypeOK
<1> USE DEF RestartInv, OnTypeOK, children, onHistory, MaybeWritten
<1>1. CASE Acked
  <2>1. spawned = 0 /\ running = 0 /\ alive = {} /\ files = {}
    BY <1>1, <1>a DEF Acked
  <2>2. pc' \in {"wait", "done"} /\ UNCHANGED <<running, spawned, alive, files, struck, cut>>
    BY <1>1 DEF Acked, Exit
  <2> QED BY <1>1, <2>1, <2>2 DEF Acked
<1>2. CASE Matched
  <2>1. /\ pc = "wait" /\ UNCHANGED <<running, spawned, alive, files, struck, cut>>
        /\ \/ running = 0 /\ pc' = "write"
           \/ running # 0 /\ pc' = "term"
    BY <1>2 DEF Matched
  <2>2. running = 0 => alive = {} /\ spawned \notin files
    BY <2>1, <1>a
  <2> QED BY <2>1, <2>2
<1>3. CASE WaitEnds
  <2>1. PICK last \in {"124", "2", "1"} : Unwind(last)
    BY <1>3 DEF WaitEnds
  <2>2. pc = "wait" /\ UNCHANGED <<running, spawned, alive, files, struck, cut>>
    BY <1>3 DEF WaitEnds
  <2>3. running = 0 => alive = {} /\ files = {}
    BY <2>2, <1>a
  <2> QED BY <2>1, <2>2, <2>3, Unwound
<1>4. CASE WriteFile
  BY <1>4, <1>0 DEF WriteFile
<1>5. CASE WriteFails
  <2>1. pc = "write" /\ Unwind("1") /\ struck' = "write" /\ UNCHANGED <<running, spawned, alive, cut>>
        /\ files' \subseteq files \cup {spawned + 1}
    BY <1>5 DEF WriteFails
  <2> QED BY <2>1, Unwound
<1>6. CASE SpawnFails
  <2>1. pc = "popen" /\ Unwind("127") /\ files' = files \ {spawned + 1} /\ UNCHANGED <<running, spawned, alive, struck, cut>>
    BY <1>6 DEF SpawnFails
  <2>2. files' = {}
    BY <2>1, <1>0
  <2> QED BY <2>1, <2>2, Unwound
<1>7. CASE Popen
  <2>1. /\ pc = "popen" /\ spawned' = spawned + 1 /\ alive' = alive \cup Group(spawned')
        /\ pc' = "bind" /\ UNCHANGED <<running, files, struck, cut>>
    BY <1>7 DEF Popen
  <2>2. alive = {} /\ files \subseteq {spawned'}
    BY <2>1, <1>0
  <2>3. \A k \in 1..spawned' - 1 : Group(k) \cap alive' = {} /\ k \notin files'
    BY <2>1, <2>2 DEF Group
  <2> QED BY <2>1, <2>2, <2>3
<1>8. CASE BlockingReturns
  BY <1>8 DEF BlockingReturns
<1>9. CASE Bind
  BY <1>9 DEF Bind
<1>10. CASE SendTerm
  BY <1>10 DEF SendTerm
<1>11. CASE GraceEnds
  BY <1>11 DEF GraceEnds
<1>12. CASE Kill
  BY <1>12 DEF Kill
<1>13. CASE Unlink
  <2>1. pc = "unlink" /\ files' = files \ {running} /\ UNCHANGED <<running, spawned, alive, struck, cut>>
    BY <1>13 DEF Unlink
  <2>2. struck # "bind" => alive = {} /\ running = spawned /\ spawned \notin files'
    BY <2>1, <1>0
  <2>3. struck = "no" => files' = {}
    BY <2>1, <2>2, <1>0
  <2>4. CASE then = "spawn"
    <3>1. pc' = "write"
      BY <2>4, <1>13 DEF Unlink
    <3> QED BY <2>1, <2>2, <2>3, <2>4, <3>1
  <2>5. CASE then # "spawn"
    <3>1. pc' = "done"
      BY <2>5, <1>13 DEF Unlink, Exit
    <3> QED BY <2>1, <2>2, <2>3, <2>5, <3>1
  <2> QED BY <2>4, <2>5
<1>14. ASSUME NEW sig \in {"INT", "TERM", "HUP"}, Signal(sig) PROVE RestartInv'
  <2>1. SignalRestart(sig) \/ SignalTerminating(sig)
    BY <1>14 DEF Signal, SignalBlocking
  <2>2. Code(sig) # "spawn"
    BY DEF Code
  <2>3. CASE SignalRestart(sig)
    <3>1. /\ pc \in {"wait", "write", "popen", "bind"} /\ Unwind(Code(sig))
          /\ struck' = (IF pc = "wait" THEN struck ELSE pc)
          /\ files' \subseteq files \cup (IF pc = "write" THEN {spawned + 1} ELSE {})
          /\ UNCHANGED <<running, spawned, alive, cut>>
      BY <2>3 DEF SignalRestart
    <3>2. running = 0 /\ pc = "wait" => alive = {} /\ files' = {}
      BY <3>1, <1>a
    <3>3. CASE running = 0
      <4>1. pc' = "done" /\ (alive' # {} => struck' = "bind")
        BY <3>1, <3>3, <2>2, <1>0, <1>a, Unwound
      <4>2. files' # {} => struck' # "no"
        BY <3>1, <3>2, <3>3
      <4>3. spawned + 1 \in files' => struck' \in {"write", "popen"}
        BY <3>1, <3>2, <3>3
      <4>4. \A k \in 1..spawned - 1 : Group(k) \cap alive' = {} /\ k \notin files'
        BY <3>1
      <4> QED BY <4>1, <4>2, <4>3, <4>4, <3>1
    <3>4. CASE running # 0
      <4>1. pc' = "term" /\ then' # "spawn"
        BY <3>1, <3>4, <2>2, Unwound
      <4>2. spawned + 1 \in files' => struck' \in {"write", "popen"}
        BY <3>1
      <4>3. \A k \in 1..spawned - 1 : Group(k) \cap alive' = {} /\ k \notin files'
        BY <3>1
      <4> QED BY <4>1, <4>2, <4>3, <3>1, <3>4
    <3> QED BY <3>3, <3>4
  <2>4. CASE SignalTerminating(sig)
    <3>1. pc \in {"term", "grace", "kill", "unlink"} /\ UNCHANGED <<running, spawned, alive, struck>>
      BY <2>4 DEF SignalTerminating
    <3>2. CASE sig = "INT" /\ pc = "grace"
      BY <3>1, <3>2, <2>4 DEF SignalTerminating
    <3>3. CASE ~(sig = "INT" /\ pc = "grace")
      <4>1. files' \subseteq files /\ cut' = (then # "spawn")
        BY <3>3, <2>4 DEF SignalTerminating
      <4>2. CASE then = "spawn"
        <5>1. Unwind(Code(sig)) /\ ~cut'
          BY <4>1, <4>2, <3>3, <2>4 DEF SignalTerminating
        <5> QED BY <5>1, <4>1, <4>2, <3>1, <2>2, Unwound
      <4>3. CASE then # "spawn"
        <5>1. pc' = "done" /\ cut'
          BY <4>1, <4>3, <3>3, <2>4 DEF SignalTerminating, Exit
        <5> QED BY <5>1, <4>1, <3>1
      <4> QED BY <4>2, <4>3
    <3> QED BY <3>2, <3>3
  <2> QED BY <2>1, <2>3, <2>4
<1>15. ASSUME NEW p \in (1..MaxCommands) \X {"leader", "helper"}, ProcessEnds(p)
       PROVE  RestartInv'
  BY <1>15 DEF ProcessEnds
<1> QED BY <1>1, <1>2, <1>3, <1>4, <1>5, <1>6, <1>7, <1>8, <1>9, <1>10, <1>11, <1>12, <1>13, <1>14, <1>15 DEF OnNext

LEMMA OnStep == OnInv /\ [OnNext]_onVars => OnInv'
<1> SUFFICES ASSUME OnInv, [OnNext]_onVars PROVE OnInv'
  OBVIOUS
<1>1. CASE UNCHANGED onVars
  BY <1>1 DEF onVars, onHistory, children, OnInv, OnTypeOK, RestartInv
<1>2. CASE OnNext
  BY <1>2, OnType, RestartStep DEF OnInv
<1> QED BY <1>1, <1>2

(* `waitbus on --restart` never runs two commands at once, leader or       *)
(* helper, and never leaves a file of an earlier one, whatever is matched, *)
(* deaf, signalled or left behind; and what an exit leaves of the last one *)
(* was lost by a raise inside its spawn, or by one that cut the last       *)
(* termination short.                                                      *)
THEOREM OneAtATime == OnSpec => []OneCommandAtATime
<1>1. OnInv => OneCommandAtATime
  BY DEF OnInv, RestartInv, OneCommandAtATime
<1> QED BY <1>1, OnStarts, OnStep, PTL DEF OnSpec

-----------------------------------------------------------------------------
(* Soak: the daemons of a soak, for any number of samples and cycles.      *)

(* A daemon is suspended in its cycle or after an interrupt or error in    *)
(* it; none is alive where one is spawned or the verdict is due, and none  *)
(* at the end unless the teardown was kept from its end.                   *)
SoakInv ==
  /\ step \in {"start", "spawn", "judge"} => ~Alive
  /\ process = "stopped" =>
       \/ step = "stopped"
       \/ step \in {"finally", "wait"} /\ status # -1
       \/ step = "end" /\ cutOff \in {"killed", "again"}
  /\ step = "end" /\ Alive => cutOff # "no"

(* Only Reap and Sigkill end the teardown, and then no daemon is alive.    *)
LEMMA SoakStep == SoakInv /\ [SoakNext]_soakVars => SoakInv'
<1> SUFFICES ASSUME SoakInv, [SoakNext]_soakVars PROVE SoakInv'
  OBVIOUS
<1> USE DEF SoakInv, Alive, counts, loop, fate
<1>1. CASE UNCHANGED soakVars
  BY <1>1 DEF soakVars
<1>2. CASE SpawnDaemon \/ DaemonBinds \/ DaemonDies \/ DaemonReadsEof
  <2>1. CASE SpawnDaemon
    BY <2>1 DEF SpawnDaemon
  <2>2. CASE DaemonBinds \/ DaemonDies \/ DaemonReadsEof
    <3>1. UNCHANGED <<step, status, cutOff>> /\ Alive /\ process' # "stopped"
      BY <2>2 DEF DaemonBinds, DaemonDies, DaemonReadsEof
    <3> QED BY <3>1
  <2> QED BY <1>2, <2>1, <2>2
<1>3. CASE SkipSmoke \/ OpenProgress \/ StartSubscriber \/ Receive \/ ThreadEnds \/ AdvanceEmit
  BY <1>3 DEF SkipSmoke, OpenProgress, StartSubscriber, Receive, ThreadEnds, AdvanceEmit
<1>4. CASE SmokeProbes \/ SampleFails \/ Deadline \/ Raises
  <2>1. /\ process' = process /\ step' = "finally"
        /\ process = "stopped" => step = "stopped" /\ status' = 1
    BY <1>4 DEF SmokeProbes, SampleFails, Deadline, Raises, Gone
  <2> QED BY <2>1
<1>5. CASE DispatchProbe \/ StartCycle \/ Resume \/ EndCycle
  <2>1. /\ process' # "stopped" /\ step' \in {"run", "pre", "post", "finally"}
    BY <1>5 DEF DispatchProbe, StartCycle, Resume, EndCycle, Gone
  <2> QED BY <2>1
<1>6. CASE Suspend
  BY <1>6 DEF Suspend
<1>7. CASE OpenFails \/ Interrupted \/ Killed
  <2>1. process' = process /\ step' = "end" /\ cutOff' # "no"
    BY <1>7 DEF OpenFails, Interrupted, Killed
  <2>2. ASSUME process = "stopped" PROVE cutOff' \in {"killed", "again"}
    BY <1>7, <2>2 DEF OpenFails, Interrupted, Killed
  <2> QED BY <2>1, <2>2
<1>8. CASE Sigterm
  BY <1>8 DEF Sigterm
<1>9. CASE Reap \/ Sigkill
  <2>1. ~Alive' /\ process' # "stopped"
    BY <1>9 DEF Reap, Sigkill
  <2> QED BY <2>1
<1>10. CASE Judge
  BY <1>10 DEF Judge
<1> QED BY <1>1, <1>2, <1>3, <1>4, <1>5, <1>6, <1>7, <1>8, <1>9, <1>10 DEF SoakNext

(* However many samples and cycles, whatever raises, dies or interrupts    *)
(* the harness and its teardown: no daemon is spawned beside another, a    *)
(* teardown that comes to its end leaves none, and a suspended one is left *)
(* by a SIGKILL or a second interrupt only.                                *)
THEOREM NoneOutlivesTheSoak == SoakSpec => []NoDaemonLeft
<1>1. SoakInit => SoakInv
  BY DEF SoakInit, SoakInv, Alive
<1>2. SoakInv => NoDaemonLeft
  BY DEF SoakInv, NoDaemonLeft, Alive
<1> QED BY <1>1, <1>2, SoakStep, PTL DEF SoakSpec

-----------------------------------------------------------------------------
(* Stress: the windows, the drivers and the verdict of a stress sweep, for *)
(* any sweep.                                                              *)

(* What is known of a driver, if anything.                                 *)
DriverRecord ==
  [at : {"off", "import", "wait", "call", "emit", "mark", "gone"}, from : Nat,
   out : SUBSET {"early", "reacted"}, usage : Usages]

(* The controller's window, the ledger and the drivers.                    *)
StressTypeOK ==
  /\ window \in 1 .. Len(Sweep)
  /\ ledger \in Seq({"anchor", "seed"} \X Nat)
  /\ driver \in [Slots -> DriverRecord]
  /\ DOMAIN observed = 1 .. Len(Sweep)

(* No window is seeded before its turn, and its own only by Seed.          *)
Unseeded ==
  \A i \in 1 .. Len(ledger) :
    ledger[i][1] = "seed" => ledger[i][2] <= window
                             /\ (ctl \in {"window", "bind", "anchor", "spawn", "seed"} => ledger[i][2] < window)

(* Outside these a driver is one of a window that is over.                 *)
Running == ctl \in {"seed", "drain", "teardown"}
AllGone == Running \/ \A d \in Slots : DriverGone(d)

(* Every driver that was started remembers the ledger before the seed.     *)
Anchored ==
  ctl \in {"seed", "drain"} =>
    \A d \in Slots : driver[d].from <= Len(ledger)
                     /\ \A i \in SeedOf(window) : i > driver[d].from

(* What a driver says it did it has done.                                  *)
Marked ==
  ctl \in {"seed", "drain"} => \A d \in Slots : Is(d, "mark") \/ "reacted" \in driver[d].out => <<window, d>> \in reacted

Ended(w) == w < window \/ (w = window /\ ctl \in {"teardown", "end"})

EarnedIn(w) ==
  /\ SeedOf(w) # {}
  /\ \A d \in Drivers(Sweep[w]) : <<w, d>> \in reacted

(* What the windows of a real run that are over have shown, unless they    *)
(* failed; and the verdict is given on all of them.                        *)
Earned ==
  kind = "real" =>
    /\ ctl = "drain" => SeedOf(window) # {}
    /\ \A w \in 1 .. Len(Sweep) : Ended(w) => w \in failures \/ EarnedIn(w)
    /\ ctl = "end" => window = Len(Sweep)
    /\ code # -1 => ctl = "end"
    /\ code = 0 => failures = {} /\ Unclean = {}

(* What a sweep keeps from its first window to its verdict.                *)
StressInv ==
  /\ StressTypeOK
  /\ Unseeded
  /\ AllGone
  /\ Anchored
  /\ Marked
  /\ Earned

-----------------------------------------------------------------------------
(* A mix of n has at most n drivers: number those of one framework by the  *)
(* turns at which it was dealt.                                            *)

(* The framework the i-th driver is dealt, round robin.                    *)
Turn(i) == FRAMEWORK_ORDER[((i - 1) % Len(FRAMEWORK_ORDER)) + 1]
Turns(n, f) == {i \in 1 .. n : Turn(i) = f}

(* The mix of n drivers has as many of a framework as turns fell to it.    *)
LEMMA MixIsDealt ==
  ASSUME NEW n \in Nat, NEW f \in Frameworks
  PROVE  /\ Mix(n)[f] \in Nat
         /\ \E b : b \in Bijection(1 .. Mix(n)[f], Turns(n, f))
<1>1. Mix(n)[f] = Cardinality(Turns(n, f))
  BY DEF Mix, Turns, Turn
<1>2. IsFiniteSet(1 .. n)
  BY FS_Interval
<1>3. Turns(n, f) \in SUBSET (1 .. n)
  BY DEF Turns
<1>4. IsFiniteSet(Turns(n, f))
  BY <1>2, <1>3, FS_Subset
<1>5. Cardinality(Turns(n, f)) \in Nat
  BY <1>4, FS_CardinalityType
<1>6. ExistsBijection(1 .. Cardinality(Turns(n, f)), Turns(n, f))
  BY <1>4, FS_CardinalityType
<1> QED BY <1>1, <1>5, <1>6 DEF ExistsBijection

(* So no more drivers are spawned in a window of n than n, and a reaction  *)
(* counted for each of them is all of them.                                *)
LEMMA DriversBounded ==
  ASSUME NEW n \in Nat
  PROVE  IsFiniteSet(Drivers(n)) /\ Cardinality(Drivers(n)) <= n
<1> DEFINE b == [f \in Frameworks |-> CHOOSE g : g \in Bijection(1 .. Mix(n)[f], Turns(n, f))]
           h == [d \in Drivers(n) |-> b[d[1]][d[2]]]
<1>1. \A f \in Frameworks : b[f] \in Bijection(1 .. Mix(n)[f], Turns(n, f))
  BY MixIsDealt
<1> HIDE DEF b
<1>2. ASSUME NEW d \in Drivers(n)
      PROVE  /\ d[1] \in Frameworks /\ d[2] \in 1 .. Mix(n)[d[1]]
             /\ h[d] \in 1 .. n /\ Turn(h[d]) = d[1]
  <2>1. d \in Frameworks \X (1 .. n) /\ d[2] <= Mix(n)[d[1]]
    BY DEF Drivers
  <2>2. d[1] \in Frameworks /\ d[2] \in 1 .. n
    BY <2>1
  <2>3. Mix(n)[d[1]] \in Nat
    BY <2>2, MixIsDealt
  <2>4. d[2] \in 1 .. Mix(n)[d[1]]
    BY <2>1, <2>2, <2>3
  <2>5. b[d[1]][d[2]] \in Turns(n, d[1])
    BY <1>1, <2>2, <2>4 DEF Bijection, Surjection, Injection
  <2> QED BY <2>2, <2>4, <2>5 DEF Turns
<1>3. ASSUME NEW d \in Drivers(n), NEW e \in Drivers(n), h[d] = h[e]
      PROVE  d = e
  <2>1. d[1] = e[1]
    BY <1>2, <1>3
  <2>2. b[d[1]] \in Injection(1 .. Mix(n)[d[1]], Turns(n, d[1]))
    BY <1>1, <1>2 DEF Bijection
  <2>3. b[d[1]][d[2]] = b[d[1]][e[2]]
    BY <1>3, <2>1
  <2>4. d[2] = e[2]
    BY <1>2, <2>1, <2>2, <2>3 DEF Injection, IsInjective
  <2>5. d = <<d[1], d[2]>> /\ e = <<e[1], e[2]>>
    BY DEF Drivers
  <2> QED BY <2>1, <2>4, <2>5
<1>4. h \in Injection(Drivers(n), 1 .. n)
  <2>1. h \in [Drivers(n) -> 1 .. n]
    BY <1>2
  <2>2. \A d, e \in Drivers(n) : h[d] = h[e] => d = e
    BY <1>3
  <2>3. DOMAIN h = Drivers(n)
    OBVIOUS
  <2> HIDE DEF h
  <2> QED BY <2>1, <2>2, <2>3 DEF Injection, IsInjective
<1>5. IsFiniteSet(1 .. n) /\ Cardinality(1 .. n) = n
  BY FS_Interval
<1> QED BY <1>4, <1>5, FS_Injection

(* So a window whose n reactions were counted has heard all its drivers.   *)
LEMMA ProvenIsAll ==
  ASSUME window \in 1 .. Len(Sweep), NEW seen \in SUBSET Here, Proven(seen)
  PROVE  seen = Here
<1>1. Sweep[window] \in Nat
  BY StressAssumption
<1>2. IsFiniteSet(Here) /\ Cardinality(Here) <= Sweep[window]
  BY <1>1, DriversBounded DEF Here
<1>3. Cardinality(seen) = Sweep[window]
  BY DEF Proven
<1>4. Cardinality(seen) <= Cardinality(Here) /\ (Cardinality(Here) = Cardinality(seen) => Here = seen)
  BY <1>2, FS_Subset
<1>5. Cardinality(Here) \in Nat
  BY <1>2, FS_CardinalityType
<1> QED BY <1>1, <1>2, <1>3, <1>4, <1>5

-----------------------------------------------------------------------------
LEMMA HereIsSlots == window \in 1 .. Len(Sweep) => Here \subseteq Slots
  BY DEF Here, Slots

LEMMA SlotsOfWindow == \A w \in 1 .. Len(Sweep) : Drivers(Sweep[w]) \subseteq Slots
  BY DEF Slots

LEMMA Appended ==
  ASSUME NEW S, NEW s \in Seq(S), NEW x \in S
  PROVE  /\ Append(s, x) \in Seq(S)
         /\ Len(Append(s, x)) = Len(s) + 1
         /\ \A i \in 1 .. Len(s) : Append(s, x)[i] = s[i]
         /\ Append(s, x)[Len(s) + 1] = x
  BY AppendProperties

(* A step of the daemon alone changes nothing the invariant reads.         *)
LEMMA DaemonKeeps ==
  StressInv /\ UNCHANGED <<kind, ctl, window, ledger, reacted, driver, verdict>> => StressInv'
<1> SUFFICES ASSUME StressInv, UNCHANGED <<kind, ctl, window, ledger, reacted, driver, verdict>>
             PROVE  StressInv'
  OBVIOUS
<1> USE DEF verdict
<1>1. StressTypeOK'
  BY DEF StressInv, StressTypeOK
<1>2. Unseeded'
  BY DEF StressInv, Unseeded
<1>3. AllGone' /\ Anchored' /\ Marked'
  BY DEF StressInv, AllGone, Running, DriverGone, Anchored, Marked, SeedOf, Is
<1>4. Earned'
  BY DEF StressInv, Earned, EarnedIn, Ended, Unclean, SeedOf
<1> QED BY <1>1, <1>2, <1>3, <1>4 DEF StressInv

(* What a driver process, or its end, may change.                          *)
DriverStep(d) ==
  /\ DriverOnly
  /\ reacted \subseteq reacted'
  /\ \E r \in DriverRecord :
       /\ driver' = [driver EXCEPT ![d] = r]
       /\ r.from = driver[d].from
       /\ r.at # "off" /\ ~DriverGone(d)
       /\ r.at = "mark" \/ "reacted" \in r.out =>
            <<window, d>> \in reacted' \/ Is(d, "mark") \/ "reacted" \in driver[d].out

(* Every step of a driver is such a change.                                *)
LEMMA DriverSteps ==
  ASSUME StressInv, NEW d \in Slots,
         DriverSubscribes(d) \/ Wake(d) \/ CliCall(d) \/ LibraryCall(d)
         \/ EmitReaction(d) \/ Mark(d) \/ DriverExits(d) \/ DrainEnds(d)
  PROVE  DriverStep(d)
<1>1. driver[d] \in DriverRecord
  BY DEF StressInv, StressTypeOK
<1>2. driver[d].at \in {"off", "import", "wait", "call", "emit", "mark", "gone"} /\ driver[d].from \in Nat
      /\ driver[d].out \in SUBSET {"early", "reacted"} /\ driver[d].usage \in Usages
  BY <1>1 DEF DriverRecord
<1> USE <1>1, <1>2
<1> DEFINE with(r) == driver' = [driver EXCEPT ![d] = r]
<1>3. CASE DriverSubscribes(d)
  <2> DEFINE r == [driver[d] EXCEPT !.at = "wait"]
  <2>1. r \in DriverRecord /\ r.from = driver[d].from /\ r.at = "wait" /\ r.out = driver[d].out
    BY DEF DriverRecord
  <2>2. with(r) /\ DriverOnly /\ reacted' = reacted /\ ~DriverGone(d)
    BY <1>3 DEF DriverSubscribes, Move, Is, DriverGone
  <2> HIDE DEF r
  <2> QED BY <2>1, <2>2 DEF DriverStep
<1>4. CASE Wake(d)
  <2> DEFINE r == [driver[d] EXCEPT !.at = "call", !.out = @ \cup {"early"}]
  <2>1. r \in DriverRecord /\ r.from = driver[d].from /\ r.at = "call" /\ r.out = driver[d].out \cup {"early"}
    BY DEF DriverRecord
  <2>2. with(r) /\ DriverOnly /\ reacted' = reacted /\ ~DriverGone(d)
    BY <1>4 DEF Wake, Move, Is, DriverGone
  <2> HIDE DEF r
  <2> QED BY <2>1, <2>2 DEF DriverStep
<1>5. CASE CliCall(d) \/ LibraryCall(d)
  <2>1. PICK u \in Usages : with([driver[d] EXCEPT !.at = "emit", !.usage = u])
    BY <1>5 DEF CliCall, LibraryCall, Move, Usages
  <2> DEFINE r == [driver[d] EXCEPT !.at = "emit", !.usage = u]
  <2>2. r \in DriverRecord /\ r.from = driver[d].from /\ r.at = "emit" /\ r.out = driver[d].out
    BY DEF DriverRecord
  <2>3. with(r) /\ DriverOnly /\ reacted' = reacted /\ ~DriverGone(d)
    BY <1>5, <2>1 DEF CliCall, LibraryCall, Is, DriverGone
  <2> HIDE DEF r
  <2> QED BY <2>2, <2>3 DEF DriverStep
<1>6. CASE EmitReaction(d)
  <2> DEFINE r == [driver[d] EXCEPT !.at = "mark"]
  <2>1. r \in DriverRecord /\ r.from = driver[d].from /\ r.at = "mark" /\ r.out = driver[d].out
    BY DEF DriverRecord
  <2>2. with(r) /\ DriverOnly /\ reacted' = reacted \cup {<<window, d>>} /\ ~DriverGone(d)
    BY <1>6 DEF EmitReaction, Move, Is, DriverGone
  <2> HIDE DEF r
  <2> QED BY <2>1, <2>2 DEF DriverStep
<1>7. CASE Mark(d)
  <2> DEFINE r == [driver[d] EXCEPT !.at = "gone", !.out = @ \cup {"reacted"}]
  <2>1. r \in DriverRecord /\ r.from = driver[d].from /\ r.at = "gone"
    BY DEF DriverRecord
  <2>2. with(r) /\ DriverOnly /\ reacted' = reacted /\ ~DriverGone(d) /\ Is(d, "mark")
    BY <1>7 DEF Mark, Move, Is, DriverGone
  <2> HIDE DEF r
  <2> QED BY <2>1, <2>2 DEF DriverStep
<1>8. CASE DriverExits(d)
  <2> DEFINE r == [driver[d] EXCEPT !.at = "gone"]
  <2>1. r \in DriverRecord /\ r.from = driver[d].from /\ r.at = "gone" /\ r.out = driver[d].out
    BY DEF DriverRecord
  <2>2. with(r) /\ DriverOnly /\ reacted' = reacted /\ ~DriverGone(d)
    BY <1>8 DEF DriverExits, Move
  <2> HIDE DEF r
  <2> QED BY <2>1, <2>2 DEF DriverStep
<1>9. CASE DrainEnds(d)
  <2>1. PICK out \in {driver[d].out, {}} : with([driver[d] EXCEPT !.at = "gone", !.out = out])
    BY <1>9 DEF DrainEnds, Move
  <2> DEFINE r == [driver[d] EXCEPT !.at = "gone", !.out = out]
  <2>2. r \in DriverRecord /\ r.from = driver[d].from /\ r.at = "gone" /\ r.out \subseteq driver[d].out
    BY <2>1 DEF DriverRecord
  <2>3. with(r) /\ DriverOnly /\ reacted' = reacted /\ ~DriverGone(d)
    BY <1>9, <2>1 DEF DrainEnds
  <2> HIDE DEF r
  <2> QED BY <2>2, <2>3 DEF DriverStep
<1> QED BY <1>3, <1>4, <1>5, <1>6, <1>7, <1>8, <1>9

(* A driver's step, or its end, keeps the invariant: it marks only what it *)
(* has done.                                                               *)
LEMMA DriverKeeps ==
  ASSUME StressInv, NEW d \in Slots, DriverStep(d)
  PROVE  StressInv'
<1>1. UNCHANGED <<kind, ctl, window, ledger, observed, failures, code>> /\ reacted \subseteq reacted'
  BY DEF DriverStep, DriverOnly, verdict
<1>2. PICK r \in DriverRecord :
        /\ driver' = [driver EXCEPT ![d] = r]
        /\ r.from = driver[d].from
        /\ r.at # "off" /\ ~DriverGone(d)
        /\ r.at = "mark" \/ "reacted" \in r.out =>
             <<window, d>> \in reacted' \/ Is(d, "mark") \/ "reacted" \in driver[d].out
  BY DEF DriverStep
<1>3. driver \in [Slots -> DriverRecord]
  BY DEF StressInv, StressTypeOK
<1>4. /\ driver' \in [Slots -> DriverRecord] /\ driver'[d] = r
      /\ \A e \in Slots \ {d} : driver'[e] = driver[e]
  BY <1>2, <1>3
<1>5. StressTypeOK'
  BY <1>1, <1>4 DEF StressInv, StressTypeOK
<1>6. Unseeded'
  BY <1>1 DEF StressInv, Unseeded
<1>7. AllGone'
  BY <1>1, <1>2 DEF StressInv, AllGone, Running
<1>8. \A e \in Slots : driver'[e].from = driver[e].from
  BY <1>2, <1>4
<1>9. Anchored'
  BY <1>1, <1>8 DEF StressInv, Anchored, SeedOf
<1>10. Marked'
  BY <1>1, <1>2, <1>4 DEF StressInv, Marked, Is
<1>11. Earned'
  BY <1>1 DEF StressInv, Earned, EarnedIn, Ended, Unclean, SeedOf
<1> QED BY <1>5, <1>6, <1>7, <1>9, <1>10, <1>11 DEF StressInv

(* The controller between windows, or before the seed: nothing that was    *)
(* earned is touched.                                                      *)
LEMMA ApproachKeeps == StressInv /\ (OpenWindow \/ SeesSocket \/ WindowRaises) => StressInv'
<1> SUFFICES ASSUME StressInv, OpenWindow \/ SeesSocket \/ WindowRaises PROVE StressInv'
  OBVIOUS
<1>1. /\ UNCHANGED <<kind, window, ledger, reacted, driver, observed>>
      /\ ctl \in {"window", "bind", "anchor", "spawn", "seed"}
      /\ \/ ctl' \in {"bind", "anchor", "spawn"} /\ ctl \in {"window", "bind"} /\ UNCHANGED <<failures, code>>
         \/ /\ ctl' = "teardown" /\ failures' = failures \cup {window}
            /\ kind = "real" => code' = code
  BY DEF OpenWindow, SeesSocket, WindowRaises, At, Goto, verdict
<1>2. StressTypeOK'
  BY <1>1 DEF StressInv, StressTypeOK
<1>3. Unseeded'
  BY <1>1 DEF StressInv, Unseeded
<1>4. AllGone' /\ Anchored' /\ Marked'
  BY <1>1 DEF StressInv, AllGone, Running, DriverGone, Anchored, Marked, SeedOf, Is
<1>5. Earned'
  <2> SUFFICES ASSUME kind' = "real" PROVE Earned'
    BY DEF Earned
  <2>1. kind = "real" /\ code = -1 /\ code' = -1
    BY <1>1 DEF StressInv, Earned
  <2>2. ctl' # "drain" /\ ctl' # "end"
    BY <1>1
  <2>3. ASSUME NEW w \in 1 .. Len(Sweep), Ended(w)' PROVE w \in failures' \/ EarnedIn(w)'
    <3>1. Ended(w) \/ (w = window /\ ctl' = "teardown")
      BY <1>1, <2>3 DEF Ended
    <3>2. CASE Ended(w)
      BY <1>1, <2>1, <3>2 DEF StressInv, Earned, EarnedIn, SeedOf
    <3> QED BY <1>1, <3>1, <3>2
  <2> QED BY <1>1, <2>1, <2>2, <2>3 DEF Earned
<1> QED BY <1>2, <1>3, <1>4, <1>5 DEF StressInv

(* A row appended to the ledger leaves the seeds that are in it.           *)
LEMMA SeedsGrow ==
  ASSUME StressInv, NEW what \in {"anchor", "seed"}, ledger' = Append(ledger, <<what, window>>)
  PROVE  /\ ledger' \in Seq({"anchor", "seed"} \X Nat)
         /\ Len(ledger) \in Nat /\ Len(ledger') = Len(ledger) + 1
         /\ \A i \in 1 .. Len(ledger) : ledger'[i] = ledger[i]
         /\ ledger'[Len(ledger) + 1] = <<what, window>>
         /\ \A w : SeedOf(w) \subseteq SeedOf(w)'
<1>1. ledger \in Seq({"anchor", "seed"} \X Nat) /\ window \in Nat
  BY StressAssumption DEF StressInv, StressTypeOK
<1>2. <<what, window>> \in {"anchor", "seed"} \X Nat
  BY <1>1
<1>3. /\ ledger' \in Seq({"anchor", "seed"} \X Nat)
      /\ Len(ledger) \in Nat /\ Len(ledger') = Len(ledger) + 1
      /\ \A i \in 1 .. Len(ledger) : ledger'[i] = ledger[i]
      /\ ledger'[Len(ledger) + 1] = <<what, window>>
  BY <1>1, <1>2, Appended
<1>4. \A w : SeedOf(w) \subseteq SeedOf(w)'
  BY <1>3 DEF SeedOf
<1> QED BY <1>3, <1>4

LEMMA EarnedMonotone ==
  ASSUME StressInv, NEW w \in 1 .. Len(Sweep), EarnedIn(w),
         SeedOf(w) \subseteq SeedOf(w)', reacted \subseteq reacted'
  PROVE  EarnedIn(w)'
  BY DEF EarnedIn

LEMMA AnchorKeeps == StressInv /\ Anchor => StressInv'
<1> SUFFICES ASSUME StressInv, Anchor PROVE StressInv'
  OBVIOUS
<1>1. /\ UNCHANGED <<kind, window, reacted, driver, observed, failures, code>>
      /\ ctl = "anchor" /\ ctl' = "spawn" /\ ledger' = Append(ledger, <<"anchor", window>>)
  BY DEF Anchor, At, Goto, verdict
<1>2. /\ ledger' \in Seq({"anchor", "seed"} \X Nat)
      /\ Len(ledger) \in Nat /\ Len(ledger') = Len(ledger) + 1
      /\ \A i \in 1 .. Len(ledger) : ledger'[i] = ledger[i]
      /\ ledger'[Len(ledger) + 1] = <<"anchor", window>>
      /\ \A w : SeedOf(w) \subseteq SeedOf(w)'
  BY <1>1, SeedsGrow
<1>3. StressTypeOK'
  BY <1>1, <1>2 DEF StressInv, StressTypeOK
<1>4. Unseeded'
  <2>1. ASSUME NEW i \in 1 .. Len(ledger'), ledger'[i][1] = "seed" PROVE ledger'[i][2] < window'
    <3>1. i \in 1 .. Len(ledger)
      BY <1>2, <2>1
    <3> QED BY <1>1, <1>2, <2>1, <3>1 DEF StressInv, Unseeded
  <2>2. ASSUME NEW i \in 1 .. Len(ledger') PROVE ledger'[i][2] \in Int
    BY <1>2
  <2> QED BY <1>1, <2>1, <2>2, StressAssumption DEF StressInv, StressTypeOK, Unseeded
<1>5. AllGone' /\ Anchored' /\ Marked'
  BY <1>1 DEF StressInv, AllGone, Running, DriverGone, Anchored, Marked
<1>6. Earned'
  <2> SUFFICES ASSUME kind' = "real" PROVE Earned'
    BY DEF Earned
  <2>1. kind = "real" /\ code = -1 /\ code' = -1
    BY <1>1 DEF StressInv, Earned
  <2>2. ASSUME NEW w \in 1 .. Len(Sweep), Ended(w)' PROVE w \in failures' \/ EarnedIn(w)'
    BY <1>1, <1>2, <2>1, <2>2, EarnedMonotone DEF StressInv, Earned, Ended
  <2> QED BY <1>1, <2>1, <2>2 DEF Earned
<1> QED BY <1>3, <1>4, <1>5, <1>6 DEF StressInv

(* Spawn anchors the driver at the ledger as it is then.                   *)
LEMMA SpawnKeeps == StressInv /\ Spawn => StressInv'
<1> SUFFICES ASSUME StressInv, Spawn PROVE StressInv'
  OBVIOUS
<1> DEFINE started == [NotStarted EXCEPT !.at = "import", !.from = Len(ledger)]
<1>1. /\ UNCHANGED <<kind, window, reacted, ledger, observed, failures, code>>
      /\ ctl = "spawn" /\ ctl' = (IF kind = "real" THEN "seed" ELSE "teardown")
      /\ driver' = [d \in Slots |-> IF d \in Here THEN started ELSE NotStarted]
  BY DEF Spawn, At, Goto, verdict
<1>2. Len(ledger) \in Nat
  BY DEF StressInv, StressTypeOK
<1>3. /\ started \in DriverRecord /\ started.from = Len(ledger) /\ started.out = {} /\ started.at = "import"
      /\ NotStarted \in DriverRecord /\ NotStarted.from = 0 /\ NotStarted.out = {} /\ NotStarted.at = "off"
  BY <1>2 DEF DriverRecord, NotStarted, Usages
<1> HIDE DEF started
<1>4. \A d \in Slots : driver'[d] = started \/ driver'[d] = NotStarted
  BY <1>1
<1>5. driver' \in [Slots -> DriverRecord]
  BY <1>1, <1>3
<1>6. StressTypeOK'
  BY <1>1, <1>5 DEF StressInv, StressTypeOK
<1>7. Unseeded'
  BY <1>1 DEF StressInv, Unseeded
<1>8. SeedOf(window) = {}
  <2> SUFFICES ASSUME NEW i \in 1 .. Len(ledger), ledger[i] = <<"seed", window>> PROVE FALSE
    BY DEF SeedOf
  <2>1. ledger[i][1] = "seed" /\ ledger[i][2] = window /\ window \in Int
    BY DEF StressInv, StressTypeOK
  <2> QED BY <1>1, <2>1 DEF StressInv, Unseeded
<1>9. AllGone'
  BY <1>1 DEF AllGone, Running
<1>10. Anchored'
  <2>1. SeedOf(window)' = {}
    BY <1>1, <1>8 DEF SeedOf
  <2> QED BY <1>1, <1>2, <1>3, <1>4, <2>1 DEF Anchored
<1>11. Marked'
  BY <1>3, <1>4 DEF Marked, Is
<1>12. Earned'
  <2> SUFFICES ASSUME kind' = "real" PROVE Earned'
    BY DEF Earned
  <2>1. kind = "real" /\ code = -1 /\ code' = -1 /\ ctl' = "seed"
    BY <1>1 DEF StressInv, Earned
  <2>2. ASSUME NEW w \in 1 .. Len(Sweep), Ended(w)' PROVE w \in failures' \/ EarnedIn(w)'
    BY <1>1, <2>1, <2>2 DEF StressInv, Earned, Ended, EarnedIn, SeedOf
  <2> QED BY <1>1, <2>1, <2>2 DEF Earned
<1> QED BY <1>6, <1>7, <1>9, <1>10, <1>11, <1>12 DEF StressInv

(* The seed is a new row: it lies above the anchor of every driver.        *)
LEMMA SeedKeeps == StressInv /\ Seed => StressInv'
<1> SUFFICES ASSUME StressInv, Seed PROVE StressInv'
  OBVIOUS
<1>1. /\ UNCHANGED <<kind, window, reacted, driver, observed, failures, code>>
      /\ ctl = "seed" /\ ctl' = "drain" /\ ledger' = Append(ledger, <<"seed", window>>)
  BY DEF Seed, At, Goto, verdict
<1>2. /\ ledger' \in Seq({"anchor", "seed"} \X Nat)
      /\ Len(ledger) \in Nat /\ Len(ledger') = Len(ledger) + 1
      /\ \A i \in 1 .. Len(ledger) : ledger'[i] = ledger[i]
      /\ ledger'[Len(ledger) + 1] = <<"seed", window>>
      /\ \A w : SeedOf(w) \subseteq SeedOf(w)'
  BY <1>1, SeedsGrow
<1>3. StressTypeOK'
  BY <1>1, <1>2 DEF StressInv, StressTypeOK
<1>4. Unseeded'
  <2>1. ASSUME NEW i \in 1 .. Len(ledger'), ledger'[i][1] = "seed" PROVE ledger'[i][2] <= window'
    <3>1. CASE i \in 1 .. Len(ledger)
      BY <1>1, <1>2, <2>1, <3>1 DEF StressInv, Unseeded
    <3>2. CASE i = Len(ledger) + 1
      BY <1>1, <1>2, <3>2, StressAssumption DEF StressInv, StressTypeOK
    <3> QED BY <1>2, <3>1, <3>2
  <2> QED BY <1>1, <2>1 DEF Unseeded
<1>5. AllGone'
  BY <1>1 DEF AllGone, Running
<1>6. Anchored'
  <2>1. \A i \in SeedOf(window)' : i > Len(ledger)
    BY SMTT(20), <1>1, <1>2 DEF StressInv, Unseeded, SeedOf
  <2>2. \A d \in Slots : driver[d].from \in Nat /\ driver[d].from <= Len(ledger)
    BY <1>1 DEF StressInv, StressTypeOK, DriverRecord, Anchored
  <2>3. SeedOf(window)' \subseteq Nat
    BY <1>2 DEF SeedOf
  <2>4. \A d \in Slots : \A i \in SeedOf(window)' : i > driver[d].from
    BY <1>2, <2>1, <2>2, <2>3
  <2> QED BY <1>1, <1>2, <2>2, <2>4 DEF Anchored
<1>7. Marked'
  BY <1>1 DEF StressInv, Marked, Is
<1>8. Earned'
  <2> SUFFICES ASSUME kind' = "real" PROVE Earned'
    BY DEF Earned
  <2>1. kind = "real" /\ code = -1 /\ code' = -1
    BY <1>1 DEF StressInv, Earned
  <2>2. ASSUME NEW w \in 1 .. Len(Sweep), Ended(w)' PROVE w \in failures' \/ EarnedIn(w)'
    BY <1>1, <1>2, <2>1, <2>2, EarnedMonotone DEF StressInv, Earned, Ended
  <2>3. Len(ledger) + 1 \in SeedOf(window)'
    BY <1>1, <1>2 DEF SeedOf
  <2> QED BY <1>1, <2>1, <2>2, <2>3 DEF Earned
<1> QED BY <1>3, <1>4, <1>5, <1>6, <1>7, <1>8 DEF StressInv

(* A window that is counted as proven has heard every driver.              *)
LEMMA CollectKeeps == StressInv /\ Collect => StressInv'
<1> SUFFICES ASSUME StressInv, Collect PROVE StressInv'
  OBVIOUS
<1>1. /\ UNCHANGED <<kind, window, reacted, driver, ledger, code>>
      /\ ctl = "drain" /\ ctl' = "teardown"
      /\ observed' = [observed EXCEPT ![window] = {<<d, driver[d].usage>> : d \in Counted}]
      /\ failures' = IF Proven(Counted) THEN failures ELSE failures \cup {window}
  BY DEF Collect, At, Goto
<1>2. StressTypeOK'
  <2>1. DOMAIN observed' = DOMAIN observed
    BY <1>1
  <2> QED BY <1>1, <2>1 DEF StressInv, StressTypeOK
<1>3. Unseeded'
  BY <1>1 DEF StressInv, Unseeded
<1>4. AllGone' /\ Anchored' /\ Marked'
  BY <1>1 DEF AllGone, Running, Anchored, Marked
<1>5. Earned'
  <2> SUFFICES ASSUME kind' = "real" PROVE Earned'
    BY DEF Earned
  <2>1. kind = "real" /\ code = -1 /\ code' = -1
    BY <1>1 DEF StressInv, Earned
  <2>2. Proven(Counted) => EarnedIn(window)
    <3> SUFFICES ASSUME Proven(Counted) PROVE EarnedIn(window)
      OBVIOUS
    <3>1. window \in 1 .. Len(Sweep)
      BY DEF StressInv, StressTypeOK
    <3>2. Counted = Here
      BY <3>1, ProvenIsAll DEF Counted
    <3>3. \A d \in Here : "reacted" \in driver[d].out
      BY <3>2 DEF Counted
    <3>4. \A d \in Here : <<window, d>> \in reacted
      BY <1>1, <3>1, <3>3, HereIsSlots DEF StressInv, Marked
    <3> QED BY <1>1, <2>1, <3>4 DEF StressInv, Earned, EarnedIn, Here
  <2>3. \A w \in 1 .. Len(Sweep) : EarnedIn(w) => EarnedIn(w)'
    BY <1>1 DEF EarnedIn, SeedOf
  <2>4. ASSUME NEW w \in 1 .. Len(Sweep), Ended(w)' PROVE w \in failures' \/ EarnedIn(w)'
    <3>1. CASE w = window
      BY <1>1, <2>2, <2>3, <3>1
    <3>2. CASE w < window
      BY <1>1, <2>1, <2>3, <3>2 DEF StressInv, Earned, Ended
    <3> QED BY <1>1, <2>4, <3>1, <3>2 DEF Ended
  <2> QED BY <1>1, <2>1, <2>4 DEF Earned
<1> QED BY <1>2, <1>3, <1>4, <1>5 DEF StressInv

LEMMA TeardownKeeps == StressInv /\ Teardown => StressInv'
<1> SUFFICES ASSUME StressInv, Teardown PROVE StressInv'
  OBVIOUS
<1> DEFINE last == window = Len(Sweep) \/ code # -1
<1>1. /\ UNCHANGED <<kind, reacted, ledger, observed, failures, code>>
      /\ ctl = "teardown" /\ ctl' = (IF last THEN "end" ELSE "window")
      /\ window' = IF last THEN window ELSE window + 1
      /\ driver' = [d \in Slots |-> IF DriverGone(d) THEN driver[d] ELSE [driver[d] EXCEPT !.at = "gone"]]
  BY DEF Teardown, At, Goto, verdict
<1>2. window \in 1 .. Len(Sweep) /\ Len(Sweep) \in Nat /\ driver \in [Slots -> DriverRecord]
  BY StressAssumption DEF StressInv, StressTypeOK
<1>3. \A d \in Slots : [driver[d] EXCEPT !.at = "gone"] \in DriverRecord /\ [driver[d] EXCEPT !.at = "gone"].at = "gone"
  BY <1>2 DEF DriverRecord
<1>4. driver' \in [Slots -> DriverRecord]
  BY <1>1, <1>2, <1>3
<1>5. \A d \in Slots : driver'[d].at \in {"off", "gone"}
  BY <1>1, <1>3 DEF DriverGone
<1>6. StressTypeOK'
  BY <1>1, <1>2, <1>4 DEF StressInv, StressTypeOK
<1>7. Unseeded'
  <2>1. ASSUME NEW i \in 1 .. Len(ledger), ledger[i][1] = "seed"
        PROVE  ledger[i][2] <= window' /\ (ctl' = "window" => ledger[i][2] < window')
    <3>1. ledger[i][2] <= window /\ ledger[i][2] \in Nat
      BY <2>1 DEF StressInv, StressTypeOK, Unseeded
    <3> QED BY <1>1, <1>2, <3>1
  <2> QED BY <1>1, <2>1 DEF Unseeded
<1>8. AllGone'
  BY <1>5 DEF AllGone, DriverGone
<1>9. Anchored' /\ Marked'
  BY <1>1 DEF Anchored, Marked
<1>10. Earned'
  <2> SUFFICES ASSUME kind' = "real" PROVE Earned'
    BY DEF Earned
  <2>1. kind = "real" /\ code = -1 /\ code' = -1
    BY <1>1 DEF StressInv, Earned
  <2>2. ASSUME NEW w \in 1 .. Len(Sweep), Ended(w)' PROVE w \in failures' \/ EarnedIn(w)'
    <3>1. Ended(w)
      BY <1>1, <1>2, <2>2 DEF Ended
    <3> QED BY <1>1, <2>1, <3>1 DEF StressInv, Earned, EarnedIn, SeedOf
  <2> QED BY <1>1, <2>1, <2>2 DEF Earned
<1> QED BY <1>6, <1>7, <1>8, <1>9, <1>10 DEF StressInv

LEMMA JudgeKeeps == StressInv /\ JudgeSweep => StressInv'
<1> SUFFICES ASSUME StressInv, JudgeSweep PROVE StressInv'
  OBVIOUS
<1>1. /\ UNCHANGED <<kind, ctl, window, ledger, reacted, driver, observed, failures>> /\ ctl = "end"
      /\ code' = 0 => failures = {} /\ Unclean = {}
  BY DEF JudgeSweep, At
<1>2. StressTypeOK' /\ Unseeded'
  BY <1>1 DEF StressInv, StressTypeOK, Unseeded
<1>3. AllGone' /\ Anchored' /\ Marked'
  BY <1>1 DEF StressInv, AllGone, Running, DriverGone, Anchored, Marked
<1>4. Earned'
  BY <1>1 DEF StressInv, Earned, EarnedIn, Ended, Unclean, SeedOf
<1> QED BY <1>2, <1>3, <1>4 DEF StressInv

LEMMA StressStarts == StressInit => StressInv
<1> SUFFICES ASSUME StressInit PROVE StressInv
  OBVIOUS
<1>1. NotStarted \in DriverRecord /\ NotStarted.at = "off"
  BY DEF NotStarted, DriverRecord, Usages
<1>2. StressTypeOK
  BY <1>1, StressAssumption DEF StressInit, StressTypeOK
<1>3. Unseeded /\ AllGone /\ Anchored /\ Marked
  BY <1>1 DEF StressInit, Unseeded, AllGone, DriverGone, Anchored, Marked
<1>4. Earned
  <2>1. \A w \in 1 .. Len(Sweep) : ~Ended(w)
    BY DEF StressInit, Ended
  <2> QED BY <2>1 DEF StressInit, Earned
<1> QED BY <1>2, <1>3, <1>4 DEF StressInv

LEMMA StressInvariance == StressSpec => []StressInv
<1>1. StressInv /\ [StressNext]_stressVars => StressInv'
  <2> SUFFICES ASSUME StressInv, [StressNext]_stressVars PROVE StressInv'
    OBVIOUS
  <2>1. CASE UNCHANGED stressVars \/ WindowDaemonBinds \/ WindowDaemonDies
    BY <2>1, DaemonKeeps DEF stressVars, verdict, WindowDaemonBinds, WindowDaemonDies
  <2>2. CASE Controls \/ WindowRaises
    BY <2>2, ApproachKeeps, AnchorKeeps, SpawnKeeps, SeedKeeps, CollectKeeps, TeardownKeeps, JudgeKeeps,
       DriverSteps, DriverKeeps DEF Controls
  <2>3. CASE \E d \in Slots : DriverSubscribes(d) \/ Wake(d) \/ CliCall(d) \/ LibraryCall(d)
                              \/ EmitReaction(d) \/ Mark(d) \/ DriverExits(d)
    BY <2>3, DriverSteps, DriverKeeps
  <2> QED BY <2>1, <2>2, <2>3 DEF StressNext
<1> QED BY <1>1, StressStarts, PTL DEF StressSpec

(* However late a driver of the stress sweep subscribes, the seed of its   *)
(* window lies above the row it resumes from, so the daemon owes it to it; *)
(* for any sweep of any number of drivers.                                 *)
THEOREM EveryDriverGetsTheSeed == StressSpec => []SeedIsForEveryDriver
<1>1. StressInv => SeedIsForEveryDriver
  <2> SUFFICES ASSUME StressInv, NEW d \in Slots, Is(d, "wait"), ~At("teardown"), NEW i \in SeedOf(window)
               PROVE  i > driver[d].from
    BY DEF SeedIsForEveryDriver
  <2>1. ctl \in {"seed", "drain"}
    BY DEF StressInv, AllGone, Running, DriverGone, Is, At
  <2> QED BY <2>1 DEF StressInv, Anchored
<1> QED BY <1>1, StressInvariance, PTL

(* The controller exits 0 on a real sweep only if in every window each     *)
(* driver's reaction to that window's seed was stored and none was a       *)
(* refusal, whatever was killed, raised or drained late in between.        *)
THEOREM PassesAreEarned == StressSpec => []PassIsEarned
<1>1. StressInv => PassIsEarned
  <2> SUFFICES ASSUME StressInv, code = 0, kind = "real", NEW w \in 1 .. Len(Sweep)
               PROVE  EarnedIn(w) /\ \A r \in observed[w] : r[2] \notin {"refused", "odd"}
    BY DEF PassIsEarned, EarnedIn
  <2>1. ctl = "end" /\ window = Len(Sweep) /\ failures = {} /\ Unclean = {}
    BY DEF StressInv, Earned
  <2>2. Ended(w)
    BY <2>1 DEF Ended
  <2>3. EarnedIn(w)
    BY <2>1, <2>2 DEF StressInv, Earned
  <2>4. w \in DOMAIN observed
    BY DEF StressInv, StressTypeOK
  <2>5. \A r \in observed[w] : r[2] \notin {"refused", "odd"}
    BY <2>1, <2>4 DEF Unclean
  <2> QED BY <2>3, <2>5
<1> QED BY <1>1, StressInvariance, PTL
=============================================================================
