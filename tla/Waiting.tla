------------------------------- MODULE Waiting -------------------------------
(***************************************************************************)
(* One consumer that blocks on the bus: `waitbus wait` (waitbus/wait.py),  *)
(* wait_for and subscribe (waitbus/_subscribe.py), all on the engine       *)
(* await_predicate (waitbus/_broadcast_sub.py) and the predicates of       *)
(* _predicate.py and _compose.py.                                          *)
(*                                                                         *)
(* The daemon (module Broadcast) is a stream of frames: it sends those its *)
(* filter passes, may write a frame in pieces, beats, rejects and closes.  *)
(* Time is what is left of the deadline.                                   *)
(***************************************************************************)
EXTENDS Integers, Sequences, FiniteSets

CONSTANTS
  Calls,      \* the invocations: records of options
  Frames,     \* the events: [source, repo, sha, conclusion]
  None,       \* an absent field or option, no deadline
  MaxFrames   \* bound: frames of the stream

Field == {"source", "repo", "sha", "conclusion"}

(* A match names fields of the frames, and what is absent is no string.    *)
ASSUME WaitingAssumption ==
  /\ \A f \in Frames : DOMAIN f = Field
  /\ \A c \in Calls : /\ c.verb \in {"wait", "wait_for", "subscribe"}
                     /\ c.compose \in {None, "all", "first"}
                     /\ \A s \in c.match : s[1] \in Field /\ s = <<s[1], s[2]>>
  /\ None \notin {"0", "1", "all", "first", "event"}

VARIABLES
  call,       \* the invocation
  stage,      \* "call", "open", "budget", "select", "frame", "yielded", "done"
  remaining,  \* ticks to the deadline
  stream,     \* frames the daemon has written
  torn,       \* a further frame is written in part
  beat,       \* a heartbeat or the ack is unread
  link,       \* "down", "up", "rejected", "closed"
  read,       \* frames read
  satisfied,  \* clauses of all_of that some frame has satisfied
  given,      \* indices of the frames the generator has yielded
  result      \* None, an exit code, or what the SDK call came to

fromDaemon == <<stream, torn, beat, link>>
waitVars == <<call, stage, remaining, fromDaemon, read, satisfied, given, result>>

-----------------------------------------------------------------------------
(* Predicates.                                                             *)

(* Mutant: a repeated key is a conjunction as well.                        *)
MatchesEverySpec(specs, f) == \A s \in specs : f[s[1]] = s[2]

(* parse_match, _dig: a conjunction over the keys, a disjunction over the  *)
(* values given for one key.                                               *)
Matches(specs, f) == \A s \in specs : <<s[1], f[s[1]]>> \in specs

(* --sha implies --source github.                                          *)
EffectiveSource(c) == IF c.sha /\ c.source = None THEN "github" ELSE c.source

Specs(c) ==
  c.match \cup {<<"source", s>> : s \in {EffectiveSource(c)} \ {None}}

(* _build_predicate with head_sha_prefix; wait_for's _compose_predicate.   *)
Predicate(c, f) == Matches(Specs(c), f) /\ (c.sha => f.sha = "asked")

(* clause_predicate: `source:key=value`.                                   *)
ClauseHolds(q, f) == Matches({<<"source", q[1]>>, <<q[2], q[3]>>}, f)

(* _exit_code_if_terminal.                                                 *)
VerdictOf(f) ==
  IF f.source # "github" \/ f.conclusion = "success" THEN "0"
  ELSE IF f.conclusion \in {"failure", "cancelled", "timed_out"} THEN "1" ELSE None

-----------------------------------------------------------------------------
(* The call: usage errors, the filter, the connection.                     *)

IsGithubPath(c) == EffectiveSource(c) \in {None, "github"}

NeedsRepo(c) == IsGithubPath(c) /\ (c.sha \/ EffectiveSource(c) = "github")

(* _resolve_repo: the filter sent to the daemon; None for no filter.       *)
Scope(c) ==
  IF c.verb # "wait" \/ c.compose # None \/ ~IsGithubPath(c) THEN None
  ELSE IF c.repo # None THEN c.repo
  ELSE IF NeedsRepo(c) THEN c.origin ELSE None

(* Exit 2, or ValueError, before any connection.                           *)
UsageError(c) ==
  \/ c.malformed
  \/ c.compose # None /\ (Specs(c) # {} \/ c.sha \/ c.repo # None \/ c.clauses = {})
  \/ c.compose = None /\ Specs(c) = {}
  \/ c.sha /\ c.source \notin {None, "github"}
  \/ c.verb = "wait" /\ c.compose = None /\ c.repo = None /\ NeedsRepo(c) /\ c.origin = None

Done(r) == stage' = "done" /\ result' = r

Invoke ==
  /\ stage = "call"
  /\ \/ UsageError(call) /\ Done("2")
     \/ ~UsageError(call) /\ stage' = "open" /\ UNCHANGED result
  /\ UNCHANGED <<call, remaining, fromDaemon, read, satisfied, given>>

(* open_subscriber: connect and send the subscribe frame.                  *)
Open ==
  /\ stage = "open"
  /\ \/ link = "down" /\ Done("2")
     \/ link # "down" /\ stage' = "budget" /\ UNCHANGED result
  /\ UNCHANGED <<call, remaining, fromDaemon, read, satisfied, given>>

-----------------------------------------------------------------------------
(* The outcomes, as each caller maps them.                                 *)

(* _dispatch_outcome, _finish_drain.  SIGINT gives the SDK what a timeout  *)
(* does, and ends a generator.                                             *)
Finish(outcome) ==
  Done(IF call.verb = "wait"
       THEN IF outcome = "cancelled" THEN "130" ELSE IF outcome = "timed_out" THEN "124" ELSE "2"
       ELSE IF outcome \in {"cancelled", "timed_out"} \/ (outcome = "clean_eof" /\ call.verb = "subscribe")
            THEN "nothing" ELSE "raised")

(* The subscribe_rejected frame raises out of await_predicate; `wait`      *)
(* handles it around open_subscriber only, and a traceback exits 1.        *)
Rejected == Done(IF call.verb = "wait" THEN "1" ELSE "raised")

(* What the frame does to the tracker, as AllOfTracker.update.             *)
Update(f) ==
  IF call.compose = "all" THEN satisfied \cup {q \in call.clauses : ClauseHolds(q, f)}
  ELSE satisfied

(* _build_decide, _build_composed_decide, _make_capture_decide.            *)
Decides(f) ==
  IF call.compose = "all" THEN Update(f) = call.clauses
  ELSE IF call.compose = "first" THEN \E q \in call.clauses : ClauseHolds(q, f)
  ELSE Predicate(call, f) /\ (call.verb = "wait" => VerdictOf(f) # None)

Matched(f) ==
  \/ call.verb = "subscribe" /\ stage' = "yielded" /\ given' = Append(given, read + 1) /\ UNCHANGED result
  \/ call.verb = "wait_for" /\ Done("event") /\ UNCHANGED given
  \/ /\ call.verb = "wait"
     /\ Done(IF call.compose = None /\ call.exitStatus THEN VerdictOf(f) ELSE "0")
     /\ UNCHANGED given

-----------------------------------------------------------------------------
(* await_predicate.                                                        *)

CheckBudget ==
  /\ stage = "budget"
  /\ \/ remaining = 0 /\ Finish("timed_out")
     \/ remaining # 0 /\ stage' = "select" /\ UNCHANGED result
  /\ UNCHANGED <<call, remaining, fromDaemon, read, satisfied, given>>

Readable == beat \/ torn \/ read < Len(stream) \/ link \in {"rejected", "closed"}

SelectReady ==
  /\ stage = "select" /\ Readable
  /\ stage' = "frame"
  /\ UNCHANGED <<call, remaining, fromDaemon, read, satisfied, given, result>>

SelectTimesOut ==
  /\ stage = "select" /\ ~Readable /\ remaining = 0
  /\ Finish("timed_out")
  /\ UNCHANGED <<call, remaining, fromDaemon, read, satisfied, given>>

ReadEvent ==
  /\ stage = "frame" /\ ~beat /\ read < Len(stream)
  /\ LET f == stream[read + 1] IN
       /\ read' = read + 1
       /\ satisfied' = Update(f)
       /\ \/ Decides(f) /\ Matched(f)
          \/ ~Decides(f) /\ stage' = "budget" /\ UNCHANGED <<given, result>>
  /\ UNCHANGED <<call, remaining, fromDaemon>>

(* Mutant: the deadline is measured from the last frame, as for `replay`.  *)
ReadControlAnchors ==
  /\ stage = "frame" /\ beat
  /\ beat' = FALSE /\ remaining' = call.timeout
  /\ stage' = "budget"
  /\ UNCHANGED <<call, stream, torn, link, read, satisfied, given, result>>

(* Heartbeats and the ack are drained; decide does not see them.           *)
ReadControl ==
  /\ stage = "frame" /\ beat
  /\ beat' = FALSE
  /\ stage' = "budget"
  /\ UNCHANGED <<call, remaining, stream, torn, link, read, satisfied, given, result>>

(* The rest of the frame is awaited without a time limit.                  *)
ReadEnd ==
  /\ stage = "frame" /\ ~beat /\ read = Len(stream)
  /\ \/ link = "closed" /\ Finish(IF torn THEN "framing_eof" ELSE "clean_eof")
     \/ link = "rejected" /\ Rejected
  /\ UNCHANGED <<call, remaining, fromDaemon, read, satisfied, given>>

(* KeyboardInterrupt.                                                      *)
Interrupt ==
  /\ stage \in {"budget", "select", "frame"}
  /\ Finish("cancelled")
  /\ UNCHANGED <<call, remaining, fromDaemon, read, satisfied, given>>

(* The generator's consumer asks for the next event, or closes it.         *)
NextEvent ==
  /\ stage = "yielded"
  /\ stage' = "budget"
  /\ UNCHANGED <<call, remaining, fromDaemon, read, satisfied, given, result>>

CloseGenerator ==
  /\ stage = "yielded"
  /\ Done("nothing")
  /\ UNCHANGED <<call, remaining, fromDaemon, read, satisfied, given>>

-----------------------------------------------------------------------------
(* The daemon, and time.                                                   *)

Passes(f) == Scope(call) = None \/ f.repo = Scope(call)

Writes(f) ==
  /\ stage \in {"budget", "select", "frame", "yielded"} /\ link = "up"
  /\ Len(stream) < MaxFrames /\ Passes(f)
  /\ stream' = Append(stream, f)
  /\ torn' = FALSE
  /\ UNCHANGED <<call, stage, remaining, beat, link, read, satisfied, given, result>>

WritesPart ==
  /\ stage \in {"budget", "select", "frame", "yielded"} /\ link = "up"
  /\ Len(stream) < MaxFrames /\ torn' = TRUE
  /\ UNCHANGED <<call, stage, remaining, stream, beat, link, read, satisfied, given, result>>

Beats ==
  /\ stage \in {"budget", "select", "frame", "yielded"} /\ link = "up" /\ ~torn
  /\ beat' = TRUE
  /\ UNCHANGED <<call, stage, remaining, stream, torn, link, read, satisfied, given, result>>

Ends ==
  /\ stage \in {"budget", "select", "frame", "yielded"} /\ link = "up"
  /\ link' \in {"closed"} \cup (IF torn THEN {} ELSE {"rejected"})
  /\ UNCHANGED <<call, stage, remaining, stream, torn, beat, read, satisfied, given, result>>

Tick ==
  /\ stage \in {"budget", "select", "frame"}
  /\ remaining \notin {None, 0} /\ remaining' = remaining - 1
  /\ UNCHANGED <<call, stage, fromDaemon, read, satisfied, given, result>>

-----------------------------------------------------------------------------

WaitingInit ==
  /\ call \in Calls /\ remaining = call.timeout
  /\ stage = "call" /\ link \in {"up", "down"}
  /\ stream = <<>> /\ torn = FALSE /\ beat = FALSE
  /\ read = 0 /\ satisfied = {} /\ given = <<>> /\ result = None

Consumer ==
  \/ Invoke \/ Open \/ CheckBudget \/ SelectReady \/ SelectTimesOut
  \/ ReadEvent \/ ReadControl \/ ReadEnd

WaitingNext ==
  \/ Consumer \/ Interrupt \/ NextEvent \/ CloseGenerator
  \/ (\E f \in Frames : Writes(f)) \/ WritesPart \/ Beats \/ Ends
  \/ Tick

(* The process runs and time passes.  The daemon is asked for nothing: it  *)
(* may leave a frame half-written for ever (a daemon suspended, or blocked *)
(* between two sends).                                                     *)
WaitingFairness == WF_waitVars(Consumer) /\ WF_waitVars(Tick)

WaitingSpec == WaitingInit /\ [][WaitingNext]_waitVars /\ WaitingFairness

-----------------------------------------------------------------------------
(* Properties.                                                             *)

(* What answers the call, said of the whole stream: `i` is the first frame *)
(* that satisfies it, all_of counting what came before.                    *)
AnswersBy(i) ==
  IF call.compose = "all" THEN \A q \in call.clauses : \E j \in 1..i : ClauseHolds(q, stream[j])
  ELSE IF call.compose = "first" THEN \E j \in 1..i, q \in call.clauses : ClauseHolds(q, stream[j])
  ELSE \E j \in 1..i :
         /\ \A key \in DOMAIN stream[j] :
              LET wanted == {s[2] : s \in {r \in Specs(call) : r[1] = key}}
              IN  wanted # {} => stream[j][key] \in wanted
         /\ call.sha => stream[j].sha = "asked"
         /\ call.verb = "wait" /\ stream[j].source = "github" =>
              stream[j].conclusion \in {"success", "failure", "cancelled", "timed_out"}

(* A wait ends with an answer exactly when it has read the first frame     *)
(* that is one, whatever the pieces, beats, ticks and signals around it,   *)
(* and its exit code is that frame's verdict.                              *)
AnswerIsFirst ==
  call.verb # "subscribe" /\ read > 0 =>
    /\ ~AnswersBy(read - 1)
    /\ AnswersBy(read) =>
         /\ stage = "done"
         /\ result = IF call.verb = "wait_for" THEN "event"
                     ELSE IF /\ call.compose = None /\ call.exitStatus
                             /\ stream[read].source = "github"
                             /\ stream[read].conclusion \in {"failure", "cancelled", "timed_out"}
                          THEN "1" ELSE "0"
    /\ ~AnswersBy(read) => result \notin {"0", "event"}

(* sync_read_frame has begun a frame and waits for the rest, with no limit *)
(* of its own: the deadline is looked at between frames only.              *)
HeldByHalfAFrame ==
  stage = "frame" /\ torn /\ ~beat /\ read = Len(stream) /\ link = "up"

Deadline == stage = "budget" /\ call.timeout # None /\ call.verb # "subscribe"

(* A wait with a deadline ends, whatever events, beats, rejects and ends   *)
(* the daemon sends, and without end: only a frame of which the daemon     *)
(* never writes the rest can hold it.                                      *)
DeadlineEnds == (Deadline ~> stage = "done") \/ <>[]HeldByHalfAFrame

(* _broadcast_sub.py:518 "the deadline is **self-enforced**", mcp.py:805   *)
(* "guaranteed to terminate by the deadline".  The code does not keep it   *)
(* (README, "Where the code disagrees").                                   *)
DeadlineIsSelfEnforced == Deadline ~> stage = "done"

(* wait.py:35 "1    matched a GitHub frame whose conclusion is terminal".  *)
(* The code does not keep it (README, "Where the code disagrees").         *)
ExitOneIsAFailure ==
  call.verb = "wait" /\ result = "1" =>
    read > 0 /\ stream[read].conclusion \in {"failure", "cancelled", "timed_out"}
=============================================================================
