-------------------------- MODULE OperationsProofs --------------------------
(***************************************************************************)
(* Proofs about the programs around the bus: the serve supervisor, the     *)
(* watchdog, the store with its migrations and prunes, the ingress         *)
(* (webhook listener and pytest plugin) and the source registry; each for  *)
(* any number of its processes.                                            *)
(***************************************************************************)
EXTENDS Serve, Watchdog, Store, Ingress, Registry, WellFoundedInduction, FiniteSetTheorems, TLAPS

-----------------------------------------------------------------------------
(* Serve: what an exit code of 0 says, and who can lose the socket file,   *)
(* for any number of supervisors, components, launches, ticks and kills.   *)

SupervisorType ==
  [at : {"gone", "leave", "await", "run", "polls", "threads", "bus"},
   daemon : {"off", "boot", "up", "closing", "done", "raised", "failed", "cancelled"},
   stop : BOOLEAN, early : BOOLEAN, threads : SUBSET Components, timer : {"off", "sleep", "tick"},
   ticks : Int, code : {0, 1, 2, 137}]

ServeTypeOK ==
  /\ path \in Supervisors \cup {None}
  /\ sup \in [Supervisors -> SupervisorType]

(* What a code of 0 stands for so far, stage by stage, if no SIGINT fell   *)
(* before the handlers: from the end of the run on a stop was asked for;   *)
(* once the bus is joined, it ended well or was cancelled.                 *)
CodeEarned(r) ==
  r.code = 0 /\ ~r.early =>
    /\ r.at \in {"polls", "threads", "bus", "leave"} => r.stop
    /\ r.at = "leave" => r.daemon \in {"done", "cancelled"}
    /\ r.at = "gone" /\ r # NotLaunched => r.stop /\ r.daemon \in {"done", "cancelled"}

ExitInv == \A s \in Supervisors : CodeEarned(sup[s])

(* About to bind, bound, or about to unlink.                               *)
About(r) == r.at # "gone" /\ r.daemon \in {"boot", "up", "closing"}
Up(r) == r.at # "gone" /\ r.daemon = "up"

(* Whoever is up while another may still bind or unlink knew the risk when *)
(* it bound, or has lost the file already.                                 *)
WindowInv ==
  \A s, t \in Supervisors : s # t /\ About(sup[s]) /\ Up(sup[t]) => t \in exposed

PathInv == \A t \in Supervisors : Up(sup[t]) /\ path # t => t \in exposed

ServeInv == ServeTypeOK /\ ExitInv /\ WindowInv /\ PathInv

-----------------------------------------------------------------------------
(* One record.                                                             *)

(* A step of one supervisor that binds, unlinks and launches nothing, and  *)
(* leaves it no more about than it was.                                    *)
LEMMA QuietStep ==
  ASSUME ServeInv, NEW s \in Supervisors, NEW n \in SupervisorType,
         Become(s, n), Shared' = Shared, CodeEarned(n),
         About(n) => About(sup[s]), Up(n) => Up(sup[s])
  PROVE  ServeInv'
<1>1. /\ path' = path /\ exposed' = exposed
      /\ sup \in [Supervisors -> SupervisorType] /\ sup' = [sup EXCEPT ![s] = n]
  BY DEF Shared, ServeInv, ServeTypeOK, Become
<1>2. /\ sup' \in [Supervisors -> SupervisorType]
      /\ sup'[s] = n
      /\ \A t \in Supervisors : t # s => sup'[t] = sup[t]
  BY <1>1
<1>3. \A t \in Supervisors : CodeEarned(sup'[t])
  BY <1>2 DEF ServeInv, ExitInv
<1>4. \A t \in Supervisors : (About(sup'[t]) => About(sup[t])) /\ (Up(sup'[t]) => Up(sup[t]))
  BY <1>2
<1>5. ServeTypeOK'
  BY <1>1, <1>2 DEF ServeInv, ServeTypeOK
<1>6. WindowInv'
  BY <1>1, <1>4 DEF ServeInv, WindowInv
<1>7. PathInv'
  BY <1>1, <1>4 DEF ServeInv, PathInv
<1> QED BY <1>3, <1>5, <1>6, <1>7 DEF ServeInv, ExitInv

LEMMA NotLaunchedIsTyped ==
  /\ NotLaunched \in SupervisorType /\ CodeEarned(NotLaunched)
  /\ ~About(NotLaunched) /\ ~Up(NotLaunched)
  BY DEF NotLaunched, SupervisorType, CodeEarned, About, Up

LEMMA ServeStarts == None \notin Supervisors /\ ServeInit => ServeInv
  BY NotLaunchedIsTyped DEF ServeInit, ServeInv, ServeTypeOK, ExitInv, WindowInv, PathInv

-----------------------------------------------------------------------------
(* The socket.                                                             *)

LEMMA BindKeeps == ASSUME ServeInv, NEW s \in Supervisors, Bind(s) PROVE ServeInv'
<1>1. PICK d \in {"up", "failed"} : sup' = [sup EXCEPT ![s] = [sup[s] EXCEPT !.daemon = d]]
  BY DEF Bind, Become
<1>2. PICK n : n = [sup[s] EXCEPT !.daemon = d]
  OBVIOUS
<1>3. sup \in [Supervisors -> SupervisorType] /\ sup[s] \in SupervisorType
  BY DEF ServeInv, ServeTypeOK
<1>4. /\ n \in SupervisorType /\ n.at = sup[s].at /\ n.code = sup[s].code /\ n.stop = sup[s].stop /\ n.early = sup[s].early
      /\ n.daemon = d
  BY <1>2, <1>3 DEF SupervisorType
<1>5. About(sup[s]) /\ sup[s].daemon = "boot" /\ sup[s].at # "gone"
  BY DEF Bind, Alive, Is, About
<1>6. /\ sup' \in [Supervisors -> SupervisorType] /\ sup'[s] = n
      /\ \A t \in Supervisors : t # s => sup'[t] = sup[t]
  BY <1>1, <1>2, <1>3, <1>4
<1>7. ServeTypeOK'
  BY <1>6 DEF Bind, ServeTypeOK
<1>8. CodeEarned(n)
  BY <1>4, <1>5 DEF ServeInv, ExitInv, CodeEarned
<1>9. ExitInv'
  BY <1>6, <1>8 DEF ServeInv, ExitInv
<1>10. \A t \in Supervisors : t # s /\ Up(sup[t]) => t \in exposed
  BY <1>5 DEF ServeInv, WindowInv
<1>11. (\E t \in Supervisors \ {s} : About(sup[t])) => s \in exposed'
  BY DEF Bind, About, Alive, Is
<1>12. \A t \in Supervisors : t # s /\ t \in exposed => t \in exposed'
  BY DEF Bind
<1>13. PathInv'
  BY <1>6, <1>10, <1>12 DEF Bind, PathInv
<1>14. WindowInv'
  BY <1>6, <1>10, <1>11, <1>12 DEF WindowInv
<1> QED BY <1>7, <1>9, <1>13, <1>14 DEF ServeInv

LEMMA UnlinkKeeps == ASSUME ServeInv, NEW s \in Supervisors, Unlink(s) PROVE ServeInv'
<1>1. PICK n : n = [sup[s] EXCEPT !.daemon = "done"]
  OBVIOUS
<1>2. sup \in [Supervisors -> SupervisorType] /\ sup[s] \in SupervisorType
  BY DEF ServeInv, ServeTypeOK
<1>3. /\ n \in SupervisorType /\ n.at = sup[s].at /\ n.code = sup[s].code /\ n.stop = sup[s].stop /\ n.early = sup[s].early
      /\ n.daemon = "done"
  BY <1>1, <1>2 DEF SupervisorType
<1>4. About(sup[s]) /\ sup[s].at # "gone"
  BY DEF Unlink, Alive, Is, About
<1>5. /\ sup' \in [Supervisors -> SupervisorType] /\ sup'[s] = n
      /\ \A t \in Supervisors : t # s => sup'[t] = sup[t]
      /\ path' = None /\ exposed' = exposed
  BY <1>1, <1>2, <1>3 DEF Unlink, Become
<1>6. CodeEarned(n)
  BY <1>3, <1>4 DEF ServeInv, ExitInv, CodeEarned
<1>7. ~About(n) /\ ~Up(n)
  BY <1>3 DEF About, Up
<1>8. ServeTypeOK' /\ ExitInv'
  BY <1>5, <1>6 DEF ServeInv, ServeTypeOK, ExitInv
<1>9. \A t \in Supervisors : t # s /\ Up(sup[t]) => t \in exposed
  BY <1>4 DEF ServeInv, WindowInv
<1>10. WindowInv' /\ PathInv'
  BY <1>5, <1>7, <1>9 DEF ServeInv, WindowInv, PathInv
<1> QED BY <1>8, <1>10 DEF ServeInv

(* A supervisor that finds nobody listening starts a daemon: whoever is up *)
(* has lost the file already.                                              *)
LEMMA LaunchKeeps ==
  ASSUME None \notin Supervisors, ServeInv, NEW s \in Supervisors, Launch(s) PROVE ServeInv'
<1>1. PICK early \in BOOLEAN :
        \/ /\ Probe(FALSE)
           /\ Become(s, [NotLaunched EXCEPT !.at = "await", !.daemon = "boot", !.early = early])
        \/ Become(s, [NotLaunched EXCEPT !.at = "leave", !.early = early, !.code = IF early THEN 0 ELSE 2])
  BY DEF Launch
<1>2. sup \in [Supervisors -> SupervisorType] /\ path' = path /\ exposed' = exposed
  BY DEF ServeInv, ServeTypeOK, Launch
<1>3. \E m \in SupervisorType : Become(s, m) /\ CodeEarned(m) /\ ~Up(m) /\ (About(m) => Probe(FALSE))
  <2>1. CASE Probe(FALSE) /\ Become(s, [NotLaunched EXCEPT !.at = "await", !.daemon = "boot", !.early = early])
    <3>1. PICK m : m = [NotLaunched EXCEPT !.at = "await", !.daemon = "boot", !.early = early]
      OBVIOUS
    <3>2. m \in SupervisorType /\ m.at = "await" /\ m.daemon = "boot"
      BY <3>1, NotLaunchedIsTyped DEF NotLaunched, SupervisorType
    <3>3. CodeEarned(m) /\ ~Up(m)
      BY <3>2 DEF CodeEarned, Up
    <3> QED BY <2>1, <3>1, <3>2, <3>3
  <2>2. CASE Become(s, [NotLaunched EXCEPT !.at = "leave", !.early = early, !.code = IF early THEN 0 ELSE 2])
    <3>1. PICK c \in {0, 2} : c = (IF early THEN 0 ELSE 2)
      OBVIOUS
    <3>2. PICK m : m = [NotLaunched EXCEPT !.at = "leave", !.early = early, !.code = c]
      OBVIOUS
    <3>3. m \in SupervisorType /\ m.at = "leave" /\ m.daemon = "off" /\ m.code = c /\ m.early = early
      BY <3>1, <3>2, NotLaunchedIsTyped DEF NotLaunched, SupervisorType
    <3>4. CodeEarned(m) /\ ~Up(m) /\ ~About(m)
      BY <3>1, <3>3 DEF CodeEarned, Up, About
    <3> QED BY <2>2, <3>1, <3>2, <3>3, <3>4
  <2> QED BY <1>1, <2>1, <2>2
<1>4. PICK n \in SupervisorType : Become(s, n) /\ CodeEarned(n) /\ ~Up(n) /\ (About(n) => Probe(FALSE))
  BY <1>3
<1>5. /\ sup' \in [Supervisors -> SupervisorType] /\ sup'[s] = n
      /\ \A t \in Supervisors : t # s => sup'[t] = sup[t]
  BY <1>2, <1>4 DEF Become
<1>6. ServeTypeOK' /\ ExitInv'
  BY <1>2, <1>4, <1>5 DEF ServeInv, ServeTypeOK, ExitInv
<1>7. ASSUME Probe(FALSE), NEW t \in Supervisors, Up(sup[t]) PROVE t \in exposed
  <2>1. Listening(t) /\ t # None
    BY <1>7 DEF Up, Listening, Alive, Is
  <2>2. path # t
    BY <1>7, <2>1 DEF Probe
  <2>3. QED
    BY <1>7, <2>2 DEF ServeInv, PathInv
<1>8. PathInv'
  BY <1>2, <1>4, <1>5 DEF ServeInv, PathInv
<1>9. WindowInv'
  BY <1>2, <1>4, <1>5, <1>7 DEF ServeInv, WindowInv
<1> QED BY <1>6, <1>8, <1>9 DEF ServeInv

-----------------------------------------------------------------------------
(* The rest of a supervisor's life, one action at a time.                  *)

LEMMA QuietActions ==
  ASSUME ServeInv, NEW s \in Supervisors,
         \/ BootFails(s) \/ Close(s) \/ Signal(s) \/ StartComponents(s) \/ AwaitEnds(s)
         \/ RunEnds(s) \/ PollTick(s) \/ TickTimesOut(s) \/ TickReturns(s) \/ StopPolls(s)
         \/ JoinsEnd(s) \/ BusJoined(s) \/ BusTimesOut(s) \/ Leave(s) \/ SigKill(s)
  PROVE  ServeInv'
<1>1. PICK r : r = sup[s]
  OBVIOUS
<1>2. r \in SupervisorType /\ CodeEarned(r)
  BY <1>1 DEF ServeInv, ServeTypeOK, ExitInv
<1>3. Shared' = Shared
  BY DEF BootFails, Close, Signal, StartComponents, AwaitEnds, RunEnds, PollTick, TickTimesOut,
         TickReturns, StopPolls, JoinsEnd, BusJoined, BusTimesOut, Leave, SigKill, Shared
<1> DEFINE Goal ==
      \E n \in SupervisorType :
        Become(s, n) /\ CodeEarned(n) /\ (About(n) => About(r)) /\ (Up(n) => Up(r))
<1>4. CASE BootFails(s)
  <2>1. PICK n : n = [r EXCEPT !.daemon = "raised"]
    OBVIOUS
  <2>2. n \in SupervisorType /\ CodeEarned(n) /\ ~About(n) /\ ~Up(n)
    BY <1>1, <1>2, <1>4, <2>1 DEF BootFails, Alive, Is, SupervisorType, CodeEarned, About, Up
  <2>3. Goal
    BY <1>1, <1>4, <2>1, <2>2 DEF BootFails
  <2>4. QED
    BY <1>1, <1>3, <2>3, QuietStep
<1>5. CASE Close(s)
  <2>1. PICK d \in {"closing", "failed"} : Become(s, [r EXCEPT !.daemon = d])
    BY <1>1, <1>5 DEF Close
  <2>2. PICK n : n = [r EXCEPT !.daemon = d]
    OBVIOUS
  <2>3. n \in SupervisorType /\ CodeEarned(n) /\ About(r) /\ ~Up(n)
    BY <1>1, <1>2, <1>5, <2>2 DEF Close, Alive, Is, SupervisorType, CodeEarned, About, Up
  <2>4. QED
    BY <1>1, <1>3, <2>1, <2>2, <2>3, QuietStep
<1>6. CASE Signal(s)
  <2>1. PICK n : n = [r EXCEPT !.stop = TRUE]
    OBVIOUS
  <2>2. n \in SupervisorType /\ n.stop /\ n.early = r.early /\ n.at = r.at /\ n.daemon = r.daemon /\ n.code = r.code
    BY <1>2, <2>1 DEF SupervisorType
  <2>3. r.at # "gone" /\ Become(s, n)
    BY <1>1, <1>6, <2>1 DEF Signal
  <2>4. CodeEarned(n) /\ (About(n) => About(r)) /\ (Up(n) => Up(r))
    BY <1>2, <2>2, <2>3 DEF CodeEarned, About, Up
  <2>5. QED
    BY <1>1, <1>3, <2>2, <2>3, <2>4, QuietStep
<1>7. CASE StartComponents(s)
  <2>1. PICK C \in SUBSET Components, timer \in {"off", "sleep"} :
          Become(s, [r EXCEPT !.at = "run", !.threads = C, !.timer = timer])
    BY <1>1, <1>7 DEF StartComponents
  <2>2. PICK n : n = [r EXCEPT !.at = "run", !.threads = C, !.timer = timer]
    OBVIOUS
  <2>3. n \in SupervisorType /\ n.at = "run" /\ n.daemon = r.daemon /\ r.at # "gone"
    <3>1. r.at # "gone"
      BY <1>1, <1>7 DEF StartComponents, Is
    <3>2. n \in SupervisorType
      BY <1>2, <2>1, <2>2 DEF SupervisorType
    <3>3. QED
      BY <1>2, <2>2, <3>1, <3>2 DEF SupervisorType
  <2>4. CodeEarned(n) /\ (About(n) => About(r)) /\ (Up(n) => Up(r))
    BY <2>3 DEF CodeEarned, About, Up
  <2>5. QED
    BY <1>1, <1>3, <2>1, <2>2, <2>3, <2>4, QuietStep
<1>8. CASE AwaitEnds(s)
  <2>1. PICK code \in {0, 1} : /\ code = 0 => r.stop \/ r.early
                               /\ Become(s, [r EXCEPT !.at = "polls", !.code = code])
    BY <1>1, <1>8 DEF AwaitEnds
  <2>2. PICK n : n = [r EXCEPT !.at = "polls", !.code = code]
    OBVIOUS
  <2>3. /\ n \in SupervisorType /\ n.at = "polls" /\ n.daemon = r.daemon /\ r.at # "gone"
        /\ n.code = code /\ n.stop = r.stop /\ n.early = r.early
    BY ZenonT(60), <1>1, <1>2, <1>8, <2>2 DEF AwaitEnds, Is, SupervisorType
  <2>4. CodeEarned(n) /\ (About(n) => About(r)) /\ (Up(n) => Up(r))
    BY <2>1, <2>3 DEF CodeEarned, About, Up
  <2>5. QED
    BY <1>1, <1>3, <2>1, <2>2, <2>3, <2>4, QuietStep
<1>9. CASE RunEnds(s)
  <2>1. PICK n : n = [r EXCEPT !.at = "polls", !.code = IF r.stop \/ r.early THEN 0 ELSE 1]
    OBVIOUS
  <2>2. /\ n \in SupervisorType /\ n.at = "polls" /\ n.daemon = r.daemon /\ r.at # "gone"
        /\ n.code = (IF r.stop \/ r.early THEN 0 ELSE 1) /\ n.stop = r.stop /\ n.early = r.early
    <3>1. PICK code \in {0, 1} : code = IF r.stop \/ r.early THEN 0 ELSE 1
      OBVIOUS
    <3>2. n = [r EXCEPT !.at = "polls", !.code = code]
      BY <2>1, <3>1
    <3>3. /\ n \in SupervisorType /\ n.at = "polls" /\ n.daemon = r.daemon
          /\ n.code = code /\ n.stop = r.stop /\ n.early = r.early
      BY ZenonT(60), <1>2, <3>2 DEF SupervisorType
    <3>4. r.at # "gone"
      BY <1>1, <1>9 DEF RunEnds, Is
    <3>5. QED
      BY <3>1, <3>3, <3>4
  <2>3. CodeEarned(n) /\ (About(n) => About(r)) /\ (Up(n) => Up(r))
    BY <2>2 DEF CodeEarned, About, Up
  <2>4. Become(s, n)
    BY <1>1, <1>9, <2>1 DEF RunEnds
  <2>5. QED
    BY <1>1, <1>3, <2>2, <2>3, <2>4, QuietStep
<1>10. CASE PollTick(s) \/ TickTimesOut(s) \/ TickReturns(s)
  <2>1. PICK timer \in {"off", "sleep", "tick"}, k \in Int :
          Become(s, [r EXCEPT !.timer = timer, !.ticks = k])
    <3>1. CASE PollTick(s)
      <4>1. Become(s, [r EXCEPT !.timer = "tick", !.ticks = r.ticks + 1])
        BY <1>1, <3>1 DEF PollTick
      <4>2. r.ticks + 1 \in Int
        BY <1>2 DEF SupervisorType
      <4>3. QED
        BY <4>1, <4>2
    <3>2. CASE TickTimesOut(s)
      <4>1. [r EXCEPT !.timer = "sleep"] = [r EXCEPT !.timer = "sleep", !.ticks = r.ticks]
        BY <1>2 DEF SupervisorType
      <4>2. QED
        BY <1>1, <1>2, <3>2, <4>1 DEF TickTimesOut, SupervisorType
    <3>3. CASE TickReturns(s)
      <4>1. PICK timer \in {r.timer, "sleep"} : Become(s, [r EXCEPT !.timer = timer, !.ticks = @ - 1])
        BY <1>1, <3>3 DEF TickReturns
      <4>2. timer \in {"off", "sleep", "tick"} /\ r.ticks - 1 \in Int
        BY <1>2, <4>1 DEF SupervisorType
      <4>3. QED
        BY <1>2, <4>1, <4>2 DEF SupervisorType
    <3>4. QED
      BY <1>10, <3>1, <3>2, <3>3
  <2>2. PICK n : n = [r EXCEPT !.timer = timer, !.ticks = k]
    OBVIOUS
  <2>3. /\ n \in SupervisorType /\ n.at = r.at /\ n.daemon = r.daemon /\ n.code = r.code
        /\ n.stop = r.stop /\ n.early = r.early
    BY <1>2, <2>1, <2>2 DEF SupervisorType
  <2>4. (About(n) => About(r)) /\ (Up(n) => Up(r))
    BY <2>3 DEF About, Up
  <2>5. CodeEarned(n)
    <3>1. r.at = "run" \/ r.ticks > 0
      BY <1>1, <1>10 DEF PollTick, TickTimesOut, TickReturns, Is
    <3>2. r # NotLaunched
      BY <3>1 DEF NotLaunched
    <3>3. QED
      BY <1>2, <2>3, <3>2 DEF CodeEarned
  <2>6. QED
    BY <1>1, <1>3, <2>1, <2>2, <2>3, <2>4, <2>5, QuietStep
<1>11. CASE StopPolls(s)
  <2>1. PICK n : n = [r EXCEPT !.at = "threads", !.timer = "off"]
    OBVIOUS
  <2>2. /\ n \in SupervisorType /\ n.at = "threads" /\ n.daemon = r.daemon /\ n.code = r.code
        /\ n.stop = r.stop /\ n.early = r.early /\ r.at = "polls" /\ Become(s, n)
    <3>1. r.at = "polls" /\ Become(s, n)
      BY <1>1, <1>11, <2>1 DEF StopPolls, Is
    <3>2. n \in SupervisorType
      BY <1>2, <2>1 DEF SupervisorType
    <3>3. QED
      BY <1>2, <2>1, <3>1, <3>2 DEF SupervisorType
  <2>3. CodeEarned(n) /\ (About(n) => About(r)) /\ (Up(n) => Up(r))
    BY <1>2, <2>2 DEF CodeEarned, About, Up
  <2>4. QED
    BY <1>1, <1>3, <2>2, <2>3, QuietStep
<1>12. CASE JoinsEnd(s)
  <2>1. PICK late \in SUBSET r.threads : Become(s, [r EXCEPT !.at = "bus", !.threads = late])
    BY <1>1, <1>12 DEF JoinsEnd
  <2>2. PICK n : n = [r EXCEPT !.at = "bus", !.threads = late]
    OBVIOUS
  <2>3. /\ n \in SupervisorType /\ n.at = "bus" /\ n.daemon = r.daemon /\ n.code = r.code
        /\ n.stop = r.stop /\ n.early = r.early /\ r.at = "threads"
    BY ZenonT(60), <1>1, <1>2, <1>12, <2>1, <2>2 DEF JoinsEnd, Is, SupervisorType
  <2>4. CodeEarned(n) /\ (About(n) => About(r)) /\ (Up(n) => Up(r))
    BY <1>2, <2>3 DEF CodeEarned, About, Up
  <2>5. QED
    BY <1>1, <1>3, <2>1, <2>2, <2>3, <2>4, QuietStep
<1>13. CASE BusJoined(s)
  <2>1. PICK n : n = [r EXCEPT !.at = "leave", !.code = IF r.daemon = "done" \/ r.early THEN @ ELSE 1]
    OBVIOUS
  <2>2. /\ n \in SupervisorType /\ n.at = "leave" /\ n.daemon = r.daemon
        /\ n.code = (IF r.daemon = "done" \/ r.early THEN r.code ELSE 1)
        /\ n.stop = r.stop /\ n.early = r.early /\ r.at = "bus" /\ Become(s, n)
    <3>1. r.at = "bus" /\ Become(s, n)
      BY <1>1, <1>13, <2>1 DEF BusJoined, Is
    <3>2. n \in SupervisorType
      BY ZenonT(60), <1>2, <2>1 DEF SupervisorType
    <3>3. QED
      BY <1>2, <2>1, <3>1, <3>2 DEF SupervisorType
  <2>3. CodeEarned(n) /\ (About(n) => About(r)) /\ (Up(n) => Up(r))
    BY <1>2, <2>2 DEF CodeEarned, About, Up
  <2>4. QED
    BY <1>1, <1>3, <2>2, <2>3, QuietStep
<1>14. CASE Leave(s)
  <2>1. PICK n : n = [r EXCEPT !.at = "gone", !.threads = {}]
    OBVIOUS
  <2>2. /\ n \in SupervisorType /\ n.at = "gone" /\ n.daemon = r.daemon
        /\ n.code = r.code /\ n.stop = r.stop /\ n.early = r.early /\ r.at = "leave" /\ Become(s, n)
    BY ZenonT(60), <1>1, <1>2, <1>14, <2>1 DEF Leave, Is, SupervisorType
  <2>3. CodeEarned(n) /\ ~About(n) /\ ~Up(n)
    BY <1>2, <2>2 DEF CodeEarned, About, Up
  <2>4. QED
    BY <1>1, <1>3, <2>2, <2>3, QuietStep
<1>15. CASE SigKill(s)
  <2>1. PICK n : n = [NotLaunched EXCEPT !.code = 137]
    OBVIOUS
  <2>2. n \in SupervisorType /\ n.at = "gone" /\ n.code = 137
    BY ZenonT(60), <2>1, NotLaunchedIsTyped DEF NotLaunched, SupervisorType
  <2>3. CodeEarned(n) /\ ~About(n) /\ ~Up(n)
    BY <2>2 DEF CodeEarned, About, Up
  <2>4. Become(s, n)
    BY <1>15, <2>1 DEF SigKill
  <2>5. QED
    BY <1>1, <1>3, <2>2, <2>3, <2>4, QuietStep
<1>16. CASE BusTimesOut(s)
  <2>1. PICK n : n = [r EXCEPT !.at = "leave", !.daemon = "cancelled"]
    OBVIOUS
  <2>2. /\ n \in SupervisorType /\ n.at = "leave" /\ n.daemon = "cancelled" /\ n.code = r.code
        /\ n.stop = r.stop /\ n.early = r.early /\ r.at = "bus" /\ Become(s, n)
    <3>1. r.at = "bus" /\ Become(s, n)
      BY <1>1, <1>16, <2>1 DEF BusTimesOut, Is
    <3>2. n \in SupervisorType
      BY <1>2, <2>1 DEF SupervisorType
    <3>3. QED
      BY <1>2, <2>1, <3>1, <3>2 DEF SupervisorType
  <2>3. CodeEarned(n) /\ ~About(n) /\ ~Up(n)
    BY <1>2, <2>2 DEF CodeEarned, About, Up
  <2>4. QED
    BY <1>1, <1>3, <2>2, <2>3, QuietStep
<1>17. QED
  BY <1>4, <1>5, <1>6, <1>7, <1>8, <1>9, <1>10, <1>11, <1>12, <1>13, <1>14, <1>15, <1>16

-----------------------------------------------------------------------------
(* The specification.                                                      *)

LEMMA ServeStep == None \notin Supervisors /\ ServeInv /\ [ServeNext]_serveVars => ServeInv'
<1> SUFFICES ASSUME None \notin Supervisors, ServeInv, [ServeNext]_serveVars PROVE ServeInv'
  OBVIOUS
<1>1. CASE UNCHANGED serveVars
  BY <1>1 DEF serveVars, ServeInv, ServeTypeOK, ExitInv, WindowInv, PathInv
<1>2. CASE ServeNext
  BY <1>2, BindKeeps, UnlinkKeeps, LaunchKeeps, QuietActions DEF ServeNext, Proceed
<1> QED BY <1>1, <1>2

LEMMA ServeInvariance == None \notin Supervisors => (ServeSpec => []ServeInv)
<1> SUFFICES ASSUME None \notin Supervisors PROVE ServeSpec => []ServeInv
  OBVIOUS
<1>1. ServeInit => ServeInv
  BY ServeStarts
<1>2. ServeInv /\ [ServeNext]_serveVars => ServeInv'
  BY ServeStep
<1>3. QED
  BY <1>1, <1>2, PTL DEF ServeSpec

(* `waitbus serve` returns 0 only when it was told to stop and its daemon  *)
(* had come up and ended without an exception, or was cancelled past the   *)
(* bound of its join, however the stop, the daemon's end, the ticks'       *)
(* threads and the teardown fall together; unless a SIGINT fell before its *)
(* handlers were installed.                                                *)
THEOREM ZeroMeansStopped == None \notin Supervisors => (ServeSpec => []ExitCodeTellsTheBus)
<1>1. ServeInv => ExitCodeTellsTheBus
  BY DEF ServeInv, ExitInv, CodeEarned, ExitCodeTellsTheBus, Is
<1>2. QED
  BY ServeInvariance, <1>1, PTL

(* Of any number of supervisors over one path, only one that bound while   *)
(* another was about to bind, listening or closing can ever lose its       *)
(* socket file: the probe protects everybody else.                         *)
THEOREM StrandedKnewTheWindow == None \notin Supervisors => (ServeSpec => []StrandedOnlyInAWindow)
<1>1. ServeInv => StrandedOnlyInAWindow
  BY DEF ServeInv, PathInv, Up, StrandedOnlyInAWindow, Alive, Is
<1>2. QED
  BY ServeInvariance, <1>1, PTL

-----------------------------------------------------------------------------
(* Watchdog: one announcement per outage, for any threshold, any length of *)
(* time and any number of killed checks.                                   *)

WatchdogTypeOK ==
  /\ clock \in Int /\ latest \in Int
  /\ check \in [step : {"none", "bootstrap", "judge", "notify"},
                latest : Int, age : Int, code : {0, 1, 2}]
  /\ told \in Int

(* What the announcements owe to the flag: without it there are none, and  *)
(* a check that is about to announce has touched it itself.                *)
FlagInv ==
  /\ ~stale => told = 0 /\ ~muffled
  /\ check.step = "notify" => stale /\ told = 0 /\ ~muffled
  /\ OutageIsAnnouncedOnce

WatchdogInv == WatchdogTypeOK /\ FlagInv

LEMMA WatchdogStarts == Init => WatchdogInv
<1> SUFFICES ASSUME Init PROVE WatchdogInv
  OBVIOUS
<1>1. check = Asleep /\ check.step = "none"
  BY DEF Init, Asleep
<1>2. check \in [step : {"none", "bootstrap", "judge", "notify"},
                latest : Int, age : Int, code : {0, 1, 2}]
  BY <1>1 DEF Asleep
<1>3. WatchdogTypeOK
  BY <1>2 DEF Init, WatchdogTypeOK
<1>4. FlagInv
  BY <1>1 DEF Init, FlagInv, OutageIsAnnouncedOnce
<1> QED BY <1>3, <1>4 DEF WatchdogInv

(* A check reads, decides, touches the flag and announces.                 *)
LEMMA CheckKeeps ==
  ASSUME WatchdogInv, Query \/ Bootstrap \/ Fresh \/ Stale \/ NotifySend
  PROVE  WatchdogInv'
<1> USE DEF WatchdogInv, WatchdogTypeOK, FlagInv, OutageIsAnnouncedOnce, World, Asleep
<1>1. CASE Query
  <2>1. CASE check' = [Asleep EXCEPT !.step = "bootstrap", !.latest = latest]
    <3>1. check' = [step |-> "bootstrap", latest |-> latest, age |-> -1, code |-> 0]
      BY <2>1
    <3> QED BY <1>1, <3>1 DEF Query
  <2>2. CASE check' = [Asleep EXCEPT !.code = 2]
    BY <1>1, <2>2 DEF Query
  <2> QED BY <1>1, <2>1, <2>2 DEF Query
<1>2. CASE Bootstrap
  <2>1. CASE everSeen'
    <3>1. PICK age \in Int : check' = [check EXCEPT !.step = "judge", !.age = age]
      <4>1. -1 \in Int /\ clock - check.latest \in Int
        OBVIOUS
      <4>2. check' = [check EXCEPT !.step = "judge",
                       !.age = IF check.latest = -1 THEN -1 ELSE clock - check.latest]
        BY <1>2, <2>1, Zenon DEF Bootstrap
      <4> QED BY <4>1, <4>2
    <3>2. UNCHANGED <<clock, latest, stale, told, muffled>>
      BY <1>2, <2>1, Zenon DEF Bootstrap
    <3>3. check' \in [step : {"none", "bootstrap", "judge", "notify"},
                       latest : Int, age : Int, code : {0, 1, 2}] /\ check'.step = "judge"
      BY <3>1
    <3> QED BY <1>2, <3>2, <3>3 DEF Bootstrap
  <2>2. CASE ~everSeen'
    BY <1>2, <2>2 DEF Bootstrap
  <2> QED BY <2>1, <2>2
<1>3. CASE Fresh
  BY <1>3 DEF Fresh
<1>4. CASE Stale
  <2>1. CASE stale
    BY <1>4, <2>1 DEF Stale
  <2>2. CASE ~stale
    BY <1>4, <2>2 DEF Stale
  <2> QED BY <2>1, <2>2
<1>5. CASE NotifySend
  BY <1>5 DEF NotifySend
<1> QED BY <1>1, <1>2, <1>3, <1>4, <1>5

(* A kill between the flag and the announcement is what muffled records.   *)
LEMMA KillKeeps == ASSUME WatchdogInv, Kill PROVE WatchdogInv'
<1>1. muffled' <=> muffled \/ check.step = "notify"
  BY Zenon DEF Kill
<1>2. check' = Asleep /\ UNCHANGED <<clock, latest, stale, told>>
  BY DEF Kill
<1>3. WatchdogTypeOK'
  BY <1>2 DEF WatchdogInv, WatchdogTypeOK, Asleep
<1>4. FlagInv'
  BY <1>1, <1>2 DEF WatchdogInv, FlagInv, OutageIsAnnouncedOnce, Asleep
<1> QED BY <1>3, <1>4 DEF WatchdogInv

LEMMA WatchdogStep == WatchdogInv /\ [Next]_watchdogVars => WatchdogInv'
<1> SUFFICES ASSUME WatchdogInv, [Next]_watchdogVars PROVE WatchdogInv'
  OBVIOUS
<1>1. CASE Query \/ Bootstrap \/ Fresh \/ Stale \/ NotifySend
  BY <1>1, CheckKeeps
<1>2. CASE Kill
  BY <1>2, KillKeeps
<1>3. CASE Heartbeat \/ Prune \/ Tick
  BY <1>3 DEF Heartbeat, Prune, Tick, WatchdogInv, WatchdogTypeOK, FlagInv, OutageIsAnnouncedOnce
<1>4. CASE UNCHANGED watchdogVars
  BY <1>4 DEF watchdogVars, WatchdogInv, WatchdogTypeOK, FlagInv, OutageIsAnnouncedOnce
<1> QED BY <1>1, <1>2, <1>3, <1>4 DEF Next

(* An outage is announced once, however many checks see it, whatever the   *)
(* clock, the heartbeats and the prunes do, and unless a check was killed  *)
(* between _check_once's touch of the flag and its notify_send.            *)
THEOREM AnnouncedOnce == Spec => []OutageIsAnnouncedOnce
<1>1. Init => WatchdogInv
  BY WatchdogStarts
<1>2. WatchdogInv /\ [Next]_watchdogVars => WatchdogInv'
  BY WatchdogStep
<1>3. WatchdogInv => OutageIsAnnouncedOnce
  BY DEF WatchdogInv, FlagInv
<1> QED BY <1>1, <1>2, <1>3, PTL DEF Spec

-----------------------------------------------------------------------------
(* Store: migrations, prunes and the daemon's cursor over one file, for    *)
(* any number of processes, rows and crashes.                              *)

(* `db prune --vacuum` has replaced the file.                              *)
Swapped == "swapped" \in moved

(* Who applies migrations has them in order, on a tracking table.          *)
Ordered(p) ==
  pc[p] \in {"apply", "apply_tx"} => tracked # Nil /\ (2 \in pending[p] => 1 \in pending[p] \cup tracked)

Chosen(p) == pc[p] = "apply_tx" => pending[p] # {}

OnceEach ==
  \A m \in Migrations :
    ran[m] = 0 \/ (ran[m] = 1 /\ tracked # Nil /\ 1 .. m \subseteq tracked /\ (m = 2 => table = "seq"))

(* The rows a store can hold: of events born, numbered up to the highest.  *)
RowsOK ==
  /\ high \in Nat /\ born \in Nat /\ cursor \in Nat
  /\ rows \in SUBSET (Nat \X Nat) /\ IsFiniteSet(rows)
  /\ \A r \in rows : r[1] <= born /\ r[2] <= high

ShapeOK ==
  /\ DOMAIN pc = Procs
  /\ pending \in [Procs -> SUBSET Migrations]
  /\ ran \in [Migrations -> Nat]
  /\ table \in {"none", "old", "keyed", "seq"}
  /\ tracked = Nil \/ tracked \in SUBSET (1 .. 3)

(* A daemon serves a numbered table and is not ahead of its numbers.       *)
ServedOK == moved # {} \/ Serving = {} \/ (table = "seq" /\ cursor <= high)

(* All that holds of a store that was never swapped away.                  *)
StoreGood ==
  /\ ShapeOK
  /\ \A p \in Procs : Ordered(p) /\ Chosen(p)
  /\ OnceEach
  /\ RowsOK
  /\ ServedOK
  /\ NothingIsStranded

(* After a swap nothing is promised.                                       *)
StoreInv == Swapped \/ StoreGood

-----------------------------------------------------------------------------
(* Max and Min of what is compared here are what their names say.          *)

(* Numbers have a least one.                                               *)
LEMMA LeastNatural ==
  ASSUME NEW T \in SUBSET Nat, T # {}
  PROVE  \E n \in T : \A m \in T : n <= m
<1> DEFINE less == {ss \in Nat \X Nat : ss[1] < ss[2]}
<1>1. IsWellFoundedOn(less, Nat)
  BY NatLessThanWellFounded DEF OpToRel
<1> HIDE DEF less
<1>2. PICK n \in T : \A m \in T : <<m, n>> \notin less
  BY <1>1, WFMin
<1>3. ASSUME NEW m \in T PROVE n <= m
  <2>1. <<m, n>> \in Nat \X Nat /\ <<m, n>> \notin less
    BY <1>2
  <2> QED BY <2>1 DEF less
<1> QED BY <1>3

(* A set of numbers with a bound has a highest one.                        *)
LEMMA MaxIsMax ==
  ASSUME NEW S \in SUBSET Nat, S # {}, NEW b \in Nat, \A x \in S : x <= b
  PROVE  Max(S) \in S /\ \A x \in S : x <= Max(S)
<1> DEFINE T == {b - x : x \in S}
<1>1. T \in SUBSET Nat /\ T # {}
  <2>1. \A x \in S : b - x \in Nat
    OBVIOUS
  <2>2. PICK x \in S : TRUE
    OBVIOUS
  <2>3. b - x \in T
    OBVIOUS
  <2> QED BY <2>1, <2>3
<1>2. \E n \in T : \A m \in T : n <= m
  BY <1>1, LeastNatural
<1>3. PICK y \in S : \A m \in T : b - y <= m
  BY <1>2
<1>4. \A x \in S : y >= x
  <2> TAKE x \in S
  <2>1. b - y <= b - x
    BY <1>3
  <2> QED BY <2>1
<1> QED BY <1>4 DEF Max

(* Migration 0001 goes before 0002.                                        *)
LEMMA MinOfMigrations ==
  ASSUME NEW S \in SUBSET Migrations, S # {}
  PROVE  Min(S) \in S /\ (1 \in S => Min(S) = 1)
<1>1. \A y \in S : y = 1 \/ y = 2
  BY DEF Migrations
<1>2. \E x \in S : \A y \in S : x <= y
  <2>1. CASE 1 \in S
    BY <1>1, <2>1
  <2>2. CASE 1 \notin S
    <3>1. PICK x \in S : TRUE
      OBVIOUS
    <3>2. \A y \in S : y = 2
      BY <1>1, <2>2
    <3>3. \A y \in S : x <= y
      BY <3>2
    <3> QED BY <3>3
  <2> QED BY <2>1, <2>2
<1> DEFINE min == Min(S)
<1>3. min \in S /\ \A y \in S : min <= y
  BY <1>2 DEF Min
<1> HIDE DEF min
<1>4. 1 \in S => min = 1
  BY <1>1, <1>3
<1> QED BY <1>3, <1>4 DEF min

(* No row lies above the highest number.                                   *)
LEMMA SeqsBounded ==
  ASSUME RowsOK
  PROVE  SeqsOf(rows) \in SUBSET Nat /\ \A x \in SeqsOf(rows) : x <= high
  BY DEF RowsOK, SeqsOf

(* No row is renumbered above the number of rows.                          *)
LEMMA RanksBounded ==
  ASSUME RowsOK, NEW r \in rows
  PROVE  /\ Rank(r) \in Nat /\ Cardinality(rows) \in Nat
         /\ Rank(r) <= Cardinality(rows)
<1> DEFINE S == {x \in rows : x[1] <= r[1]}
<1>1. IsFiniteSet(rows) /\ S \in SUBSET rows
  BY DEF RowsOK
<1>2. IsFiniteSet(S) /\ Cardinality(S) <= Cardinality(rows)
  BY <1>1, FS_Subset
<1> QED BY <1>1, <1>2, FS_CardinalityType DEF Rank

-----------------------------------------------------------------------------
(* Only `db migrate` comes to the plan, and it has a target.               *)

Targeted(p) ==
  /\ job[p] \in Jobs
  /\ pc[p] \in {"columns", "schema", "schema_tx"} => job[p].kind # "prune"
  /\ pc[p] = "plan" => job[p].kind = "migrate"

(* A process stays with the command it was started for.                    *)
JobInv == DOMAIN pc = Procs /\ DOMAIN job = Procs /\ \A p \in Procs : Targeted(p)

LEMMA JobMoves ==
  ASSUME JobInv, NEW p \in Procs, NEW where, Goto(p, where), UNCHANGED job,
         where \in {"columns", "schema", "schema_tx"} => job[p].kind # "prune",
         where = "plan" => job[p].kind = "migrate"
  PROVE  JobInv'
<1>1. DOMAIN pc' = Procs /\ pc'[p] = where /\ \A q \in Procs \ {p} : pc'[q] = pc[q]
  BY DEF JobInv, Goto
<1> QED BY <1>1 DEF JobInv, Targeted

(* No command becomes another one.                                         *)
LEMMA JobStep == ASSUME JobInv, NEW p \in Procs, Step(p) PROVE JobInv'
<1>1. CASE \E j \in Jobs : Command(p, j)
  <2>1. PICK j \in Jobs : Command(p, j)
    BY <1>1
  <2> DEFINE first == IF j.kind = "prune" THEN "check"
                      ELSE IF j.kind = "migrate" /\ file THEN "plan" ELSE "columns"
  <2>2. pc' = [pc EXCEPT ![p] = first] /\ job' = [job EXCEPT ![p] = j]
    BY <2>1 DEF Command, Goto
  <2>3. /\ first \in {"columns", "schema", "schema_tx"} => j.kind # "prune"
        /\ first = "plan" => j.kind = "migrate"
    OBVIOUS
  <2> HIDE DEF first
  <2>4. /\ DOMAIN pc' = Procs /\ pc'[p] = first /\ \A q \in Procs \ {p} : pc'[q] = pc[q]
        /\ DOMAIN job' = Procs /\ job'[p] = j /\ \A q \in Procs \ {p} : job'[q] = job[q]
    BY <2>2 DEF JobInv
  <2> QED BY <2>3, <2>4 DEF JobInv, Targeted
<1>2. CASE ReadColumns(p)
  <2>1. pc[p] = "columns" /\ Goto(p, "schema") /\ UNCHANGED job
    BY <1>2 DEF ReadColumns
  <2> QED BY <2>1, JobMoves DEF JobInv, Targeted
<1>3. CASE RetrySchema(p) \/ Sweep(p)
  BY <1>3 DEF RetrySchema, Sweep, procs, JobInv, Targeted
<1>4. CASE BeginTx(p, "schema", "schema_tx")
  <2>1. pc[p] = "schema" /\ Goto(p, "schema_tx") /\ UNCHANGED job
    BY <1>4 DEF BeginTx
  <2> QED BY <2>1, JobMoves DEF JobInv, Targeted
<1>5. CASE CommitSchema(p)
  <2>1. UNCHANGED job /\ pc[p] = "schema_tx"
    BY <1>5 DEF CommitSchema
  <2>2. CASE Goto(p, "seed") \/ Goto(p, "mark") \/ Goto(p, "failed")
    BY <2>1, <2>2, JobMoves
  <2>3. CASE job[p].kind \notin {"daemon", "init"} /\ Goto(p, "plan")
    <3>1. job[p].kind = "migrate"
      BY <2>1, <2>3 DEF JobInv, Targeted, Jobs
    <3> QED BY <2>1, <2>3, <3>1, JobMoves
  <2> QED BY <1>5, <2>2, <2>3 DEF CommitSchema, Commit, Rollback
<1>6. ASSUME NEW where \in {"serving", "failed", "idle", "apply", "apply_tx", "delete", "delete_tx", "vacuum", "replace"},
             Goto(p, where), UNCHANGED job
      PROVE  JobInv'
  BY <1>6, JobMoves
<1>7. CASE Seed(p) \/ MarkBaseline(p) \/ Plan(p) \/ ApplyDone(p) \/ ApplyOne(p)
           \/ BusyTx(p, "schema") \/ BusyTx(p, "apply") \/ BusyTx(p, "delete")
  BY <1>6, <1>7 DEF Seed, MarkBaseline, Plan, ApplyDone, ApplyOne, BusyTx, Commit, Rollback
<1>8. CASE BeginTx(p, "apply", "apply_tx") \/ Doom(p) \/ BeginTx(p, "delete", "delete_tx")
           \/ Delete(p) \/ Copy(p) \/ End(p)
  BY <1>6, <1>8 DEF BeginTx, Doom, Delete, Copy, End, Commit
<1>9. CASE Replace(p)
  <2>1. /\ pc' = [q \in Procs |-> IF q = p THEN "idle" ELSE IF pc[q] \in Connected THEN "astray" ELSE pc[q]]
        /\ UNCHANGED job
    BY <1>9 DEF Replace
  <2> QED BY <2>1 DEF JobInv, Targeted
<1> QED BY <1>1, <1>2, <1>3, <1>4, <1>5, <1>7, <1>8, <1>9 DEF Step

LEMMA JobInvariance == StoreSpec => []JobInv
<1>1. StoreInit => JobInv
  BY DEF StoreInit, JobInv, Targeted, Jobs
<1>2. JobInv /\ [StoreNext]_storeVars => JobInv'
  <2> SUFFICES ASSUME JobInv, [StoreNext]_storeVars PROVE JobInv'
    OBVIOUS
  <2>1. CASE UNCHANGED storeVars \/ Insert
    BY <2>1 DEF storeVars, procs, Insert, JobInv, Targeted
  <2> QED BY <2>1, JobStep DEF StoreNext
<1> QED BY <1>1, <1>2, PTL DEF StoreSpec

-----------------------------------------------------------------------------
(* A step that moves no row and numbers nothing.                           *)

(* A row of _schema_version is never taken back.                           *)
TrackedGrows == tracked' = tracked \/ (tracked' # Nil /\ Tracked \subseteq tracked')

(* Unless it has to do with rows, a step only must not take a record or a  *)
(* shape back.                                                             *)
LEMMA DataKeeps ==
  ASSUME StoreGood, UNCHANGED <<rows, high, cursor, born, moved, ran>>, owed' \subseteq owed,
         TrackedGrows, table = "seq" => table' = "seq", Serving' \subseteq Serving,
         ShapeOK', \A p \in Procs : Ordered(p)' /\ Chosen(p)'
  PROVE  StoreGood'
<1>1. OnceEach'
  BY DEF StoreGood, OnceEach, TrackedGrows, Tracked
<1>2. RowsOK'
  BY DEF StoreGood, RowsOK
<1>3. ServedOK'
  BY DEF StoreGood, ServedOK
<1>4. NothingIsStranded'
  BY DEF StoreGood, NothingIsStranded
<1> QED BY <1>1, <1>2, <1>3, <1>4 DEF StoreGood

(* A process goes to where nothing is applied.                             *)
LEMMA Moves ==
  ASSUME StoreGood, NEW p \in Procs, NEW where, Goto(p, where), where \notin {"apply", "apply_tx", "serving"},
         UNCHANGED pending, TrackedGrows
  PROVE  /\ DOMAIN pc' = Procs /\ pending' \in [Procs -> SUBSET Migrations]
         /\ \A q \in Procs : Ordered(q)' /\ Chosen(q)'
         /\ Serving' \subseteq Serving
<1>1. DOMAIN pc' = Procs /\ pc'[p] = where /\ \A q \in Procs \ {p} : pc'[q] = pc[q]
  BY DEF StoreGood, ShapeOK, Goto
<1>2. pending \in [Procs -> SUBSET Migrations]
  BY DEF StoreGood, ShapeOK
<1>3. \A q \in Procs : Ordered(q)' /\ Chosen(q)'
  <2> TAKE q \in Procs
  <2>1. CASE q = p
    BY <1>1, <2>1 DEF Ordered, Chosen
  <2>2. CASE q # p
    BY <1>1, <2>2 DEF StoreGood, Ordered, Chosen, TrackedGrows, Tracked
  <2> QED BY <2>1, <2>2
<1>4. Serving' \subseteq Serving
  BY <1>1 DEF Serving
<1> QED BY <1>1, <1>2, <1>3, <1>4

(* And changes nothing else.                                               *)
LEMMA QuietStoreStep ==
  ASSUME StoreGood, NEW p \in Procs, NEW where, Goto(p, where), where \notin {"apply", "apply_tx", "serving"},
         UNCHANGED <<table, tracked, rows, high, pending, cursor, born, owed, ran, moved>>
  PROVE  StoreGood'
<1>1. TrackedGrows
  BY DEF TrackedGrows
<1>2. ShapeOK'
  BY <1>1, Moves DEF StoreGood, ShapeOK
<1> QED BY <1>1, <1>2, Moves, DataKeeps

LEMMA StillKeeps ==
  ASSUME StoreGood, UNCHANGED <<table, tracked, rows, high, pc, pending, cursor, born, owed, ran, moved>>
  PROVE  StoreGood'
<1>1. ShapeOK' /\ (\A p \in Procs : Ordered(p)' /\ Chosen(p)')
  BY DEF StoreGood, ShapeOK, Ordered, Chosen
<1>2. Serving' = Serving /\ TrackedGrows
  BY DEF Serving, TrackedGrows
<1> QED BY <1>1, <1>2, DataKeeps

LEMMA SimpleSteps ==
  ASSUME StoreGood, NEW p \in Procs,
         \/ \E j \in Jobs : Command(p, j)
         \/ ReadColumns(p) \/ RetrySchema(p) \/ BeginTx(p, "schema", "schema_tx")
         \/ BusyTx(p, "schema") \/ ApplyDone(p) \/ BusyTx(p, "apply")
         \/ Doom(p) \/ BeginTx(p, "delete", "delete_tx") \/ BusyTx(p, "delete") \/ Copy(p)
  PROVE  StoreGood'
<1> USE DEF disk, history
<1>1. CASE \E j \in Jobs : Command(p, j)
  <2>1. PICK j \in Jobs : Command(p, j)
    BY <1>1
  <2>2. PICK where \in {"check", "plan", "columns"} : Goto(p, where)
    BY <2>1 DEF Command
  <2> QED BY <2>1, <2>2, QuietStoreStep DEF Command
<1>2. CASE ReadColumns(p)
  BY <1>2, QuietStoreStep DEF ReadColumns
<1>3. CASE RetrySchema(p)
  BY <1>3, StillKeeps DEF RetrySchema
<1>4. CASE BeginTx(p, "schema", "schema_tx") \/ BeginTx(p, "delete", "delete_tx")
  BY <1>4, QuietStoreStep DEF BeginTx
<1>5. CASE BusyTx(p, "schema") \/ BusyTx(p, "apply") \/ BusyTx(p, "delete")
  BY <1>5, QuietStoreStep DEF BusyTx
<1>6. CASE ApplyDone(p)
  BY <1>6, QuietStoreStep DEF ApplyDone
<1>7. CASE Doom(p)
  BY <1>7, QuietStoreStep DEF Doom
<1>8. CASE Copy(p)
  BY <1>8, QuietStoreStep DEF Copy
<1> QED BY <1>1, <1>2, <1>3, <1>4, <1>5, <1>6, <1>7, <1>8

-----------------------------------------------------------------------------
LEMMA CommitSchemaKeeps == ASSUME StoreGood, NEW p \in Procs, CommitSchema(p) PROVE StoreGood'
<1>1. UNCHANGED <<tracked, rows, high, pending, cursor, born, owed, ran, moved>>
  BY DEF CommitSchema, Rollback
<1>2. table' = table \/ table' = Ensured(table)
  BY DEF CommitSchema, Rollback, disk
<1>3. PICK where \in {"seed", "mark", "plan", "failed"} : Goto(p, where)
  BY DEF CommitSchema, Rollback, Commit
<1>4. table' \in {"none", "old", "keyed", "seq"} /\ (table = "seq" => table' = "seq")
  BY <1>2 DEF Ensured, StoreGood, ShapeOK
<1>5. TrackedGrows
  BY <1>1 DEF TrackedGrows
<1>6. ShapeOK'
  BY <1>1, <1>3, <1>4, <1>5, Moves DEF StoreGood, ShapeOK
<1> QED BY <1>1, <1>3, <1>4, <1>5, <1>6, Moves, DataKeeps

LEMMA MarkBaselineKeeps == ASSUME StoreGood, NEW p \in Procs, MarkBaseline(p) PROVE StoreGood'
<1>1. UNCHANGED <<table, rows, high, pending, cursor, born, owed, ran, moved>>
  BY DEF MarkBaseline, history
<1>2. tracked' = tracked \/ tracked' = Tracked \cup Migrations
  BY DEF MarkBaseline
<1>3. PICK where \in {"idle", "failed"} : Goto(p, where)
  BY DEF MarkBaseline
<1>4. Tracked \cup Migrations \in SUBSET (1 .. 3)
  BY DEF StoreGood, ShapeOK, Tracked, Migrations
<1>5. TrackedGrows /\ (tracked' = Nil \/ tracked' \in SUBSET (1 .. 3))
  BY <1>2, <1>4, StoreAssumption DEF TrackedGrows, StoreGood, ShapeOK
<1>6. ShapeOK'
  BY <1>1, <1>3, <1>5, Moves DEF StoreGood, ShapeOK
<1> QED BY <1>1, <1>3, <1>5, <1>6, Moves, DataKeeps

LEMMA PlanKeeps == ASSUME StoreGood, JobInv, NEW p \in Procs, Plan(p) PROVE StoreGood'
<1>1. UNCHANGED <<table, rows, high, cursor, born, owed, ran, moved>>
  BY DEF Plan, history
<1>2. CASE Goto(p, "failed") /\ UNCHANGED <<tracked, pending>>
  BY <1>1, <1>2, QuietStoreStep
<1>3. CASE ~(Goto(p, "failed") /\ UNCHANGED <<tracked, pending>>)
  <2> DEFINE due == {m \in Migrations \ Tracked : m <= job[p].target}
  <2>1. tracked' = Tracked /\ pending' = [pending EXCEPT ![p] = due] /\ Goto(p, "apply")
    BY <1>3 DEF Plan
  <2>2. Tracked \in SUBSET (1 .. 3) /\ Tracked # Nil
    BY StoreAssumption DEF StoreGood, ShapeOK, Tracked
  <2>3. due \in SUBSET Migrations /\ (2 \in due => 1 \in due \cup Tracked)
    <3>1. job[p].target \in Migrations
      BY DEF Plan, JobInv, Targeted, Jobs
    <3>2. 2 \in due /\ 1 \notin Tracked => 1 <= job[p].target
      BY <3>1 DEF Migrations
    <3> QED BY <3>2 DEF Migrations
  <2> HIDE DEF due
  <2>4. DOMAIN pc' = Procs /\ pc'[p] = "apply" /\ \A q \in Procs \ {p} : pc'[q] = pc[q]
    BY <2>1 DEF StoreGood, ShapeOK, Goto
  <2>5. /\ pending' \in [Procs -> SUBSET Migrations] /\ pending'[p] = due
        /\ \A q \in Procs \ {p} : pending'[q] = pending[q]
    BY <2>1, <2>3 DEF StoreGood, ShapeOK
  <2>6. TrackedGrows
    BY <2>1, <2>2 DEF TrackedGrows
  <2>7. ShapeOK'
    BY <1>1, <2>1, <2>2, <2>4, <2>5 DEF StoreGood, ShapeOK
  <2>8. \A q \in Procs : Ordered(q)' /\ Chosen(q)'
    <3> TAKE q \in Procs
    <3>1. CASE q = p
      BY <2>1, <2>2, <2>3, <2>4, <2>5, <3>1 DEF Ordered, Chosen
    <3>2. CASE q # p
      BY <2>4, <2>5, <2>6, <3>2 DEF StoreGood, Ordered, Chosen, TrackedGrows, Tracked
    <3> QED BY <3>1, <3>2
  <2>9. Serving' \subseteq Serving
    BY <2>4 DEF Serving
  <2> QED BY <1>1, <2>6, <2>7, <2>8, <2>9, DataKeeps
<1> QED BY <1>2, <1>3

LEMMA BeginApplyKeeps ==
  ASSUME StoreGood, NEW p \in Procs, pending[p] # {}, BeginTx(p, "apply", "apply_tx")
  PROVE  StoreGood'
<1>1. /\ UNCHANGED <<table, tracked, rows, high, pending, cursor, born, owed, ran, moved>>
      /\ pc[p] = "apply" /\ Goto(p, "apply_tx")
  BY DEF BeginTx, disk, history
<1>2. DOMAIN pc' = Procs /\ pc'[p] = "apply_tx" /\ \A q \in Procs \ {p} : pc'[q] = pc[q]
  BY <1>1 DEF StoreGood, ShapeOK, Goto
<1>3. ShapeOK'
  BY <1>1, <1>2 DEF StoreGood, ShapeOK
<1>4. \A q \in Procs : Ordered(q)' /\ Chosen(q)'
  <2> TAKE q \in Procs
  <2>1. CASE q = p
    BY <1>1, <1>2, <2>1 DEF StoreGood, Ordered, Chosen
  <2>2. CASE q # p
    BY <1>1, <1>2, <2>2 DEF StoreGood, Ordered, Chosen
  <2> QED BY <2>1, <2>2
<1>5. Serving' \subseteq Serving /\ TrackedGrows
  BY <1>1, <1>2 DEF Serving, TrackedGrows
<1> QED BY <1>1, <1>3, <1>4, <1>5, DataKeeps

LEMMA EndKeeps == ASSUME StoreGood, NEW p \in Procs, End(p) PROVE StoreGood'
<1>1. /\ UNCHANGED <<table, tracked, rows, high, cursor, born, ran, moved>>
      /\ owed' \subseteq owed /\ Goto(p, "idle") /\ pending' = [pending EXCEPT ![p] = {}]
  BY DEF End, disk
<1>2. DOMAIN pc' = Procs /\ pc'[p] = "idle" /\ \A q \in Procs \ {p} : pc'[q] = pc[q]
  BY <1>1 DEF StoreGood, ShapeOK, Goto
<1>3. pending' \in [Procs -> SUBSET Migrations] /\ \A q \in Procs \ {p} : pending'[q] = pending[q]
  BY <1>1 DEF StoreGood, ShapeOK
<1>4. ShapeOK'
  BY <1>1, <1>2, <1>3 DEF StoreGood, ShapeOK
<1>5. \A q \in Procs : Ordered(q)' /\ Chosen(q)'
  <2> TAKE q \in Procs
  <2>1. CASE q = p
    BY <1>2, <2>1 DEF Ordered, Chosen
  <2>2. CASE q # p
    BY <1>1, <1>2, <1>3, <2>2 DEF StoreGood, Ordered, Chosen
  <2> QED BY <2>1, <2>2
<1>6. Serving' \subseteq Serving /\ TrackedGrows
  BY <1>1, <1>2 DEF Serving, TrackedGrows
<1> QED BY <1>1, <1>4, <1>5, <1>6, DataKeeps

-----------------------------------------------------------------------------
(* Rows.                                                                   *)

(* A new row gets the number after the highest ever, which no cursor has   *)
(* reached.                                                                *)
LEMMA RowInsertKeeps == StoreGood /\ Insert => StoreGood'
<1> SUFFICES ASSUME StoreGood, Insert PROVE StoreGood'
  OBVIOUS
<1> DEFINE row == <<born + 1, high'>>
<1>1. /\ UNCHANGED <<table, tracked, pc, pending, cursor, ran, moved>>
      /\ high' = IF table = "seq" THEN high + 1 ELSE high
      /\ rows' = rows \cup {row} /\ born' = born + 1
      /\ owed' = IF Serving = {} THEN owed ELSE owed \cup {born + 1}
  BY DEF Insert, Inserted, procs
<1>2. high \in Nat /\ born \in Nat /\ high' \in Nat /\ high <= high'
  BY <1>1 DEF StoreGood, RowsOK
<1>3. IsFiniteSet(rows')
  BY <1>1, FS_AddElement DEF StoreGood, RowsOK
<1>4. rows' \in SUBSET (Nat \X Nat) /\ \A r \in rows' : r[1] <= born' /\ r[2] <= high'
  <2>1. row \in Nat \X Nat /\ row[1] = born + 1 /\ row[2] = high'
    BY <1>2
  <2>2. rows \in SUBSET (Nat \X Nat) /\ \A r \in rows : r[1] \in Nat /\ r[2] \in Nat /\ r[1] <= born /\ r[2] <= high
    BY DEF StoreGood, RowsOK
  <2> HIDE DEF row
  <2> QED BY <1>1, <1>2, <2>1, <2>2
<1>5. RowsOK'
  BY <1>1, <1>2, <1>3, <1>4 DEF StoreGood, RowsOK
<1>6. Serving' = Serving
  BY <1>1 DEF Serving
<1>7. ServedOK'
  BY <1>1, <1>2, <1>6 DEF StoreGood, ServedOK, RowsOK
<1>8. NothingIsStranded'
  <2> SUFFICES ASSUME moved = {}, Serving # {}, NEW r \in rows', r[1] \in owed'
               PROVE  r[2] > cursor
    BY <1>1, <1>6 DEF NothingIsStranded
  <2>1. table = "seq" /\ cursor <= high /\ cursor \in Nat
    BY DEF StoreGood, ServedOK, RowsOK
  <2>2. CASE r \in rows
    <3>1. r[1] <= born /\ r[1] \in Nat
      BY <2>2 DEF StoreGood, RowsOK
    <3>2. r[1] \in owed
      BY <1>1, <1>2, <3>1
    <3> QED BY <2>2, <3>2 DEF StoreGood, NothingIsStranded
  <2>3. CASE r = row
    BY <1>1, <1>2, <2>1, <2>3
  <2> QED BY <1>1, <2>2, <2>3
<1>9. ShapeOK' /\ OnceEach' /\ \A p \in Procs : Ordered(p)' /\ Chosen(p)'
  BY <1>1 DEF StoreGood, ShapeOK, OnceEach, Ordered, Chosen
<1> QED BY <1>5, <1>7, <1>8, <1>9 DEF StoreGood

LEMMA DeleteKeeps == ASSUME StoreGood, NEW p \in Procs, Delete(p) PROVE StoreGood'
<1>1. /\ UNCHANGED <<table, tracked, high, pending, cursor, born, ran, moved>>
      /\ rows' \subseteq rows /\ owed' \subseteq owed
  BY DEF Delete
<1>2. PICK where \in {"vacuum", "idle"} : Goto(p, where)
  BY DEF Delete, Commit
<1>3. TrackedGrows
  BY <1>1 DEF TrackedGrows
<1>4. ShapeOK' /\ (\A q \in Procs : Ordered(q)' /\ Chosen(q)') /\ Serving' \subseteq Serving
  BY <1>1, <1>2, <1>3, Moves DEF StoreGood, ShapeOK
<1>5. RowsOK'
  <2>1. IsFiniteSet(rows')
    BY <1>1, FS_Subset DEF StoreGood, RowsOK
  <2> QED BY <1>1, <2>1 DEF StoreGood, RowsOK
<1>6. OnceEach' /\ ServedOK'
  BY <1>1, <1>4 DEF StoreGood, OnceEach, ServedOK
<1>7. NothingIsStranded'
  BY <1>1, <1>4 DEF StoreGood, NothingIsStranded
<1> QED BY <1>4, <1>5, <1>6, <1>7 DEF StoreGood

(* The seed is a new row: it lies above the anchor of every driver.        *)
LEMMA SeedKeeps == ASSUME StoreGood, NEW p \in Procs, Seed(p) PROVE StoreGood'
<1>1. UNCHANGED <<table, tracked, rows, high, pending, born, ran, moved>>
  BY DEF Seed, disk
<1>2. CASE Goto(p, "failed") /\ UNCHANGED <<cursor, owed>>
  BY <1>1, <1>2, QuietStoreStep
<1>3. CASE ~(Goto(p, "failed") /\ UNCHANGED <<cursor, owed>>)
  <2>1. table = "seq" /\ cursor' = Max({0} \cup SeqsOf(rows)) /\ owed' = {} /\ Goto(p, "serving")
    BY <1>3 DEF Seed
  <2>2. cursor' \in Nat /\ cursor' <= high
    <3> DEFINE S == {0} \cup SeqsOf(rows)
    <3>1. S \in SUBSET Nat /\ S # {} /\ high \in Nat /\ \A x \in S : x <= high
      BY SeqsBounded DEF StoreGood, RowsOK
    <3>2. Max(S) \in S
      BY <3>1, MaxIsMax
    <3> QED BY <2>1, <3>1, <3>2
  <2>3. DOMAIN pc' = Procs /\ pc'[p] = "serving" /\ \A q \in Procs \ {p} : pc'[q] = pc[q]
    BY <2>1 DEF StoreGood, ShapeOK, Goto
  <2>4. ShapeOK' /\ OnceEach'
    BY <1>1, <2>3 DEF StoreGood, ShapeOK, OnceEach
  <2>5. \A q \in Procs : Ordered(q)' /\ Chosen(q)'
    <3> TAKE q \in Procs
    <3>1. CASE q = p
      BY <2>3, <3>1 DEF Ordered, Chosen
    <3>2. CASE q # p
      BY <1>1, <2>3, <3>2 DEF StoreGood, Ordered, Chosen
    <3> QED BY <3>1, <3>2
  <2>6. RowsOK' /\ ServedOK' /\ NothingIsStranded'
    BY <1>1, <2>1, <2>2 DEF StoreGood, RowsOK, ServedOK, NothingIsStranded
  <2> QED BY <2>4, <2>5, <2>6 DEF StoreGood
<1> QED BY <1>2, <1>3

LEMMA SweepKeeps == ASSUME StoreGood, NEW p \in Procs, Sweep(p) PROVE StoreGood'
<1>1. /\ UNCHANGED <<table, tracked, rows, high, pc, pending, born, ran, moved>>
      /\ cursor' = Max({cursor} \cup SeqsOf(rows))
      /\ owed' = owed \ {r[1] : r \in {x \in rows : x[2] > cursor}}
  BY DEF Sweep, disk, procs
<1>2. Serving' = Serving
  BY <1>1 DEF Serving
<1>3. cursor' \in Nat /\ (cursor <= high => cursor' <= high)
  <2> DEFINE S == {cursor} \cup SeqsOf(rows)
             b == high + cursor
  <2>1. S \in SUBSET Nat /\ S # {} /\ high \in Nat /\ cursor \in Nat
    BY SeqsBounded DEF StoreGood, RowsOK
  <2>2. b \in Nat /\ \A x \in S : x <= b
    BY <2>1, SeqsBounded DEF StoreGood, RowsOK
  <2> HIDE DEF b
  <2>3. Max(S) \in S
    BY <2>1, <2>2, MaxIsMax
  <2> QED BY <1>1, <2>1, <2>3, SeqsBounded DEF StoreGood
<1>4. RowsOK' /\ ServedOK'
  BY <1>1, <1>2, <1>3 DEF StoreGood, RowsOK, ServedOK
<1>5. NothingIsStranded'
  BY <1>1, <1>2 DEF StoreGood, NothingIsStranded
<1>6. ShapeOK' /\ OnceEach' /\ (\A q \in Procs : Ordered(q)' /\ Chosen(q)')
  BY <1>1 DEF StoreGood, ShapeOK, OnceEach, Ordered, Chosen
<1> QED BY <1>4, <1>5, <1>6 DEF StoreGood

-----------------------------------------------------------------------------
(* A migration's transaction.                                              *)

(* The body runs in one transaction with its record, and not when it is    *)
(* there already; 0002 renumbers the rows, so it is remembered in moved.   *)
LEMMA ApplyOneKeeps == ASSUME StoreGood, NEW p \in Procs, ApplyOne(p) PROVE StoreGood'
<1> DEFINE m == Min(pending[p])
<1>1. pc[p] = "apply_tx" /\ UNCHANGED <<cursor, born, owed>>
  BY DEF ApplyOne
<1>2. /\ pending[p] \in SUBSET Migrations /\ pending[p] # {} /\ tracked \in SUBSET (1 .. 3) /\ tracked # Nil
      /\ 2 \in pending[p] => 1 \in pending[p] \cup tracked
  BY <1>1 DEF StoreGood, ShapeOK, Ordered, Chosen
<1>3. m \in Migrations /\ m \in pending[p] /\ (m = 2 => 1 \in tracked)
  BY <1>2, MinOfMigrations DEF Migrations
<1> DEFINE known == UNCHANGED <<table, tracked, rows, high, ran, moved>>
           runs == /\ m \notin tracked /\ Migrated(m) # "none" /\ table' = Migrated(m)
                   /\ rows' = IF m = 2 THEN {<<r[1], Rank(r)>> : r \in rows} ELSE rows
                   /\ high' = IF m = 2 THEN Cardinality(rows) ELSE high
                   /\ ran' = [ran EXCEPT ![m] = @ + 1]
                   /\ moved' = IF m = 2 /\ table = "seq" THEN moved \cup {"renumbered"} ELSE moved
           goes == /\ pending' = [pending EXCEPT ![p] = @ \ {m}] /\ Goto(p, "apply")
                   /\ tracked' = tracked \cup {m}
                   /\ known \/ runs
           fails == UNCHANGED <<disk, ran, moved, pending>> /\ Goto(p, "failed")
<1>6. goes \/ fails
  <2>1. CASE Already(m) /\ known /\ Commit(p, "apply") /\ pending' = [pending EXCEPT ![p] = @ \ {m}]
    <3>1. tracked \cup {m} = tracked
      BY <2>1 DEF Already
    <3> QED BY <2>1, <3>1 DEF Commit
  <2>2. CASE runs /\ tracked' = tracked \cup {m} /\ Commit(p, "apply") /\ pending' = [pending EXCEPT ![p] = @ \ {m}]
    BY <2>2 DEF Commit
  <2>3. CASE Rollback(p) /\ UNCHANGED pending
    BY <2>3 DEF Rollback, Commit
  <2> QED BY <2>1, <2>2, <2>3 DEF ApplyOne, Already
<1> HIDE DEF m
<1>4. CASE fails
  BY <1>1, <1>4, QuietStoreStep DEF disk
<1>5. CASE goes
  <2>1. DOMAIN pc' = Procs /\ pc'[p] = "apply" /\ \A q \in Procs \ {p} : pc'[q] = pc[q]
    BY <1>5 DEF StoreGood, ShapeOK, Goto
  <2>2. /\ pending' \in [Procs -> SUBSET Migrations] /\ pending'[p] = pending[p] \ {m}
        /\ \A q \in Procs \ {p} : pending'[q] = pending[q]
    BY <1>5 DEF StoreGood, ShapeOK
  <2>3. tracked' \in SUBSET (1 .. 3) /\ tracked' # Nil
    <3>1. m \in 1 .. 3
      BY <1>3 DEF Migrations
    <3>2. tracked' = tracked \cup {m}
      BY <1>5
    <3>3. tracked' \in SUBSET (1 .. 3)
      BY <1>2, <3>1, <3>2
    <3> QED BY <3>3, StoreAssumption
  <2>4. \A q \in Procs : Ordered(q)' /\ Chosen(q)'
    <3> TAKE q \in Procs
    <3>1. CASE q = p
      BY <1>2, <1>5, <2>1, <2>2, <2>3, <3>1 DEF Ordered, Chosen
    <3>2. CASE q # p
      BY <1>5, <2>1, <2>2, <2>3, <3>2 DEF StoreGood, Ordered, Chosen
    <3> QED BY <3>1, <3>2
  <2>5. Serving' \subseteq Serving
    BY <2>1 DEF Serving
  <2>6. CASE known
    <3>1. ShapeOK' /\ TrackedGrows
      BY <2>1, <2>2, <2>6 DEF StoreGood, ShapeOK, TrackedGrows
    <3> QED BY <1>1, <2>4, <2>5, <2>6, <3>1, DataKeeps
  <2>7. CASE runs
    <3>1. /\ table' \in {"old", "keyed", "seq"} /\ (table = "seq" => table' = "seq")
          /\ m = 2 => table' = "seq" /\ table \in {"keyed", "seq"}
      BY <1>3, <2>7 DEF Migrated, Migrations, StoreGood, ShapeOK
    <3>2. ran' \in [Migrations -> Nat] /\ ran'[m] = ran[m] + 1 /\ \A k \in Migrations \ {m} : ran'[k] = ran[k]
      BY <1>3, <2>7 DEF StoreGood, ShapeOK
    <3>3. ShapeOK'
      BY <2>1, <2>2, <2>3, <3>1, <3>2 DEF ShapeOK
    <3>4. OnceEach'
      <4> SUFFICES ASSUME NEW k \in Migrations
                   PROVE  ran'[k] = 0 \/ (ran'[k] = 1 /\ 1 .. k \subseteq tracked' /\ (k = 2 => table' = "seq"))
        BY <2>3 DEF OnceEach
      <4>1. CASE k = m
        <5>1. k \in 1 .. k
          BY DEF Migrations
        <5>2. ran[m] = 0
          BY <1>3, <2>7, <4>1, <5>1 DEF StoreGood, OnceEach
        <5>3. 1 .. k \subseteq tracked'
          BY <1>3, <1>5, <4>1 DEF Migrations
        <5> QED BY <3>1, <3>2, <4>1, <5>2, <5>3
      <4>2. CASE k # m
        BY <1>5, <3>1, <3>2, <4>2 DEF StoreGood, OnceEach
      <4> QED BY <4>1, <4>2
    <3>5. RowsOK'
      <4>1. CASE m = 2
        <5> DEFINE again(r) == <<r[1], Rank(r)>>
        <5>1. rows' = {again(r) : r \in rows} /\ high' = Cardinality(rows)
          BY <2>7, <4>1
        <5>2. \A r \in rows : again(r) \in Nat \X Nat /\ r[1] <= born /\ Rank(r) <= Cardinality(rows)
          BY RanksBounded DEF StoreGood, RowsOK
        <5>3. IsFiniteSet(rows) /\ Cardinality(rows) \in Nat
          BY FS_CardinalityType DEF StoreGood, RowsOK
        <5>4. IsFiniteSet(rows')
          <6> DEFINE f == [r \in rows |-> again(r)]
          <6>1. f \in Surjection(rows, rows')
            BY <5>1 DEF Surjection
          <6> QED BY <5>3, <6>1, FS_Surjection
        <5>5. rows' \in SUBSET (Nat \X Nat) /\ \A x \in rows' : x[1] <= born /\ x[2] <= high'
          BY <5>1, <5>2
        <5> QED BY <1>1, <5>1, <5>3, <5>4, <5>5 DEF StoreGood, RowsOK
      <4>2. CASE m # 2
        BY <1>1, <2>7, <4>2 DEF StoreGood, RowsOK
      <4> QED BY <4>1, <4>2
    <3>6. ServedOK' /\ NothingIsStranded'
      <4>1. CASE moved' # {}
        BY <4>1 DEF ServedOK, NothingIsStranded
      <4>2. CASE Serving = {}
        BY <2>5, <4>2 DEF ServedOK, NothingIsStranded
      <4>3. CASE moved' = {} /\ Serving # {}
        <5>1. moved = {} /\ table = "seq" /\ cursor <= high
          BY <2>7, <4>3 DEF StoreGood, ServedOK
        <5>2. m # 2
          BY <2>7, <4>3, <5>1
        <5>3. UNCHANGED <<rows, high, cursor, owed>> /\ table' = "seq"
          BY <1>1, <2>7, <3>1, <5>1, <5>2
        <5> QED BY <5>1, <5>3, <2>5 DEF StoreGood, ServedOK, NothingIsStranded
      <4> QED BY <4>1, <4>2, <4>3
    <3> QED BY <2>4, <3>3, <3>4, <3>5, <3>6 DEF StoreGood
  <2> QED BY <1>5, <2>6, <2>7
<1> QED BY <1>4, <1>5, <1>6

LEMMA ReplaceKeeps == ASSUME StoreGood, NEW p \in Procs, Replace(p) PROVE StoreInv'
<1>1. /\ UNCHANGED <<pending, cursor, born, owed, ran>>
      /\ table' = seen[p][1] /\ tracked' = seen[p][2] /\ rows' = seen[p][3] /\ high' = seen[p][4]
      /\ moved' = IF seen[p] = <<table, tracked, rows, high>> THEN moved ELSE moved \cup {"swapped"}
      /\ pc' = [q \in Procs |-> IF q = p THEN "idle" ELSE IF pc[q] \in Connected THEN "astray" ELSE pc[q]]
  BY DEF Replace
<1>2. CASE seen[p] = <<table, tracked, rows, high>>
  <2>1. UNCHANGED <<table, tracked, rows, high, moved>>
    BY <1>1, <1>2
  <2>2. ShapeOK'
    BY <1>1, <2>1 DEF StoreGood, ShapeOK
  <2>3. \A q \in Procs : Ordered(q)' /\ Chosen(q)'
    BY <1>1, <2>1 DEF StoreGood, Ordered, Chosen
  <2>4. Serving' \subseteq Serving /\ TrackedGrows
    BY <1>1, <2>1 DEF Serving, TrackedGrows
  <2> QED BY <1>1, <2>1, <2>2, <2>3, <2>4, DataKeeps DEF StoreInv
<1>3. CASE seen[p] # <<table, tracked, rows, high>>
  BY <1>1, <1>3 DEF StoreInv, Swapped
<1> QED BY <1>2, <1>3

-----------------------------------------------------------------------------
(* A swap is remembered.                                                   *)
LEMMA SwappedStays == Swapped /\ [StoreNext]_storeVars => Swapped'
<1> SUFFICES ASSUME Swapped, [StoreNext]_storeVars PROVE Swapped'
  OBVIOUS
<1>1. moved \subseteq moved' \/ UNCHANGED moved
  <2>1. CASE UNCHANGED storeVars \/ Insert
    BY <2>1 DEF storeVars, history, Insert
  <2>2. ASSUME NEW p \in Procs, Step(p) PROVE moved \subseteq moved'
    <3> USE DEF history
    <3>1. CASE ApplyOne(p)
      BY <3>1 DEF ApplyOne, Rollback
    <3>2. CASE Replace(p)
      BY <3>2 DEF Replace
    <3>3. CASE CommitSchema(p)
      BY <3>3 DEF CommitSchema, Rollback
    <3>4. CASE \E j \in Jobs : Command(p, j)
      BY <3>4 DEF Command
    <3>5. CASE ReadColumns(p) \/ RetrySchema(p) \/ Seed(p) \/ Sweep(p) \/ MarkBaseline(p)
               \/ Plan(p) \/ ApplyDone(p) \/ Doom(p) \/ Delete(p) \/ Copy(p) \/ End(p)
      BY <3>5 DEF ReadColumns, RetrySchema, Seed, Sweep, MarkBaseline, Plan, ApplyDone, Doom, Delete, Copy, End
    <3>6. CASE UNCHANGED history
      BY <3>6
    <3> QED BY <2>2, <3>1, <3>2, <3>3, <3>4, <3>5, <3>6 DEF Step, BeginTx, BusyTx
  <2> QED BY <2>1, <2>2 DEF StoreNext
<1> QED BY <1>1 DEF Swapped

LEMMA StoreInvariance == StoreSpec => []StoreInv
<1>1. StoreInit => StoreInv
  <2> SUFFICES ASSUME StoreInit PROVE StoreGood
    BY DEF StoreInv
  <2>1. ShapeOK
    BY DEF StoreInit, ShapeOK
  <2>2. RowsOK
    BY FS_EmptySet DEF StoreInit, RowsOK
  <2>3. OnceEach /\ ServedOK /\ NothingIsStranded /\ \A p \in Procs : Ordered(p) /\ Chosen(p)
    BY DEF StoreInit, OnceEach, ServedOK, NothingIsStranded, Serving, Ordered, Chosen
  <2> QED BY <2>1, <2>2, <2>3 DEF StoreGood
<1>2. StoreInv /\ JobInv /\ [StoreNext]_storeVars => StoreInv'
  <2> SUFFICES ASSUME StoreGood, JobInv, [StoreNext]_storeVars PROVE StoreInv'
    BY SwappedStays DEF StoreInv
  <2>1. CASE UNCHANGED storeVars
    BY <2>1, StillKeeps DEF storeVars, disk, procs, history, StoreInv
  <2>2. CASE Insert
    BY <2>2, RowInsertKeeps DEF StoreInv
  <2>3. ASSUME NEW p \in Procs, Step(p) PROVE StoreInv'
    BY <2>3, SimpleSteps, CommitSchemaKeeps, MarkBaselineKeeps, PlanKeeps, BeginApplyKeeps, EndKeeps,
       DeleteKeeps, SeedKeeps, SweepKeeps, ApplyOneKeeps, ReplaceKeeps DEF Step, StoreInv
  <2> QED BY <2>1, <2>2, <2>3 DEF StoreNext
<1> QED BY <1>1, <1>2, JobInvariance, PTL DEF StoreSpec

(* For any number of processes that migrate at once and die anywhere: the  *)
(* body of a migration is committed at most once, the ones before it are   *)
(* on record by then, and the table has the shape it gives; unless the     *)
(* file was swapped away under them.                                       *)
THEOREM MigrationsRunOnce == StoreSpec => []MigratedOnce
<1>1. StoreInv => MigratedOnce
  BY DEF StoreInv, StoreGood, Swapped, OnceEach, MigratedOnce
<1> QED BY <1>1, StoreInvariance, PTL

(* For any number of daemons, producers and prunes: a row that was         *)
(* inserted under a running daemon lies above its cursor until it was      *)
(* swept, as AUTOINCREMENT never gives a seq out again; the exceptions are *)
(* those the property names.                                               *)
THEOREM OwedRowsAreAhead == StoreSpec => []NothingIsStranded
<1>1. StoreInv => NothingIsStranded
  BY DEF StoreInv, StoreGood, Swapped, NothingIsStranded
<1> QED BY <1>1, StoreInvariance, PTL

-----------------------------------------------------------------------------
(* Ingress: the rows of webhook deliveries and of test runs and the        *)
(* doorbell rings they are owed, for any number of threads, workers,       *)
(* deliveries and tests.                                                   *)

Outcomes == {"passed", "failed"}
Request ==
  [at : {"idle", "insert", "refuse", "ring"}, id : Deliveries \cup {NoDelivery},
   flaw : Flaws \cup {"none", "object"}, new : BOOLEAN]

(* The threads, the table and the test processes.                          *)
IngressTypeOK ==
  /\ thread \in [Threads -> Request]
  /\ DOMAIN answers = Deliveries
  /\ results \in [Processes -> SUBSET (Tests \X Outcomes)]
  /\ pytest \in [Processes -> {"run", "commit", "ring", "end", "dead"}]

(* A request in a thread has an id; it rings for a row that is there.      *)
Handled(t) ==
  /\ ~At(t, "idle") => thread[t].id \in Deliveries
  /\ At(t, "ring") => thread[t].id \in stored

Answered == \A d \in Deliveries : <<200, "ok">> \in answers[d] => d \in stored

(* Whoever has committed and not rung yet is still there, unless it was    *)
(* killed.                                                                 *)
Rings ==
  \/ killed \/ stored = rung
  \/ \E t \in Threads : At(t, "ring") /\ thread[t].new
  \/ \E w \in Processes : pytest[w] = "ring"

(* The rows of a run are the workers', and the controller's where it does  *)
(* not know itself for one.                                                *)
OfTheRun ==
  /\ stored \ Deliveries \subseteq {"run", "own"} \X Tests \X Outcomes
  /\ numprocesses =>
       /\ stored \ Deliveries \subseteq {"run"} \X Tests \X Outcomes
       /\ pytest[Controller] \notin {"commit", "ring"}

(* A worker that has committed has left no row out.                        *)
Complete == \A w \in TestWorkers : pytest[w] \in {"ring", "end"} => Rows(w) \subseteq stored

(* What the threads and the test processes keep together.                  *)
IngressInv ==
  /\ IngressTypeOK
  /\ \A t \in Threads : Handled(t)
  /\ Answered
  /\ Rings
  /\ OfTheRun
  /\ Complete

-----------------------------------------------------------------------------
(* The listener's threads touch no pytest state, and stored only grows.    *)
LEMMA PytestApart ==
  ASSUME IngressInv, UNCHANGED pytestVars,
         stored \subseteq stored', stored' \subseteq stored \cup Deliveries
  PROVE  OfTheRun' /\ Complete'
<1>1. OfTheRun'
  BY DEF IngressInv, OfTheRun, pytestVars
<1>2. Complete'
  BY DEF IngressInv, Complete, pytestVars, Rows, Session
<1> QED BY <1>1, <1>2

(* One thread at a time.                                                   *)
LEMMA ThreadMoves ==
  ASSUME IngressInv, NEW t \in Threads, NEW r \in Request, ThreadGoes(t, r)
  PROVE  /\ thread' \in [Threads -> Request] /\ thread'[t] = r
         /\ \A u \in Threads \ {t} : thread'[u] = thread[u]
  BY DEF ThreadGoes, IngressInv, IngressTypeOK

(* A thread that is free, as at the start.                                 *)
LEMMA IdleRequest == NoRequest \in Request /\ NoRequest.at = "idle"
<1>1. FALSE \in BOOLEAN
  OBVIOUS
<1> QED BY <1>1 DEF NoRequest, Request

(* What an answer of a thread may be; a thread that rings for a new row is *)
(* only answered by Ring.                                                  *)
LEMMA AnswerKeeps ==
  ASSUME IngressInv, NEW t \in Threads, NEW what, Answer(t, what),
         UNCHANGED stored, UNCHANGED pytestVars, ~At(t, "idle"),
         what = <<200, "ok">> => At(t, "ring"),
         At(t, "ring") /\ thread[t].new => rung' = stored,
         ~(At(t, "ring") /\ thread[t].new) => UNCHANGED rung,
         UNCHANGED killed
  PROVE  IngressInv'
<1>1. /\ thread' \in [Threads -> Request] /\ thread'[t] = NoRequest
      /\ \A u \in Threads \ {t} : thread'[u] = thread[u]
  BY IdleRequest, ThreadMoves DEF Answer
<1>2. DOMAIN answers' = Deliveries /\ \A d \in Deliveries : answers'[d] \subseteq answers[d] \cup {what}
                                       /\ (d # thread[t].id => answers'[d] = answers[d])
  BY DEF Answer, IngressInv, IngressTypeOK
<1>3. IngressTypeOK'
  BY <1>1, <1>2 DEF IngressInv, IngressTypeOK, pytestVars
<1>4. \A u \in Threads : Handled(u)'
  <2> TAKE u \in Threads
  <2>1. CASE u = t
    BY <1>1, <2>1, IdleRequest DEF Handled, At
  <2>2. CASE u # t
    BY <1>1, <2>2 DEF IngressInv, Handled, At
  <2> QED BY <2>1, <2>2
<1>5. Answered'
  <2> SUFFICES ASSUME NEW d \in Deliveries, <<200, "ok">> \in answers'[d] PROVE d \in stored
    BY DEF Answered
  <2>1. CASE <<200, "ok">> \in answers[d]
    BY <2>1 DEF IngressInv, Answered
  <2>2. CASE <<200, "ok">> \notin answers[d]
    <3>1. what = <<200, "ok">> /\ d = thread[t].id
      BY <1>2, <2>2
    <3> QED BY <3>1 DEF IngressInv, Handled
  <2> QED BY <2>1, <2>2
<1>6. Rings'
  <2>1. CASE rung' = stored
    BY <2>1 DEF Rings
  <2>2. CASE ~(At(t, "ring") /\ thread[t].new)
    <3>1. UNCHANGED <<rung, killed, pytest>>
      BY <2>2 DEF pytestVars
    <3>2. \A u \in Threads : At(u, "ring") /\ thread[u].new => (At(u, "ring") /\ thread[u].new)'
      BY <1>1, <2>2 DEF At
    <3> QED BY <3>1, <3>2 DEF IngressInv, Rings
  <2> QED BY <2>1, <2>2
<1> QED BY <1>3, <1>4, <1>5, <1>6, PytestApart DEF IngressInv

(* A request taken up is in no row and no answer yet.                      *)
LEMMA AcceptKeeps ==
  ASSUME IngressInv, NEW t \in Threads, NEW d \in Deliveries, NEW flaw \in Flaws \cup {"none", "object"},
         Accept(t, d, flaw)
  PROVE  IngressInv'
<1> DEFINE r == [at |-> IF flaw = "none" THEN "insert" ELSE "refuse", id |-> d, flaw |-> flaw, new |-> FALSE]
<1>1. /\ UNCHANGED <<stored, rung, answers, numprocesses, results, pytest, killed>> /\ ThreadGoes(t, r) /\ At(t, "idle")
  BY DEF Accept, pytestVars, At, NoRequest
<1>2. r \in Request /\ r.at \in {"insert", "refuse"} /\ r.id \in Deliveries
  <2>1. FALSE \in BOOLEAN
    OBVIOUS
  <2> QED BY <2>1 DEF Request
<1> HIDE DEF r
<1>3. /\ thread' \in [Threads -> Request] /\ thread'[t] = r
      /\ \A u \in Threads \ {t} : thread'[u] = thread[u]
  BY <1>1, <1>2, ThreadMoves
<1>4. IngressTypeOK'
  BY <1>1, <1>3 DEF IngressInv, IngressTypeOK
<1>5. \A u \in Threads : Handled(u)'
  BY <1>1, <1>2, <1>3 DEF IngressInv, Handled, At
<1>6. Answered' /\ Rings'
  BY <1>1, <1>3 DEF IngressInv, Answered, Rings, At
<1> QED BY <1>1, <1>4, <1>5, <1>6, PytestApart DEF IngressInv, pytestVars

(* A refused one is answered, and not with a 200.                          *)
LEMMA RefuseKeeps == ASSUME IngressInv, NEW t \in Threads, Refuse(t) PROVE IngressInv'
<1>1. UNCHANGED <<stored, rung, numprocesses, results, pytest, killed>> /\ At(t, "refuse")
  BY DEF Refuse, pytestVars
<1>2. CASE ThreadGoes(t, NoRequest) /\ UNCHANGED answers
  <2>1. Answer(t, <<0, "nothing">>)
    BY <1>2 DEF Answer
  <2> QED BY <1>1, <2>1, AnswerKeeps DEF At, pytestVars
<1>3. CASE Answer(t, <<Refusals[thread[t].flaw], thread[t].flaw>>)
  <2>1. thread[t].flaw \in Flaws \cup {"none", "object"}
    BY DEF IngressInv, IngressTypeOK, Request
  <2>2. thread[t].flaw # "ok"
    BY <2>1 DEF Flaws, Refusals
  <2>3. <<Refusals[thread[t].flaw], thread[t].flaw>> # <<200, "ok">>
    BY <2>2
  <2> QED BY <1>1, <1>3, <2>3, AnswerKeeps DEF At, pytestVars
<1> QED BY <1>2, <1>3 DEF Refuse

(* INSERT OR IGNORE: the row is there afterwards, whoever put it there.    *)
LEMMA InsertEventKeeps == ASSUME IngressInv, NEW t \in Threads, InsertEvent(t) PROVE IngressInv'
<1>1. UNCHANGED <<rung, numprocesses, results, pytest, killed>> /\ At(t, "insert")
  BY DEF InsertEvent, pytestVars
<1>2. CASE Answer(t, <<500, "db_error">>) /\ UNCHANGED stored
  BY <1>1, <1>2, AnswerKeeps DEF At, pytestVars
<1>3. CASE ~(Answer(t, <<500, "db_error">>) /\ UNCHANGED stored)
  <2> DEFINE r == [thread[t] EXCEPT !.at = "ring", !.new = thread[t].id \notin stored]
  <2>1. stored' = stored \cup {thread[t].id} /\ ThreadGoes(t, r) /\ UNCHANGED answers
    BY <1>3 DEF InsertEvent
  <2>2. thread[t] \in Request /\ thread[t].id \in Deliveries
    BY <1>1 DEF IngressInv, IngressTypeOK, Handled, At
  <2>3. /\ r \in Request /\ r.at = "ring" /\ r.id = thread[t].id
        /\ thread[t].id \notin stored => r.new
    <3>1. (thread[t].id \notin stored) \in BOOLEAN
      OBVIOUS
    <3> QED BY <2>2, <3>1 DEF Request
  <2> HIDE DEF r
  <2>4. /\ thread' \in [Threads -> Request] /\ thread'[t] = r
        /\ \A u \in Threads \ {t} : thread'[u] = thread[u]
    BY <2>1, <2>3, ThreadMoves
  <2>5. IngressTypeOK'
    BY <1>1, <2>1, <2>4 DEF IngressInv, IngressTypeOK
  <2>6. \A u \in Threads : Handled(u)'
    BY <2>1, <2>2, <2>3, <2>4 DEF IngressInv, Handled, At
  <2>7. Answered'
    BY <2>1 DEF IngressInv, Answered
  <2>8. Rings'
    <3>1. CASE thread[t].id \notin stored
      BY <2>3, <2>4, <3>1 DEF Rings, At
    <3>2. CASE thread[t].id \in stored
      <4>1. UNCHANGED <<stored, rung, killed, pytest>>
        BY <1>1, <2>1, <3>2
      <4>2. \A u \in Threads : At(u, "ring") /\ thread[u].new => (At(u, "ring") /\ thread[u].new)'
        BY <1>1, <2>4 DEF At
      <4> QED BY <4>1, <4>2 DEF IngressInv, Rings
    <3> QED BY <3>1, <3>2
  <2> QED BY <1>1, <2>1, <2>2, <2>5, <2>6, <2>7, <2>8, PytestApart DEF IngressInv, pytestVars
<1> QED BY <1>2, <1>3

(* A ring is for the row its thread has inserted.                          *)
LEMMA RingKeeps == ASSUME IngressInv, NEW t \in Threads, Ring(t) PROVE IngressInv'
<1>1. /\ UNCHANGED <<stored, numprocesses, results, pytest, killed>> /\ At(t, "ring")
      /\ Answer(t, <<200, "ok">>)
      /\ rung' = IF thread[t].new THEN stored ELSE rung
  BY DEF Ring, pytestVars
<1> QED BY <1>1, AnswerKeeps DEF At, pytestVars

(* A restart forgets the requests, not the rows.                           *)
LEMMA RestartKeeps == IngressInv /\ Restart => IngressInv'
<1> SUFFICES ASSUME IngressInv, Restart PROVE IngressInv'
  OBVIOUS
<1>1. UNCHANGED <<stored, rung, answers, numprocesses, results, pytest>> /\ \A t \in Threads : thread'[t] = NoRequest
  BY DEF Restart, pytestVars
<1>2. thread' \in [Threads -> Request]
  BY IdleRequest DEF Restart
<1>3. IngressTypeOK'
  BY <1>1, <1>2 DEF IngressInv, IngressTypeOK
<1>4. \A u \in Threads : Handled(u)'
  BY <1>1, IdleRequest DEF Handled, At
<1>5. Answered'
  BY <1>1 DEF IngressInv, Answered
<1>6. Rings'
  <2>1. killed \/ (\E t \in Threads : At(t, "ring") /\ thread[t].new) => killed'
    BY DEF Restart
  <2> QED BY <1>1, <2>1 DEF IngressInv, Rings
<1> QED BY <1>1, <1>3, <1>4, <1>5, <1>6, PytestApart DEF IngressInv, pytestVars

-----------------------------------------------------------------------------
(* A pytest process touches no request, and no row but its own.            *)
LEMMA ListenerApart ==
  ASSUME IngressInv, UNCHANGED listenerVars, stored \subseteq stored',
         results' \in [Processes -> SUBSET (Tests \X Outcomes)],
         pytest' \in [Processes -> {"run", "commit", "ring", "end", "dead"}]
  PROVE  IngressTypeOK' /\ (\A t \in Threads : Handled(t)') /\ Answered'
<1>1. UNCHANGED <<thread, answers>>
  BY DEF listenerVars
<1>2. IngressTypeOK'
  BY <1>1 DEF IngressInv, IngressTypeOK
<1>3. \A t \in Threads : Handled(t)'
  BY <1>1 DEF IngressInv, Handled, At
<1>4. Answered'
  BY <1>1 DEF IngressInv, Answered
<1> QED BY <1>2, <1>3, <1>4

(* A result is kept in memory until the session ends.                      *)
LEMMA ReportKeeps ==
  ASSUME IngressInv, NEW w \in Processes, NEW test \in Tests, NEW outcome \in {"passed", "failed"},
         Report(w, test, outcome)
  PROVE  IngressInv'
<1>1. UNCHANGED <<stored, rung, listenerVars, numprocesses, pytest, killed>> /\ w \in TestWorkers /\ pytest[w] = "run"
  BY DEF Report
<1>2. \A p \in Processes : results[p] \in SUBSET (Tests \X Outcomes)
  BY DEF IngressInv, IngressTypeOK
<1>3. results' \in [Processes -> SUBSET (Tests \X Outcomes)]
  BY <1>2 DEF Report, Outcomes
<1>4. \A p \in TestWorkers : p # w => results'[p] = results[p]
  BY IngressAssumption DEF Report, Processes
<1>5. Complete'
  <2> SUFFICES ASSUME NEW p \in TestWorkers, pytest[p] \in {"ring", "end"} PROVE Rows(p)' \subseteq stored
    BY <1>1 DEF Complete
  <2>1. results'[p] = results[p]
    BY <1>1, <1>4
  <2>2. Rows(p)' = Rows(p)
    BY <2>1 DEF Rows, Session
  <2> QED BY <2>2 DEF IngressInv, Complete
<1>6. OfTheRun' /\ Rings'
  BY <1>1 DEF IngressInv, OfTheRun, Rings, listenerVars, At
<1>7. pytest' \in [Processes -> {"run", "commit", "ring", "end", "dead"}]
  BY <1>1 DEF IngressInv, IngressTypeOK
<1> QED BY <1>1, <1>3, <1>5, <1>6, <1>7, ListenerApart DEF IngressInv

(* At the end of the session the controller stands down, given -n.         *)
LEMMA FinishKeeps == ASSUME IngressInv, NEW w \in Processes, Finish(w) PROVE IngressInv'
<1>1. UNCHANGED <<stored, rung, listenerVars, numprocesses, results, killed>> /\ pytest[w] = "run"
  BY DEF Finish
<1>2. pytest \in [Processes -> {"run", "commit", "ring", "end", "dead"}] /\ results' \in [Processes -> SUBSET (Tests \X Outcomes)]
  BY <1>1 DEF IngressInv, IngressTypeOK
<1>3. /\ pytest' \in [Processes -> {"run", "commit", "ring", "end", "dead"}]
      /\ \A p \in Processes \ {w} : pytest'[p] = pytest[p]
      /\ pytest'[w] = IF results[w] = {} \/ StandsDown(w) THEN "end" ELSE "commit"
  BY <1>2 DEF Finish
<1>4. Complete'
  <2> SUFFICES ASSUME NEW p \in TestWorkers, pytest'[p] \in {"ring", "end"} PROVE Rows(p) \subseteq stored
    BY <1>1 DEF Complete, Rows, Session
  <2>1. CASE p = w
    <3>1. results[w] = {}
      BY <1>3, <2>1, IngressAssumption DEF StandsDown
    <3>2. Rows(w) = {}
      BY <3>1 DEF Rows
    <3> QED BY <2>1, <3>2
  <2>2. CASE p # w
    BY <1>3, <2>2 DEF IngressInv, Complete, Processes
  <2> QED BY <2>1, <2>2
<1>5. OfTheRun'
  BY <1>1, <1>3 DEF IngressInv, OfTheRun, StandsDown, Processes
<1>6. Rings'
  <2>1. \A p \in Processes : pytest[p] = "ring" => pytest'[p] = "ring"
    BY <1>1, <1>3
  <2> QED BY <1>1, <2>1 DEF IngressInv, Rings, listenerVars, At
<1> QED BY <1>1, <1>2, <1>3, <1>4, <1>5, <1>6, ListenerApart DEF IngressInv

(* What a worker is about to commit is of the run.                         *)
LEMMA RunRows ==
  ASSUME IngressInv, NEW w \in Processes
  PROVE  /\ Rows(w) \subseteq {"run", "own"} \X Tests \X Outcomes
         /\ w # Controller => Rows(w) \subseteq {"run"} \X Tests \X Outcomes
<1>1. results[w] \in SUBSET (Tests \X Outcomes)
  BY DEF IngressInv, IngressTypeOK
<1>2. Session(w) \in {"run", "own"} /\ (w # Controller => Session(w) = "run")
  BY DEF Session
<1> QED BY <1>1, <1>2 DEF Rows

(* One commit holds all the results of a worker.                           *)
LEMMA EmitBatchKeeps == ASSUME IngressInv, NEW w \in Processes, EmitBatch(w) PROVE IngressInv'
<1>1. /\ UNCHANGED <<rung, listenerVars, numprocesses, results, killed>> /\ pytest[w] = "commit"
      /\ stored' = stored \cup Rows(w)
  BY DEF EmitBatch
<1>2. numprocesses => w # Controller
  BY <1>1 DEF IngressInv, OfTheRun
<1>3. pytest \in [Processes -> {"run", "commit", "ring", "end", "dead"}] /\ results' \in [Processes -> SUBSET (Tests \X Outcomes)]
  BY <1>1 DEF IngressInv, IngressTypeOK
<1>4. /\ pytest' \in [Processes -> {"run", "commit", "ring", "end", "dead"}]
      /\ \A p \in Processes \ {w} : pytest'[p] = pytest[p]
      /\ pytest'[w] = IF Rows(w) \subseteq stored THEN "end" ELSE "ring"
  BY <1>3 DEF EmitBatch
<1>5. OfTheRun'
  <2>1. stored' \ Deliveries \subseteq {"run", "own"} \X Tests \X Outcomes
    BY <1>1, RunRows DEF IngressInv, OfTheRun
  <2>2. numprocesses => stored' \ Deliveries \subseteq {"run"} \X Tests \X Outcomes
    BY <1>1, <1>2, RunRows DEF IngressInv, OfTheRun
  <2>3. numprocesses => pytest'[Controller] \notin {"commit", "ring"}
    BY <1>2, <1>4 DEF IngressInv, OfTheRun, Processes
  <2> QED BY <1>1, <2>1, <2>2, <2>3 DEF OfTheRun
<1>6. Complete'
  <2> SUFFICES ASSUME NEW p \in TestWorkers, pytest'[p] \in {"ring", "end"} PROVE Rows(p) \subseteq stored'
    BY <1>1 DEF Complete, Rows, Session
  <2> QED BY <1>1, <1>4 DEF IngressInv, Complete, Processes
<1>7. Rings'
  <2>1. CASE Rows(w) \subseteq stored
    <3>1. stored' = stored
      BY <1>1, <2>1
    <3>2. \A p \in Processes : pytest[p] = "ring" => pytest'[p] = "ring"
      BY <1>1, <1>4
    <3> QED BY <1>1, <3>1, <3>2 DEF IngressInv, Rings, listenerVars, At
  <2>2. CASE ~(Rows(w) \subseteq stored)
    BY <1>4, <2>2 DEF Rings
  <2> QED BY <2>1, <2>2
<1> QED BY <1>1, <1>3, <1>4, <1>5, <1>6, <1>7, ListenerApart DEF IngressInv

(* The doorbell after the commit.                                          *)
LEMMA RingBatchKeeps == ASSUME IngressInv, NEW w \in Processes, RingBatch(w) PROVE IngressInv'
<1>1. /\ UNCHANGED <<stored, listenerVars, numprocesses, results, killed>> /\ pytest[w] = "ring" /\ rung' = stored
  BY DEF RingBatch
<1>2. pytest \in [Processes -> {"run", "commit", "ring", "end", "dead"}] /\ results' \in [Processes -> SUBSET (Tests \X Outcomes)]
  BY <1>1 DEF IngressInv, IngressTypeOK
<1>3. /\ pytest' \in [Processes -> {"run", "commit", "ring", "end", "dead"}] /\ pytest'[w] = "end"
      /\ \A p \in Processes \ {w} : pytest'[p] = pytest[p]
  BY <1>2 DEF RingBatch
<1>4. Complete'
  <2> SUFFICES ASSUME NEW p \in TestWorkers, pytest'[p] \in {"ring", "end"} PROVE Rows(p) \subseteq stored
    BY <1>1 DEF Complete, Rows, Session
  <2> QED BY <1>1, <1>3 DEF IngressInv, Complete, Processes
<1>5. OfTheRun'
  BY <1>1, <1>3 DEF IngressInv, OfTheRun, Processes
<1>6. Rings'
  BY <1>1 DEF Rings
<1> QED BY <1>1, <1>2, <1>3, <1>4, <1>5, <1>6, ListenerApart DEF IngressInv

(* A test process killed before its commit or its ring.                    *)
LEMMA DiesKeeps == ASSUME IngressInv, NEW w \in Processes, Dies(w) PROVE IngressInv'
<1>1. UNCHANGED <<stored, rung, listenerVars, numprocesses, results>>
  BY DEF Dies
<1>2. /\ pytest \in [Processes -> {"run", "commit", "ring", "end", "dead"}]
      /\ results' \in [Processes -> SUBSET (Tests \X Outcomes)]
  BY <1>1 DEF IngressInv, IngressTypeOK
<1>3. /\ pytest' \in [Processes -> {"run", "commit", "ring", "end", "dead"}] /\ pytest'[w] = "dead"
      /\ \A p \in Processes \ {w} : pytest'[p] = pytest[p]
  BY <1>2 DEF Dies
<1>4. Complete'
  <2> SUFFICES ASSUME NEW p \in TestWorkers, pytest'[p] \in {"ring", "end"} PROVE Rows(p) \subseteq stored
    BY <1>1 DEF Complete, Rows, Session
  <2> QED BY <1>1, <1>3 DEF IngressInv, Complete, Processes
<1>5. OfTheRun'
  BY <1>1, <1>3 DEF IngressInv, OfTheRun, Processes
<1>6. Rings'
  <2>1. killed \/ pytest[w] = "ring" => killed'
    BY DEF Dies
  <2> QED BY <1>1, <1>3, <2>1 DEF IngressInv, Rings, listenerVars, At
<1> QED BY <1>1, <1>2, <1>3, <1>4, <1>5, <1>6, ListenerApart DEF IngressInv

-----------------------------------------------------------------------------
LEMMA LoopKeeps ==
  IngressInv /\ UNCHANGED <<stored, rung, thread, answers, pytestVars, killed>> => IngressInv'
<1> SUFFICES ASSUME IngressInv, UNCHANGED <<stored, rung, thread, answers, pytestVars, killed>>
             PROVE  IngressInv'
  OBVIOUS
<1> USE DEF pytestVars
<1>1. IngressTypeOK' /\ (\A t \in Threads : Handled(t)')
  BY DEF IngressInv, IngressTypeOK, Handled, At
<1>2. Answered' /\ Rings' /\ OfTheRun'
  BY DEF IngressInv, Answered, Rings, OfTheRun, At
<1>3. Complete'
  BY DEF IngressInv, Complete, Rows, Session
<1> QED BY <1>1, <1>2, <1>3 DEF IngressInv

LEMMA IngressInvariance == IngressSpec => []IngressInv
<1>1. IngressInit => IngressInv
  <2> SUFFICES ASSUME IngressInit PROVE IngressInv
    OBVIOUS
  <2>1. IngressTypeOK
    BY IdleRequest DEF IngressInit, IngressTypeOK
  <2>2. \A t \in Threads : Handled(t)
    BY IdleRequest DEF IngressInit, Handled, At
  <2>3. Answered /\ Rings /\ OfTheRun /\ Complete
    BY DEF IngressInit, Answered, Rings, OfTheRun, Complete, Processes
  <2> QED BY <2>1, <2>2, <2>3 DEF IngressInv
<1>2. IngressInv /\ [IngressNext]_ingressVars => IngressInv'
  <2> SUFFICES ASSUME IngressInv, [IngressNext]_ingressVars PROVE IngressInv'
    OBVIOUS
  <2>1. CASE UNCHANGED ingressVars \/ Shutdown \/ LoopEnds
    BY <2>1, LoopKeeps DEF ingressVars, listenerVars, Shutdown, LoopEnds
  <2>2. CASE Listener
    BY <2>1, <2>2, AcceptKeeps, RefuseKeeps, InsertEventKeeps, RingKeeps, RestartKeeps DEF Listener
  <2>3. CASE Pytest
    BY <2>3, ReportKeeps, FinishKeeps, EmitBatchKeeps, RingBatchKeeps, DiesKeeps DEF Pytest
  <2> QED BY <2>1, <2>2, <2>3 DEF IngressNext
<1> QED BY <1>1, <1>2, PTL DEF IngressSpec

(* For any number of threads, deliveries and test workers: a delivery      *)
(* answered 200 is stored, and every stored row was rung for after its     *)
(* commit unless a process was killed in between. A thread that finds the  *)
(* row already there need not ring: the one that inserted it does.         *)
THEOREM NoSilentRow == IngressSpec => []NothingIsSilent
<1>1. IngressInv => NothingIsSilent
  BY DEF IngressInv, Answered, Rings, NothingIsSilent
<1> QED BY <1>1, IngressInvariance, PTL

(* For any number of test workers, however the plugin's hooks of the       *)
(* workers and of the controller interleave: with -n each outcome of a     *)
(* test is one row, without it the run's and the controller's at most; and *)
(* no outcome is lost while one worker that recorded it ended in order.    *)
THEOREM OneRowEach == IngressSpec => []OneRowPerOutcome
<1>1. IngressInv => OneRowPerOutcome
  <2> SUFFICES ASSUME IngressInv PROVE OneRowPerOutcome
    OBVIOUS
  <2>1. ASSUME NEW x \in stored \ Deliveries, NEW y \in stored \ Deliveries, x[2] = y[2], x[3] = y[3]
        PROVE  x = y \/ (~numprocesses /\ x[1] # y[1])
    <3>1. x \in {"run", "own"} \X Tests \X Outcomes /\ y \in {"run", "own"} \X Tests \X Outcomes
      BY DEF IngressInv, OfTheRun
    <3>2. x[1] = y[1] => x = y
      BY <2>1, <3>1
    <3>3. numprocesses => x[1] = y[1]
      BY DEF IngressInv, OfTheRun
    <3> QED BY <3>2, <3>3
  <2>2. ASSUME \A p \in Processes : pytest[p] \in {"end", "dead"},
               NEW w \in TestWorkers, NEW x \in results[w],
               ~(\A u \in TestWorkers : x \in results[u] => pytest[u] = "dead")
        PROVE  <<"run", x[1], x[2]>> \in stored
    <3>1. PICK u \in TestWorkers : x \in results[u] /\ pytest[u] # "dead"
      BY <2>2
    <3>2. pytest[u] = "end" /\ Session(u) = "run"
      BY <2>2, <3>1, IngressAssumption DEF Processes, Session
    <3>3. Rows(u) \subseteq stored
      BY <3>2 DEF IngressInv, Complete
    <3> QED BY <3>1, <3>2, <3>3 DEF Rows
  <2> QED BY <2>1, <2>2 DEF OneRowPerOutcome
<1> QED BY <1>1, IngressInvariance, PTL

-----------------------------------------------------------------------------
(* Registry: trust on first use, for any number of hosts, operators,       *)
(* wheels and publishers.                                                  *)

Entries == Names \X Wheels
Signers == Publishers \union {Nobody}
Candidate == [name : Names, types : {w.types : w \in Wheels}, publisher : Signers]

(* Where a host process is in its walk of the entry points.                *)
ProcessRecord ==
  [pc : {"off", "walk", "tofu", "pin", "up"}, todo : SUBSET Entries,
   sources : SUBSET Candidate, rejected : SUBSET Names, cand : Candidate \union {Nobody}]

(* What is looked up is there; what is about to be pinned has a name.      *)
ProcessInv(p) ==
  /\ proc[p] \in ProcessRecord
  /\ proc[p].pc \in {"tofu", "pin"} => proc[p].cand \in Candidate
  /\ proc[p].pc = "pin" => proc[p].cand.publisher \in Publishers

Lists == UNION {[S -> Publishers] : S \in SUBSET Names}

(* A repair holds an allowlist it could parse, an add a name and its       *)
(* publisher.                                                              *)
CommandInv(o) ==
  /\ command[o].step = "add" => command[o].name \in Names /\ command[o].arg \in Publishers
  /\ command[o].step = "repair" => command[o].arg \in Lists

(* What the file, the hosts and the commands owe each other.               *)
RegistryInv ==
  /\ installed \in SUBSET Entries
  /\ pins \in Lists \union {Torn}
  /\ relied \in SUBSET (Names \X Publishers)
  /\ DOMAIN proc = Hosts /\ \A p \in Hosts : ProcessInv(p)
  /\ DOMAIN command = Operators /\ \A o \in Operators : CommandInv(o)
  /\ PinsOutlive

-----------------------------------------------------------------------------
(* The file.                                                               *)

LEMMA NobodyIsNoPublisher == Nobody \notin Publishers
  BY RegistryAssumption DEF Nobody

LEMMA ListsAreLists ==
  ASSUME NEW l \in Lists
  PROVE  /\ l # Torn /\ DOMAIN l \in SUBSET Names /\ \A n \in DOMAIN l : l[n] \in Publishers
<1>1. PICK S \in SUBSET Names : l \in [S -> Publishers]
  BY DEF Lists
<1> QED BY <1>1, RegistryAssumption DEF Lists

(* A pin is appended only where there is none of that name, or the same.   *)
LEMMA AppendKeeps ==
  ASSUME pins \in Lists \union {Torn}, relied \in SUBSET (Names \X Publishers), PinsOutlive,
         NEW n \in Names, NEW v \in Publishers, Appendable(n, v), AppendPin(n, v)
  PROVE  pins' \in Lists /\ relied' \in SUBSET (Names \X Publishers) /\ PinsOutlive'
<1>1. pins \in Lists
  BY DEF Appendable
<1>2. DOMAIN pins \in SUBSET Names /\ \A m \in DOMAIN pins : pins[m] \in Publishers
  BY <1>1, ListsAreLists
<1>3. DOMAIN pins \union {n} \in SUBSET Names
  BY <1>2
<1>4. pins' \in [DOMAIN pins \union {n} -> Publishers]
  BY <1>2 DEF AppendPin
<1>5. pins' \in Lists
  BY <1>3, <1>4 DEF Lists
<1>6. relied' = relied \union {<<n, v>>}
  BY DEF AppendPin
<1>7. ASSUME NEW r \in relied' PROVE PinIn(pins', r[1]) = r[2]
  <2>1. CASE r[1] = n
    <3>1. r \in relied => r[2] \in Publishers /\ PinIn(pins, n) = r[2]
      BY <2>1 DEF PinsOutlive
    <3>2. r[2] = v
      BY <1>6, <3>1, NobodyIsNoPublisher DEF Appendable
    <3> QED BY <1>4, <2>1, <3>2 DEF AppendPin, PinIn
  <2>2. CASE r[1] # n
    <3>1. r \in relied
      BY <1>6, <2>2
    <3>2. PinIn(pins, r[1]) = r[2]
      BY <3>1 DEF PinsOutlive
    <3> QED BY <1>4, <2>2, <3>2 DEF AppendPin, PinIn
  <2> QED BY <2>1, <2>2
<1>8. pins' # Torn
  BY <1>5, ListsAreLists
<1> QED BY <1>5, <1>6, <1>7, <1>8 DEF PinsOutlive

(* A repair, a removal: what is still relied on is what the new file says. *)
LEMMA RewriteKeeps ==
  ASSUME relied \in SUBSET (Names \X Publishers), pins' \in Lists, relied' \subseteq relied,
         \A r \in relied' : PinIn(pins', r[1]) = r[2]
  PROVE  relied' \in SUBSET (Names \X Publishers) /\ PinsOutlive'
<1>1. pins' # Torn
  BY ListsAreLists
<1> QED BY <1>1 DEF PinsOutlive

-----------------------------------------------------------------------------
(* A process that goes on, with the file as it was or as Pin leaves it.    *)

LEMMA ProcessMoves ==
  ASSUME RegistryInv, NEW p \in Hosts, NEW r \in ProcessRecord, proc' = [proc EXCEPT ![p] = r],
         r.pc \in {"tofu", "pin"} => r.cand \in Candidate,
         r.pc = "pin" => r.cand.publisher \in Publishers
  PROVE  DOMAIN proc' = Hosts /\ \A q \in Hosts : ProcessInv(q)'
<1>1. DOMAIN proc' = Hosts /\ proc'[p] = r /\ \A q \in Hosts \ {p} : proc'[q] = proc[q]
  BY DEF RegistryInv
<1> QED BY <1>1 DEF RegistryInv, ProcessInv

(* The records a process goes through.                                     *)
LEMMA RecordOf ==
  ASSUME RegistryInv, NEW p \in Hosts
  PROVE  /\ proc[p] \in ProcessRecord /\ ProcessInv(p)
         /\ Skipped(p) \in ProcessRecord /\ Skipped(p).pc = "walk"
         /\ Off \in ProcessRecord /\ Off.pc = "off"
<1>1. proc[p] \in ProcessRecord /\ ProcessInv(p)
  BY DEF RegistryInv, ProcessInv
<1> QED BY <1>1 DEF Skipped, ProcessRecord, Off

(* Where it has an entry point in hand.                                    *)
LEMMA Decided ==
  ASSUME RegistryInv, NEW p \in Hosts, proc[p].pc \in {"tofu", "pin"}
  PROVE  /\ proc[p].cand \in Candidate /\ proc[p].cand.name \in Names /\ proc[p].cand.publisher \in Signers
         /\ Registered(p) \in ProcessRecord /\ Registered(p).pc = "walk"
         /\ Rejected(p) \in ProcessRecord /\ Rejected(p).pc = "walk"
<1>1. proc[p] \in ProcessRecord /\ proc[p].cand \in Candidate
  BY DEF RegistryInv, ProcessInv
<1>2. proc[p].cand.name \in Names /\ proc[p].cand.publisher \in Signers
  BY <1>1 DEF Candidate
<1>3. Registered(p) \in ProcessRecord /\ Registered(p).pc = "walk"
  BY <1>1 DEF Registered, ProcessRecord
<1>4. Rejected(p) \in ProcessRecord /\ Rejected(p).pc = "walk"
  BY <1>1, <1>2 DEF Rejected, ProcessRecord
<1> QED BY <1>1, <1>2, <1>3, <1>4

(* A process that goes on leaves everybody else as they were.              *)
LEMMA OthersKeep ==
  ASSUME RegistryInv, UNCHANGED <<installed, pins, relied, command>>,
         DOMAIN proc' = Hosts /\ \A q \in Hosts : ProcessInv(q)'
  PROVE  RegistryInv'
<1>1. \A o \in Operators : CommandInv(o)'
  BY DEF RegistryInv, CommandInv
<1>2. PinsOutlive'
  BY DEF RegistryInv, PinsOutlive
<1> QED BY <1>1, <1>2 DEF RegistryInv

LEMMA DiscoverKeeps == ASSUME RegistryInv, NEW p \in Hosts, Discover(p) PROVE RegistryInv'
<1>1. PICK policy \in Policies : proc' = [proc EXCEPT ![p] = [Off EXCEPT !.pc = "walk", !.todo = Selected(policy)]]
  BY DEF Discover
<1> DEFINE r == [Off EXCEPT !.pc = "walk", !.todo = Selected(policy)]
<1>2. Selected(policy) \in SUBSET Entries
  BY DEF Selected, RegistryInv
<1>3. r \in ProcessRecord /\ r.pc = "walk"
  BY <1>2 DEF ProcessRecord, Off
<1>4. proc' = [proc EXCEPT ![p] = r]
  BY <1>1
<1> HIDE DEF r
<1>5. UNCHANGED <<installed, pins, relied, command>>
  BY DEF Discover, UnchangedFile, UnchangedWorld
<1> QED BY <1>3, <1>4, <1>5, ProcessMoves, OthersKeep

LEMMA ConsiderKeeps == ASSUME RegistryInv, NEW p \in Hosts, Consider(p) PROVE RegistryInv'
<1>1. UNCHANGED <<installed, pins, relied, command>> /\ proc[p].pc = "walk"
  BY DEF Consider, UnchangedFile, UnchangedWorld
<1> DEFINE rest(e) == [proc[p] EXCEPT !.todo = @ \ {e}]
           refused(e) == [rest(e) EXCEPT !.rejected = @ \union {e[1]}]
           offered(e, x) == [name |-> e[1], types |-> x[2].types,
                             publisher |-> IF x = e THEN Verified(x[2]) ELSE Nobody]
           taken(e, x) == [rest(e) EXCEPT !.pc = "tofu", !.cand = offered(e, x)]
<1>2. PICK e \in proc[p].todo : \E x \in Found(e) :
        \/ proc' = [proc EXCEPT ![p] = rest(e)]
        \/ proc' = [proc EXCEPT ![p] = refused(e)]
        \/ x \in installed /\ proc' = [proc EXCEPT ![p] = taken(e, x)]
  BY DEF Consider
<1>3. proc[p] \in ProcessRecord
  BY RecordOf
<1>4. e[1] \in Names /\ \A x \in installed : x[2] \in Wheels
  BY <1>3 DEF ProcessRecord, Entries, RegistryInv
<1>5. rest(e) \in ProcessRecord /\ rest(e).pc = "walk"
  BY <1>1, <1>3 DEF ProcessRecord
<1>6. refused(e) \in ProcessRecord /\ refused(e).pc = "walk"
  <2> HIDE DEF rest
  <2> QED BY <1>4, <1>5 DEF ProcessRecord
<1>7. \A x \in installed : offered(e, x) \in Candidate
  <2> SUFFICES ASSUME NEW x \in installed PROVE offered(e, x) \in Candidate
    OBVIOUS
  <2>1. Verified(x[2]) \in Signers /\ Nobody \in Signers
    BY <1>4, RegistryAssumption DEF Verified, Attested, Signers, Nobody
  <2> QED BY <1>4, <2>1 DEF Candidate
<1>8. ASSUME NEW x \in installed
      PROVE  taken(e, x) \in ProcessRecord /\ taken(e, x).pc = "tofu" /\ taken(e, x).cand \in Candidate
  <2>1. offered(e, x) \in Candidate
    BY <1>7
  <2> HIDE DEF rest, offered
  <2> QED BY <1>5, <2>1 DEF ProcessRecord
<1> HIDE DEF rest, refused, taken
<1>9. DOMAIN proc' = Hosts /\ \A q \in Hosts : ProcessInv(q)'
  BY <1>2, <1>5, <1>6, <1>8, ProcessMoves
<1> QED BY <1>1, <1>9, OthersKeep

LEMMA EnforceTofuKeeps == ASSUME RegistryInv, NEW p \in Hosts, EnforceTofu(p) PROVE RegistryInv'
<1> DEFINE n == proc[p].cand.name
           v == proc[p].cand.publisher
           waits == [proc[p] EXCEPT !.pc = "pin"]
<1>1. /\ UNCHANGED <<installed, pins, command>> /\ proc[p].pc = "tofu"
      /\ proc' = [proc EXCEPT ![p] =
                    [pin |-> waits, register |-> Registered(p), reject |-> Rejected(p)][Tofu(n, v)]]
      /\ relied' = IF Tofu(n, v) = "register" /\ v # Nobody THEN relied \union {<<n, v>>} ELSE relied
  BY DEF EnforceTofu, UnchangedWorld
<1>2. n \in Names /\ v \in Signers /\ proc[p] \in ProcessRecord /\ proc[p].cand \in Candidate
  BY <1>1, Decided, RecordOf
<1>3. waits \in ProcessRecord /\ waits.pc = "pin" /\ waits.cand = proc[p].cand
  BY <1>2 DEF ProcessRecord
<1>4. \/ Tofu(n, v) = "pin" /\ v # Nobody
      \/ Tofu(n, v) = "register" /\ (v # Nobody => pins # Torn /\ PinIn(pins, n) = v)
      \/ Tofu(n, v) = "reject"
  BY DEF Tofu
<1>5. /\ Tofu(n, v) = "pin" => proc' = [proc EXCEPT ![p] = waits]
      /\ Tofu(n, v) = "register" => proc' = [proc EXCEPT ![p] = Registered(p)]
      /\ Tofu(n, v) = "reject" => proc' = [proc EXCEPT ![p] = Rejected(p)]
  <2> DEFINE next == [pin |-> waits, register |-> Registered(p), reject |-> Rejected(p)]
  <2>1. next["pin"] = waits /\ next["register"] = Registered(p) /\ next["reject"] = Rejected(p)
    <3> HIDE DEF waits
    <3> QED OBVIOUS
  <2>2. proc' = [proc EXCEPT ![p] = next[Tofu(n, v)]]
    BY <1>1
  <2> HIDE DEF next, waits
  <2> QED BY <2>1, <2>2
<1> HIDE DEF waits
<1>6. DOMAIN proc' = Hosts /\ \A q \in Hosts : ProcessInv(q)'
  <2>1. CASE Tofu(n, v) = "pin"
    <3>1. waits.cand.publisher \in Publishers
      BY <1>2, <1>3, <1>4, <2>1 DEF Signers
    <3> QED BY <1>2, <1>3, <1>5, <2>1, <3>1, ProcessMoves
  <2>2. CASE Tofu(n, v) = "register"
    BY <1>1, <1>5, <2>2, Decided, ProcessMoves
  <2>3. CASE Tofu(n, v) = "reject"
    BY <1>1, <1>5, <2>3, Decided, ProcessMoves
  <2> QED BY <1>4, <2>1, <2>2, <2>3
<1>7. relied' \in SUBSET (Names \X Publishers)
  BY <1>1, <1>2 DEF RegistryInv, Signers
<1>8. PinsOutlive'
  BY <1>1, <1>4 DEF RegistryInv, PinsOutlive
<1>9. \A o \in Operators : CommandInv(o)'
  BY <1>1 DEF RegistryInv, CommandInv
<1> QED BY <1>1, <1>6, <1>7, <1>8, <1>9 DEF RegistryInv

(* What a host pins, and relies on from then on, was free to pin under the *)
(* lock.                                                                   *)
LEMMA PinKeeps == ASSUME RegistryInv, NEW p \in Hosts, Pin(p) PROVE RegistryInv'
<1> DEFINE n == proc[p].cand.name
           v == proc[p].cand.publisher
<1>1. UNCHANGED <<installed, command>> /\ proc[p].pc = "pin"
  BY DEF Pin, UnchangedWorld
<1>2. n \in Names /\ v \in Publishers
  BY <1>1, Decided, RecordOf DEF ProcessInv
<1>3. \A o \in Operators : CommandInv(o)'
  BY <1>1 DEF RegistryInv, CommandInv
<1>4. CASE Appendable(n, v) /\ AppendPin(n, v) /\ proc' = [proc EXCEPT ![p] = Registered(p)]
  <2>1. pins' \in Lists /\ relied' \in SUBSET (Names \X Publishers) /\ PinsOutlive'
    BY <1>2, <1>4, AppendKeeps DEF RegistryInv
  <2>2. DOMAIN proc' = Hosts /\ \A q \in Hosts : ProcessInv(q)'
    BY <1>1, <1>4, Decided, ProcessMoves
  <2> QED BY <1>1, <1>3, <2>1, <2>2 DEF RegistryInv
<1>5. CASE proc' = [proc EXCEPT ![p] = Skipped(p)] /\ UNCHANGED <<pins, relied>>
  <2>1. DOMAIN proc' = Hosts /\ \A q \in Hosts : ProcessInv(q)'
    BY <1>5, RecordOf, ProcessMoves
  <2> QED BY <1>1, <1>5, <2>1, OthersKeep
<1> QED BY <1>4, <1>5 DEF Pin

LEMMA EndsKeep == ASSUME RegistryInv, NEW p \in Hosts, WalkEnds(p) \/ Exit(p) PROVE RegistryInv'
<1> DEFINE up == [proc[p] EXCEPT !.pc = "up"]
<1>1. UNCHANGED <<installed, pins, relied, command>>
  BY DEF WalkEnds, Exit, UnchangedFile, UnchangedWorld
<1>2. proc' = [proc EXCEPT ![p] = Off] \/ proc' = [proc EXCEPT ![p] = up]
  BY DEF WalkEnds, Exit
<1>3. up \in ProcessRecord /\ up.pc = "up"
  BY RecordOf DEF ProcessRecord
<1> HIDE DEF up
<1>4. DOMAIN proc' = Hosts /\ \A q \in Hosts : ProcessInv(q)'
  BY <1>2, <1>3, RecordOf, ProcessMoves
<1> QED BY <1>1, <1>4, OthersKeep

-----------------------------------------------------------------------------
(* The commands.                                                           *)

(* A command that goes on, and one that ends.                              *)
LEMMA CommandMoves ==
  ASSUME RegistryInv, NEW o \in Operators, NEW c, command' = [command EXCEPT ![o] = c],
         c.step = "add" => c.name \in Names /\ c.arg \in Publishers,
         c.step = "repair" => c.arg \in Lists
  PROVE  DOMAIN command' = Operators /\ \A q \in Operators : CommandInv(q)'
<1>1. DOMAIN command' = Operators /\ command'[o] = c /\ \A q \in Operators \ {o} : command'[q] = command[q]
  BY DEF RegistryInv
<1> QED BY <1>1 DEF RegistryInv, CommandInv

LEMMA CommandEnds ==
  ASSUME RegistryInv, NEW o \in Operators, Ends(o)
  PROVE  DOMAIN command' = Operators /\ \A q \in Operators : CommandInv(q)'
<1>1. NoCommand.step = "idle"
  BY DEF NoCommand
<1> QED BY <1>1, CommandMoves DEF Ends

LEMMA ProcessesKeep ==
  ASSUME RegistryInv, UNCHANGED proc
  PROVE  DOMAIN proc' = Hosts /\ \A p \in Hosts : ProcessInv(p)'
  BY DEF RegistryInv, ProcessInv

LEMMA BeginKeeps == ASSUME RegistryInv, NEW o \in Operators, Add(o) \/ Repair(o) PROVE RegistryInv'
<1>1. UNCHANGED <<installed, pins, relied, proc>>
  BY DEF Add, Repair, UnchangedFile, UnchangedWorld
<1>2. DOMAIN command' = Operators /\ \A q \in Operators : CommandInv(q)'
  <2>1. CASE Ends(o)
    BY <2>1, CommandEnds
  <2>2. CASE Add(o) /\ ~Ends(o)
    <3>1. PICK n \in Names, v \in Publishers : CommandGoes(o, "add", n, v)
      BY <2>2 DEF Add
    <3> DEFINE c == [step |-> "add", name |-> n, arg |-> v]
    <3>2. command' = [command EXCEPT ![o] = c] /\ c.step = "add" /\ c.name = n /\ c.arg = v
      BY <3>1 DEF CommandGoes
    <3> HIDE DEF c
    <3> QED BY <3>2, CommandMoves
  <2>3. CASE Repair(o) /\ ~Ends(o)
    <3> DEFINE c == [step |-> "repair", name |-> Nobody, arg |-> pins]
    <3>1. command' = [command EXCEPT ![o] = c] /\ pins # Torn /\ c.step = "repair" /\ c.arg = pins
      BY <2>3 DEF Repair, CommandGoes
    <3> HIDE DEF c
    <3> QED BY <3>1, CommandMoves DEF RegistryInv
  <2> QED BY <2>1, <2>2, <2>3
<1>3. PinsOutlive'
  BY <1>1 DEF RegistryInv, PinsOutlive
<1> QED BY <1>1, <1>2, <1>3, ProcessesKeep DEF RegistryInv

LEMMA AddAppendsKeeps == ASSUME RegistryInv, NEW o \in Operators, AddAppends(o) PROVE RegistryInv'
<1> DEFINE n == command[o].name
           v == command[o].arg
<1>1. UNCHANGED <<installed, proc>> /\ command[o].step = "add" /\ Ends(o)
  BY DEF AddAppends, UnchangedWorld
<1>2. n \in Names /\ v \in Publishers
  BY <1>1 DEF RegistryInv, CommandInv
<1>3. pins' \in Lists \union {Torn} /\ relied' \in SUBSET (Names \X Publishers) /\ PinsOutlive'
  <2>1. CASE Appendable(n, v) /\ AppendPin(n, v)
    BY <1>2, <2>1, AppendKeeps DEF RegistryInv
  <2>2. CASE UNCHANGED <<pins, relied>>
    BY <2>2 DEF RegistryInv, PinsOutlive
  <2> QED BY <2>1, <2>2 DEF AddAppends
<1> QED BY <1>1, <1>3, CommandEnds, ProcessesKeep DEF RegistryInv

LEMMA RemoveKeeps == ASSUME RegistryInv, NEW o \in Operators, Remove(o) PROVE RegistryInv'
<1>1. UNCHANGED <<installed, proc>> /\ pins # Torn /\ Ends(o)
  BY DEF Remove, UnchangedWorld
<1>2. PICK n \in DOMAIN pins : /\ pins' = Restrict(pins, DOMAIN pins \ {n})
                               /\ relied' = {r \in relied : r[1] # n}
  BY DEF Remove
<1>3. pins \in Lists
  BY <1>1 DEF RegistryInv
<1>4. pins' \in [DOMAIN pins \ {n} -> Publishers] /\ DOMAIN pins \ {n} \in SUBSET Names
      /\ \A m \in DOMAIN pins \ {n} : pins'[m] = pins[m]
  BY <1>2, <1>3, ListsAreLists DEF Restrict
<1>5. pins' \in Lists
  BY <1>4 DEF Lists
<1>6. ASSUME NEW r \in relied' PROVE PinIn(pins', r[1]) = r[2]
  <2>1. r \in relied /\ r[1] # n /\ r[2] \in Publishers
    BY <1>2 DEF RegistryInv
  <2>2. PinIn(pins, r[1]) = r[2]
    BY <2>1 DEF RegistryInv, PinsOutlive
  <2>3. r[1] \in DOMAIN pins
    BY <2>1, <2>2, NobodyIsNoPublisher DEF PinIn
  <2> QED BY <1>4, <2>1, <2>2, <2>3 DEF PinIn
<1>7. relied' \in SUBSET (Names \X Publishers) /\ PinsOutlive'
  BY <1>2, <1>5, <1>6, RewriteKeeps DEF RegistryInv
<1> QED BY <1>1, <1>5, <1>7, CommandEnds, ProcessesKeep DEF RegistryInv

LEMMA RepairWritesKeeps == ASSUME RegistryInv, NEW o \in Operators, RepairWrites(o) PROVE RegistryInv'
<1>1. /\ UNCHANGED <<installed, proc>> /\ command[o].step = "repair" /\ Ends(o)
      /\ pins' = command[o].arg
      /\ relied' = {r \in relied : PinIn(command[o].arg, r[1]) = r[2]}
  BY DEF RepairWrites, UnchangedWorld
<1>2. pins' \in Lists
  BY <1>1 DEF RegistryInv, CommandInv
<1>3. relied' \subseteq relied /\ \A r \in relied' : PinIn(pins', r[1]) = r[2]
  BY <1>1
<1>4. relied' \in SUBSET (Names \X Publishers) /\ PinsOutlive'
  BY <1>2, <1>3, RewriteKeeps DEF RegistryInv
<1> QED BY <1>1, <1>2, <1>4, CommandEnds, ProcessesKeep DEF RegistryInv

-----------------------------------------------------------------------------
LEMMA WorldKeeps == RegistryInv /\ (Install \/ HandEdit) => RegistryInv'
<1> SUFFICES ASSUME RegistryInv, Install \/ HandEdit PROVE RegistryInv'
  OBVIOUS
<1>1. UNCHANGED <<proc, command>>
  BY DEF Install, HandEdit
<1>2. \A o \in Operators : CommandInv(o)'
  BY <1>1 DEF RegistryInv, CommandInv
<1>3. CASE Install
  <2>1. UNCHANGED <<pins, relied>> /\ installed' \in SUBSET Entries
    BY <1>3 DEF Install, UnchangedFile, Entries, RegistryInv
  <2> QED BY <1>1, <1>2, <2>1, ProcessesKeep DEF RegistryInv, PinsOutlive
<1>4. CASE HandEdit
  <2>1. UNCHANGED installed /\ relied' = {} /\ pins' \in {Torn, NoPins}
    BY <1>4 DEF HandEdit
  <2>2. NoPins \in Lists
    <3>1. NoPins \in [{} -> Publishers]
      BY DEF NoPins
    <3> QED BY <3>1 DEF Lists
  <2> QED BY <1>1, <1>2, <2>1, <2>2, ProcessesKeep DEF RegistryInv, PinsOutlive
<1> QED BY <1>3, <1>4

LEMMA RegistryInvariance == RegistrySpec => []RegistryInv
<1>1. RegistryInit => RegistryInv
  <2> SUFFICES ASSUME RegistryInit PROVE RegistryInv
    OBVIOUS
  <2>1. NoPins \in Lists
    <3>1. NoPins \in [{} -> Publishers]
      BY DEF NoPins
    <3> QED BY <3>1 DEF Lists
  <2>2. Off \in ProcessRecord /\ Off.pc = "off"
    BY DEF Off, ProcessRecord
  <2>3. NoCommand.step = "idle"
    BY DEF NoCommand
  <2>4. installed \in SUBSET Entries
    BY DEF RegistryInit, Entries
  <2>5. \A p \in Hosts : ProcessInv(p)
    BY <2>2 DEF RegistryInit, ProcessInv
  <2>6. \A o \in Operators : CommandInv(o)
    BY <2>3 DEF RegistryInit, CommandInv
  <2> QED BY <2>1, <2>4, <2>5, <2>6 DEF RegistryInit, RegistryInv, PinsOutlive
<1>2. RegistryInv /\ [RegistryNext]_registryVars => RegistryInv'
  <2> SUFFICES ASSUME RegistryInv, [RegistryNext]_registryVars PROVE RegistryInv'
    OBVIOUS
  <2>1. CASE UNCHANGED registryVars
    <3>1. UNCHANGED <<installed, pins, relied, command, proc>>
      BY <2>1 DEF registryVars
    <3> QED BY <3>1, ProcessesKeep, OthersKeep
  <2>2. CASE \E p \in Hosts : Process(p)
    BY <2>2, DiscoverKeeps, ConsiderKeeps, EnforceTofuKeeps, PinKeeps, EndsKeep DEF Process
  <2>3. CASE \E o \in Operators : Operator(o)
    BY <2>3, BeginKeeps, AddAppendsKeeps, RemoveKeeps, RepairWritesKeeps DEF Operator
  <2> QED BY <2>1, <2>2, <2>3, WorldKeeps DEF RegistryNext
<1> QED BY <1>1, <1>2, PTL DEF RegistrySpec

-----------------------------------------------------------------------------
(* The two readings of a pin agree on a single wheel of that name.         *)
LEMMA VerifyAgrees == RegistryInv => VerifyPredicts
<1> SUFFICES ASSUME RegistryInv, pins # Torn, NEW e \in installed, e[1] \in DOMAIN pins,
                    \A d \in installed : d[1] = e[1] => d = e
             PROVE  VerifyStatus(e[1]) = {0} <=> Tofu(e[1], Verified(e[2])) = "register"
  BY DEF VerifyPredicts
<1> DEFINE w == e[2]
           pinned == pins[e[1]]
<1>1. w \in Wheels /\ pinned \in Publishers /\ PinIn(pins, e[1]) = pinned
  BY ListsAreLists DEF RegistryInv, Entries, PinIn
<1>2. {d \in installed : d[1] = e[1]} = {e}
  OBVIOUS
<1> DEFINE status == IF Attested(w) \in DOMAIN Unverified THEN Unverified[Attested(w)]
                     ELSE IF Attested(w) = pinned THEN 0 ELSE 76
<1>3. VerifyStatus(e[1]) = {status}
  BY <1>1, <1>2, NobodyIsNoPublisher DEF VerifyStatus
<1>4. status = 0 <=> Attested(w) = pinned
  BY <1>1, RegistryAssumption DEF Unverified
<1>5. Tofu(e[1], Verified(w)) = "register" <=> Verified(w) = pinned
  BY <1>1, NobodyIsNoPublisher DEF Tofu
<1>6. Verified(w) = pinned <=> Attested(w) = pinned
  BY <1>1, RegistryAssumption, NobodyIsNoPublisher DEF Verified, Attested
<1> QED BY <1>3, <1>4, <1>5, <1>6

(* Trust on first use, for any number of hosts and of operators at the     *)
(* allowlist: what a host has registered is pinned to that publisher until *)
(* somebody edits it away, and `source verify` tells the operator what the *)
(* next start will do.                                                     *)
THEOREM PinsAreKept == RegistrySpec => []PinsAreTrust
<1>1. RegistryInv => PinsAreTrust
  BY VerifyAgrees DEF RegistryInv, PinsAreTrust
<1> QED BY <1>1, RegistryInvariance, PTL
=============================================================================
