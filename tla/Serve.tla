-------------------------------- MODULE Serve --------------------------------
(***************************************************************************)
(* The foreground supervisor (waitbus/cli/serve.py): each one probes the   *)
(* broadcast socket, runs the daemon as a task of its own loop, waits for  *)
(* the socket, starts the components and takes all down again.  What       *)
(* supervisors share is the socket file: a bind unlinks whatever is there, *)
(* and so does the end of a daemon.                                        *)
(***************************************************************************)
EXTENDS Integers, FiniteSets

CONSTANTS
  Supervisors,
  Components,  \* the listener and the watchers
  None,        \* no socket file
  MaxLaunches, \* bound: supervisors launched
  MaxTicks     \* bound: threads of one poll timer alive at once

VARIABLES
  path,      \* whose socket the file is
  sup,       \* per supervisor: see NotLaunched
  launches,  \* supervisors launched so far
  exposed    \* who bound while another was about (history)

serveVars == <<path, sup, launches, exposed>>

(* daemon: "boot", "up", "closing", and how it ended: "done", "raised",    *)
(* or, with the socket still open, "failed" (raised) or "cancelled".       *)
(* early: a SIGINT fell before the supervisor's own handlers were there.   *)
NotLaunched == [at |-> "gone", daemon |-> "off", stop |-> FALSE, early |-> FALSE,
                threads |-> {}, timer |-> "off", ticks |-> 0, code |-> 0]

Is(s, where) == sup[s].at = where
Over(s) == sup[s].daemon \in {"done", "raised", "failed"}
Alive(s) == ~Is(s, "gone")
Listening(s) == Alive(s) /\ sup[s].daemon \in {"up", "failed", "cancelled"}

Become(s, r) == sup' = [sup EXCEPT ![s] = r]
Shared == <<path, launches, exposed>>

-----------------------------------------------------------------------------
(* The daemon's socket.                                                    *)

(* Mutant: any file is taken for stale.                                    *)
ProbeStale(found) == found = FALSE

(* _probe_broadcast_bound: a connect that somebody accepts.                *)
Probe(found) == found <=> path # None /\ Listening(path)

(* Broadcast.run up to its wait: the file that is there is unlinked; the   *)
(* doorbell may fail then, and leaves the socket open.                     *)
Bind(s) ==
  /\ Alive(s) /\ ~Is(s, "threads") /\ sup[s].daemon = "boot"
  /\ path' = s
  /\ exposed' = IF \E t \in Supervisors \ {s} : Alive(t) /\ sup[t].daemon \in {"boot", "up", "closing"}
                THEN exposed \cup {s} ELSE exposed \ {s}
  /\ \E d \in {"up", "failed"} : Become(s, [sup[s] EXCEPT !.daemon = d])
  /\ UNCHANGED launches

(* ensure_schema, _seed_cursor or the bind itself raises.                  *)
BootFails(s) ==
  /\ Alive(s) /\ ~Is(s, "threads") /\ sup[s].daemon = "boot"
  /\ Become(s, [sup[s] EXCEPT !.daemon = "raised"])
  /\ UNCHANGED Shared

(* stop_event, by the teardown or by the end of whoever spawned it: the    *)
(* socket is closed; or a loop of the daemon had died and run raises what  *)
(* it died of, before _shutdown.                                           *)
Close(s) ==
  /\ Alive(s) /\ ~Is(s, "threads") /\ sup[s].daemon = "up"
  /\ \E d \in {"closing", "failed"} : Become(s, [sup[s] EXCEPT !.daemon = d])
  /\ UNCHANGED Shared

(* The path is unlinked, whoever's socket it is by now.                    *)
Unlink(s) ==
  /\ Alive(s) /\ sup[s].daemon = "closing"
  /\ path' = None
  /\ Become(s, [sup[s] EXCEPT !.daemon = "done"])
  /\ UNCHANGED <<launches, exposed>>

-----------------------------------------------------------------------------
(* _run_serve.                                                             *)

(* asyncio.run answers an early SIGINT: before the daemon is created, or   *)
(* at the first await, with the daemon to take down.  Its code is 0.       *)
Launch(s) ==
  /\ Is(s, "gone") /\ launches < MaxLaunches
  /\ launches' = launches + 1
  /\ \E early \in BOOLEAN :
       \/ /\ Probe(FALSE)
          /\ Become(s, [NotLaunched EXCEPT !.at = "await", !.daemon = "boot", !.early = early])
       \/ /\ early \/ Probe(TRUE)
          /\ Become(s, [NotLaunched EXCEPT !.at = "leave", !.early = early, !.code = IF early THEN 0 ELSE 2])
  /\ UNCHANGED <<path, exposed>>

Signal(s) ==
  /\ sup[s].at \notin {"gone", "leave"}
  /\ Become(s, [sup[s] EXCEPT !.stop = TRUE])
  /\ UNCHANGED Shared

(* _await_socket finds one, its own or not; _start_components.             *)
StartComponents(s) ==
  /\ Is(s, "await") /\ ~Over(s) /\ (sup[s].early => sup[s].daemon = "boot")
  /\ Probe(TRUE)
  /\ \E C \in SUBSET Components, timer \in {"off", "sleep"} :
       Become(s, [sup[s] EXCEPT !.at = "run", !.threads = C, !.timer = timer])
  /\ UNCHANGED Shared

(* The daemon is over, or the deadline passes: an error; or the stop came, *)
(* or the early SIGINT is heard.                                           *)
AwaitEnds(s) ==
  /\ Is(s, "await")
  /\ \E code \in {0, 1} :
       /\ IF code = 0 THEN sup[s].early \/ (sup[s].stop /\ ~Over(s)) ELSE ~sup[s].early
       /\ Become(s, [sup[s] EXCEPT !.at = "polls", !.code = code])
  /\ UNCHANGED Shared

(* The stop or the end of the daemon, whichever comes first.               *)
RunEnds(s) ==
  /\ Is(s, "run") /\ (Over(s) \/ sup[s].stop \/ sup[s].early)
  /\ Become(s, [sup[s] EXCEPT !.at = "polls", !.code = IF sup[s].stop \/ sup[s].early THEN 0 ELSE 1])
  /\ UNCHANGED Shared

(* _poll_loop: a tick is a thread; past its budget only the await of it is *)
(* given up.                                                               *)
PollTick(s) ==
  /\ Is(s, "run") /\ sup[s].timer = "sleep" /\ sup[s].ticks < MaxTicks
  /\ Become(s, [sup[s] EXCEPT !.timer = "tick", !.ticks = @ + 1])
  /\ UNCHANGED Shared

TickTimesOut(s) ==
  /\ Is(s, "run") /\ sup[s].timer = "tick"
  /\ Become(s, [sup[s] EXCEPT !.timer = "sleep"])
  /\ UNCHANGED Shared

TickReturns(s) ==
  /\ sup[s].ticks > 0
  /\ \E timer \in {sup[s].timer} \cup (IF sup[s].timer = "tick" THEN {"sleep"} ELSE {}) :
       /\ sup[s].ticks = 1 => timer # "tick"
       /\ Become(s, [sup[s] EXCEPT !.timer = timer, !.ticks = @ - 1])
  /\ UNCHANGED Shared

-----------------------------------------------------------------------------
(* _teardown: the timers, the threads, the bus last.                       *)

StopPolls(s) ==
  /\ Is(s, "polls")
  /\ Become(s, [sup[s] EXCEPT !.at = "threads", !.timer = "off"])
  /\ UNCHANGED Shared

(* Each join is bounded: who ended within the bound, and who did not.      *)
JoinsEnd(s) ==
  /\ Is(s, "threads")
  /\ \E late \in SUBSET sup[s].threads : Become(s, [sup[s] EXCEPT !.at = "bus", !.threads = late])
  /\ UNCHANGED Shared

(* Mutant: an exception the daemon had died of before is not asked for.    *)
BusJoinedSilently(s) ==
  /\ Is(s, "bus") /\ Over(s)
  /\ Become(s, [sup[s] EXCEPT !.at = "leave"])
  /\ UNCHANGED Shared

(* The daemon has ended; its exception is a code, and yields to the        *)
(* KeyboardInterrupt that asyncio.run makes of an early SIGINT.            *)
BusJoined(s) ==
  /\ Is(s, "bus") /\ Over(s)
  /\ Become(s, [sup[s] EXCEPT !.at = "leave",
                              !.code = IF sup[s].daemon = "done" \/ sup[s].early THEN @ ELSE 1])
  /\ UNCHANGED Shared

(* Past the bound the daemon is cancelled in its shutdown, before it       *)
(* unlinks anything; the code stays.                                       *)
BusTimesOut(s) ==
  /\ Is(s, "bus") /\ sup[s].daemon = "up"
  /\ Become(s, [sup[s] EXCEPT !.at = "leave", !.daemon = "cancelled"])
  /\ UNCHANGED Shared

(* asyncio.run joins the threads of ticks; component threads die.          *)
Leave(s) ==
  /\ Is(s, "leave") /\ sup[s].ticks = 0
  /\ Become(s, [sup[s] EXCEPT !.at = "gone", !.threads = {}])
  /\ UNCHANGED Shared

(* SIGKILL: the file stays.                                                *)
SigKill(s) ==
  /\ Alive(s)
  /\ Become(s, [NotLaunched EXCEPT !.code = 137])
  /\ UNCHANGED Shared

-----------------------------------------------------------------------------
ServeInit ==
  /\ path = None /\ launches = 0 /\ exposed = {}
  /\ sup = [s \in Supervisors |-> NotLaunched]

Proceed(s) ==
  \/ Bind(s) \/ BootFails(s) \/ Unlink(s)
  \/ StartComponents(s) \/ AwaitEnds(s) \/ RunEnds(s)
  \/ StopPolls(s) \/ JoinsEnd(s) \/ BusJoined(s) \/ Leave(s)

ServeNext ==
  \E s \in Supervisors :
    \/ Proceed(s) \/ Close(s) \/ BusTimesOut(s)
    \/ Launch(s) \/ Signal(s) \/ SigKill(s)
    \/ PollTick(s) \/ TickTimesOut(s) \/ TickReturns(s)

(* The loop runs; a daemon that is told to stop does; requests of a poll   *)
(* have timeouts.                                                          *)
Goes(s) == Proceed(s) \/ (Is(s, "bus") /\ Close(s)) \/ (Is(s, "leave") /\ TickReturns(s))

Fairness == \A s \in Supervisors : WF_serveVars(Goes(s))

ServeSpec == ServeInit /\ [][ServeNext]_serveVars /\ Fairness

-----------------------------------------------------------------------------
(* 0 is returned only by a supervisor that was told to stop and whose      *)
(* daemon came up and ended without an exception, however the stop, the    *)
(* daemon's end, the bounded join and the teardown fall together; two      *)
(* cases apart that the code has too: a daemon that did not end in time    *)
(* and was cancelled, and a SIGINT before the handlers, which makes 0 of   *)
(* whatever there was (README, "Where the code disagrees").                *)
ExitCodeTellsTheBus ==
  \A s \in Supervisors : Is(s, "gone") /\ sup[s].code = 0 /\ sup[s] # NotLaunched /\ ~sup[s].early =>
    sup[s].stop /\ sup[s].daemon \in {"done", "cancelled"}

(* A daemon loses its socket file, to another daemon or to the end of      *)
(* another, only when its own bind fell between the probe and the bind, or *)
(* the bind and the unlink, of that one: the probe keeps everybody else    *)
(* from stealing it.                                                       *)
StrandedOnlyInAWindow ==
  \A s \in Supervisors : Alive(s) /\ sup[s].daemon = "up" /\ path # s => s \in exposed

=============================================================================
