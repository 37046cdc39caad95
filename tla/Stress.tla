------------------------------- MODULE Stress -------------------------------
(***************************************************************************)
(* The stress harness (scripts/stress): a controller that sweeps over      *)
(* windows, each with a daemon and n driver processes of its own, emits a  *)
(* seed the drivers wait for, drains what they print of their reactions    *)
(* and judges the run.                                                     *)
(***************************************************************************)
EXTENDS Integers, Sequences, FiniteSets

CONSTANTS
  FRAMEWORK_ORDER,  \* the drivers' frameworks
  CliFrameworks,    \* those that run a model's command line
  Sweep             \* the number of drivers of each window

VARIABLES
  kind,      \* "real" or "offline"
  ctl,       \* the controller: "window", "bind", "anchor", "spawn", "seed", "drain", "teardown", "end"
  window,    \* which window
  daemon,    \* "off", "boot", "up", "dead"
  sock,      \* whether broadcast.sock exists
  ledger,    \* the anchor and the seed of each window, in seq order
  reacted,   \* reaction rows: <<window, driver>>
  driver,    \* per driver of the window: [at, from, out, usage]
  observed,  \* per window: the reactions read from the drivers' output
  failures,  \* windows with a signal failure
  code       \* the exit code, -1 before there is one

stressVars == <<kind, ctl, window, daemon, sock, ledger, reacted, driver, observed, failures, code>>
verdict == <<observed, failures, code>>

Frameworks == {FRAMEWORK_ORDER[i] : i \in 1 .. Len(FRAMEWORK_ORDER)}

(* The order is a tuple of five; _parse_sweep refuses an empty sweep and a *)
(* count below one.                                                        *)
ASSUME StressAssumption ==
  /\ FRAMEWORK_ORDER \in Seq(Frameworks) /\ FRAMEWORK_ORDER # <<>>
  /\ Sweep \in Seq(Nat \ {0}) /\ Sweep # <<>>

(* framework_mix_for: as even as it goes, the remainder to the first.      *)
Mix(n) ==
  [f \in Frameworks |->
     Cardinality({i \in 1 .. n : FRAMEWORK_ORDER[((i - 1) % Len(FRAMEWORK_ORDER)) + 1] = f})]

Drivers(n) == {d \in Frameworks \X (1 .. n) : d[2] <= Mix(n)[d[1]]}
Slots == UNION {Drivers(Sweep[w]) : w \in 1 .. Len(Sweep)}
Here == Drivers(Sweep[window])
NotStarted == [at |-> "off", from |-> 0, out |-> {}, usage |-> "none"]

SeedOf(w) == {i \in 1 .. Len(ledger) : ledger[i] = <<"seed", w>>}

-----------------------------------------------------------------------------
(* The daemon of the window.                                               *)

WindowDaemonBinds ==
  /\ daemon = "boot"
  /\ daemon' = "up" /\ sock' = TRUE
  /\ UNCHANGED <<kind, ctl, window, ledger, reacted, driver, verdict>>

(* Killed, it leaves its socket file.                                      *)
WindowDaemonDies ==
  /\ daemon \in {"boot", "up"}
  /\ daemon' = "dead"
  /\ UNCHANGED <<kind, ctl, window, sock, ledger, reacted, driver, verdict>>

-----------------------------------------------------------------------------
(* A driver process.                                                       *)

Move(d, r) == driver' = [driver EXCEPT ![d] = r]
Is(d, where) == driver[d].at = where
DriverGone(d) == driver[d].at \in {"off", "gone"}
DriverOnly == UNCHANGED <<kind, ctl, window, daemon, sock, ledger, verdict>>

(* Mutant: subscribes from the live watermark.                             *)
DriverSubscribesLive(d) ==
  /\ Is(d, "import")
  /\ Move(d, [driver[d] EXCEPT !.at = "wait", !.from = Len(ledger)])
  /\ DriverOnly /\ UNCHANGED reacted

(* The imports and the model are done; wait_for with the anchor as since.  *)
DriverSubscribes(d) ==
  /\ Is(d, "import")
  /\ Move(d, [driver[d] EXCEPT !.at = "wait"])
  /\ DriverOnly /\ UNCHANGED reacted

(* The seed is handed over, by the live path or by the replay; the early   *)
(* marker is printed at once.                                              *)
Wake(d) ==
  /\ Is(d, "wait") /\ daemon = "up"
  /\ \E i \in SeedOf(window) : i > driver[d].from
  /\ Move(d, [driver[d] EXCEPT !.at = "call", !.out = @ \cup {"early"}])
  /\ DriverOnly /\ UNCHANGED reacted

(* What a command line can be told to have used: nothing, a clean count,   *)
(* an envelope that refuses, one that does not parse as usage.             *)
Usages == {"none", "clean", "refused", "odd"}

(* A command line returns; its non-zero exit with an envelope is as good   *)
(* as a clean one.                                                         *)
CliCall(d) ==
  /\ Is(d, "call") /\ d[1] \in CliFrameworks
  /\ \E u \in Usages : Move(d, [driver[d] EXCEPT !.at = "emit", !.usage = u])
  /\ DriverOnly /\ UNCHANGED reacted

(* A library's call returns, with or without a count; the control driver   *)
(* calls nothing.                                                          *)
LibraryCall(d) ==
  /\ Is(d, "call") /\ d[1] \notin CliFrameworks
  /\ \E u \in {"none", "clean"} : Move(d, [driver[d] EXCEPT !.at = "emit", !.usage = u])
  /\ DriverOnly /\ UNCHANGED reacted

(* Mutant: the marker is printed before the emit.                          *)
EmitReactionLast(d) ==
  /\ Is(d, "emit")
  /\ Move(d, [driver[d] EXCEPT !.at = "mark", !.out = @ \cup {"reacted"}])
  /\ DriverOnly /\ UNCHANGED reacted

EmitReaction(d) ==
  /\ Is(d, "emit")
  /\ reacted' = reacted \cup {<<window, d>>}
  /\ Move(d, [driver[d] EXCEPT !.at = "mark"])
  /\ DriverOnly

Mark(d) ==
  /\ Is(d, "mark")
  /\ Move(d, [driver[d] EXCEPT !.at = "gone", !.out = @ \cup {"reacted"}])
  /\ DriverOnly /\ UNCHANGED reacted

(* No model, a wait or a call that times out, no command line, an error of *)
(* the daemon's socket or of the store, a crash.                           *)
DriverExits(d) ==
  /\ ~DriverGone(d)
  /\ Move(d, [driver[d] EXCEPT !.at = "gone"])
  /\ DriverOnly /\ UNCHANGED reacted

-----------------------------------------------------------------------------
(* The controller.                                                         *)

At(where) == ctl = where
Goto(where) == ctl' = where

OpenWindow ==
  /\ At("window")
  /\ daemon' = "boot" /\ Goto("bind")
  /\ UNCHANGED <<kind, window, sock, ledger, reacted, driver, verdict>>

SeesSocket ==
  /\ At("bind") /\ sock
  /\ Goto(IF kind = "real" THEN "anchor" ELSE "spawn")
  /\ UNCHANGED <<kind, window, daemon, sock, ledger, reacted, driver, verdict>>

Anchor ==
  /\ At("anchor")
  /\ ledger' = Append(ledger, <<"anchor", window>>)
  /\ Goto("spawn")
  /\ UNCHANGED <<kind, window, daemon, sock, reacted, driver, verdict>>

(* spawn_n_heterogeneous, or n times `waitbus wait`.                       *)
Spawn ==
  /\ At("spawn")
  /\ driver' = [d \in Slots |-> IF d \in Here THEN [NotStarted EXCEPT !.at = "import", !.from = Len(ledger)]
                                ELSE NotStarted]
  /\ Goto(IF kind = "real" THEN "seed" ELSE "teardown")
  /\ UNCHANGED <<kind, window, daemon, sock, ledger, reacted, verdict>>

(* After the settle, whoever has subscribed by then.                       *)
Seed ==
  /\ At("seed")
  /\ ledger' = Append(ledger, <<"seed", window>>)
  /\ Goto("drain")
  /\ UNCHANGED <<kind, window, daemon, sock, reacted, driver, verdict>>

(* Past the deadline a driver's group is terminated; what it had printed   *)
(* is read, unless a process of another group keeps the pipe open.         *)
DrainEnds(d) ==
  /\ At("drain") /\ ~DriverGone(d)
  /\ \E out \in {driver[d].out, {}} : Move(d, [driver[d] EXCEPT !.at = "gone", !.out = out])
  /\ DriverOnly /\ UNCHANGED reacted

Counted == {d \in Here : "reacted" \in driver[d].out}

(* cross_broadcast_proven.                                                 *)
Proven(seen) ==
  /\ Cardinality(seen) = Sweep[window]
  /\ {d[1] : d \in seen} = Frameworks

Collect ==
  /\ At("drain") /\ \A d \in Here : DriverGone(d)
  /\ observed' = [observed EXCEPT ![window] = {<<d, driver[d].usage>> : d \in Counted}]
  /\ failures' = IF Proven(Counted) THEN failures ELSE failures \cup {window}
  /\ Goto("teardown")
  /\ UNCHANGED <<kind, window, daemon, sock, ledger, reacted, driver, code>>

(* The bind's timeout, or the store or a spawn that fails: in a real sweep *)
(* one window, else the run.                                               *)
WindowRaises ==
  /\ ctl \in {"bind", "anchor", "spawn", "seed"}
  /\ failures' = failures \cup {window}
  /\ Goto("teardown")
  /\ code' = IF kind = "real" THEN code ELSE 1
  /\ UNCHANGED <<kind, window, daemon, sock, ledger, reacted, driver, observed>>

Cleans == kind = "real"

(* The children are terminated, the daemon last, killed if it has to be; a *)
(* real window removes its socket files too.                               *)
Teardown ==
  /\ At("teardown")
  /\ driver' = [d \in Slots |-> IF DriverGone(d) THEN driver[d] ELSE [driver[d] EXCEPT !.at = "gone"]]
  /\ daemon' = "off"
  /\ \E left \in BOOLEAN :
       /\ left => sock
       /\ sock' = (left /\ ~Cleans)
  /\ window' = IF window = Len(Sweep) \/ code # -1 THEN window ELSE window + 1
  /\ Goto(IF window = Len(Sweep) \/ code # -1 THEN "end" ELSE "window")
  /\ UNCHANGED <<kind, ledger, reacted, verdict>>

Unclean == {r \in UNION {observed[w] : w \in DOMAIN observed} : r[2] \in {"refused", "odd"}}

(* _summarize_real_curve_points, the verdict and the exit code.            *)
JudgeSweep ==
  /\ At("end") /\ code = -1
  /\ code' = IF failures = {} /\ Unclean = {} THEN 0 ELSE 1
  /\ UNCHANGED <<kind, ctl, window, daemon, sock, ledger, reacted, driver, observed, failures>>

-----------------------------------------------------------------------------
StressInit ==
  /\ kind \in {"real", "offline"} /\ ctl = "window" /\ window = 1
  /\ daemon = "off" /\ sock = FALSE /\ ledger = <<>> /\ reacted = {}
  /\ driver = [d \in Slots |-> NotStarted]
  /\ observed = [w \in 1 .. Len(Sweep) |-> {}] /\ failures = {} /\ code = -1

Controls ==
  \/ OpenWindow \/ SeesSocket \/ Anchor \/ Spawn \/ Seed \/ Collect \/ Teardown \/ JudgeSweep
  \/ \E d \in Slots : DrainEnds(d)

StressNext ==
  \/ Controls \/ WindowRaises
  \/ WindowDaemonBinds \/ WindowDaemonDies
  \/ \E d \in Slots : DriverSubscribes(d) \/ Wake(d) \/ CliCall(d) \/ LibraryCall(d)
                         \/ EmitReaction(d) \/ Mark(d) \/ DriverExits(d)

StressSpec == StressInit /\ [][StressNext]_stressVars

-----------------------------------------------------------------------------
(* A pass of a real run is earned: in every window every driver stored its *)
(* reaction after the seed, and none of them was a refusal; whatever was   *)
(* killed, raised or drained late.                                         *)
PassIsEarned ==
  code = 0 /\ kind = "real" =>
    \A w \in 1 .. Len(Sweep) :
      /\ SeedOf(w) # {}
      /\ \A d \in Drivers(Sweep[w]) : <<w, d>> \in reacted
      /\ \A r \in observed[w] : r[2] \notin {"refused", "odd"}

(* A driver that subscribes at any time, before the seed or long after it, *)
(* is one the seed is handed to.                                           *)
SeedIsForEveryDriver ==
  \A d \in Slots : Is(d, "wait") /\ ~At("teardown") => \A i \in SeedOf(window) : i > driver[d].from

=============================================================================
