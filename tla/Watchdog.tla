------------------------------ MODULE Watchdog ------------------------------
(***************************************************************************)
(* The heartbeat absence detector (watchdog_check.py): a one-shot check a  *)
(* timer starts, which compares the age of the newest heartbeat row with   *)
(* a threshold and keeps two flag files, `watchdog_seen` and               *)
(* `watchdog_stale`.  Between two checks heartbeats arrive, time passes,   *)
(* rows are pruned; a check can be killed between any two of its steps.    *)
(***************************************************************************)
EXTENDS Integers

CONSTANTS Threshold,   \* ticks without a heartbeat that are still fresh
          MaxTime,     \* bound on the clock
          MaxKills     \* bound on checks killed half way

VARIABLES
    clock,
    latest,     \* received_at of the newest heartbeat row, -1 for none
    everSeen, stale,    \* the flag files
    check,      \* the running check: its step and what it has read
    kills,
    told,       \* ghost: announcements since the last check that found it fresh
    muffled     \* ghost: a check was killed between touching stale and notify-send

watchdogVars == <<clock, latest, everSeen, stale, check, kills, told, muffled>>

Asleep == [step |-> "none", latest |-> -1, age |-> -1, code |-> 0]

Init ==
    /\ clock = 0 /\ latest = -1
    /\ everSeen = FALSE /\ stale = FALSE
    /\ check = Asleep
    /\ kills = 0 /\ told = 0 /\ muffled = FALSE

World == UNCHANGED <<clock, latest, kills>>

(* latest_watchdog_ts; a database error ends the check with 2. *)
Query ==
    /\ check.step = "none"
    /\ \/ check' = [Asleep EXCEPT !.step = "bootstrap", !.latest = latest]
       \/ check' = [Asleep EXCEPT !.code = 2]
    /\ World /\ UNCHANGED <<everSeen, stale, told, muffled>>

(* The first heartbeat ever leaves the everSeen flag.  Without it and without  *)
(* a row nothing is wired up yet: the check removes stale and ends.        *)
Bootstrap ==
    /\ check.step = "bootstrap"
    /\ everSeen' = (everSeen \/ check.latest # -1)
    /\ IF everSeen'
       THEN /\ check' = [check EXCEPT !.step = "judge",
                          !.age = IF check.latest = -1 THEN -1 ELSE clock - check.latest]
            /\ UNCHANGED <<stale, told, muffled>>
       ELSE /\ check' = Asleep
            /\ stale' = FALSE /\ told' = 0 /\ muffled' = FALSE
    /\ World

IsFresh(c) == c.latest # -1 /\ c.age <= Threshold

Fresh ==
    /\ check.step = "judge" /\ IsFresh(check)
    /\ stale' = FALSE
    /\ check' = Asleep
    /\ told' = 0 /\ muffled' = FALSE
    /\ World /\ UNCHANGED everSeen

(* Plausible bug: the flag is touched before it is asked whether it was    *)
(* there.                                                                  *)
StaleTouchedFirst ==
    /\ check.step = "judge" /\ ~IsFresh(check)
    /\ stale' = TRUE
    /\ check' = IF ~stale' THEN [check EXCEPT !.step = "notify"] ELSE [Asleep EXCEPT !.code = 1]
    /\ World /\ UNCHANGED <<everSeen, told, muffled>>

(* Stale: only the transition is announced, after the flag is touched. *)
Stale ==
    /\ check.step = "judge" /\ ~IsFresh(check)
    /\ stale' = TRUE
    /\ check' = IF ~stale THEN [check EXCEPT !.step = "notify"] ELSE [Asleep EXCEPT !.code = 1]
    /\ World /\ UNCHANGED <<everSeen, told, muffled>>

NotifySend ==
    /\ check.step = "notify"
    /\ told' = told + 1
    /\ check' = [Asleep EXCEPT !.code = 1]
    /\ World /\ UNCHANGED <<everSeen, stale, muffled>>

Kill ==
    /\ check.step # "none" /\ kills < MaxKills
    /\ kills' = kills + 1
    /\ muffled' = (muffled \/ check.step = "notify")
    /\ check' = Asleep
    /\ UNCHANGED <<clock, latest, everSeen, stale, told>>

(* Outside the check. *)
Heartbeat == latest' = clock /\ UNCHANGED <<clock, everSeen, stale, check, kills, told, muffled>>
Prune == latest' = -1 /\ UNCHANGED <<clock, everSeen, stale, check, kills, told, muffled>>
Tick ==
    /\ clock < MaxTime
    /\ clock' = clock + 1
    /\ UNCHANGED <<latest, everSeen, stale, check, kills, told, muffled>>

Next ==
    \/ Query \/ Bootstrap \/ Fresh \/ Stale \/ NotifySend \/ Kill
    \/ Heartbeat \/ Prune \/ Tick

Spec == Init /\ [][Next]_watchdogVars

(* While the stale flag stands (and no check is between touching it and    *)
(* announcing it) the outage was announced exactly once, unless a check    *)
(* died in that window: then nobody is ever told of it (_check_once        *)
(* touches the flag before it calls notify_send).                          *)
OutageIsAnnouncedOnce ==
    stale /\ check.step # "notify" => told = (IF muffled THEN 0 ELSE 1)
=============================================================================
