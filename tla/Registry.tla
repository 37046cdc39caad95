------------------------------ MODULE Registry ------------------------------
(***************************************************************************)
(* Third-party sources: how a process discovers the installed plugins and  *)
(* decides which of them to register (sources/_registry.py,                *)
(* sources/_attestation.py), the file of pinned publishers the processes   *)
(* and the operator's commands share (sources/_config.py,                  *)
(* cli/allowlist.py), and the commands that report on both                 *)
(* (cli/sources.py).                                                       *)
(*                                                                         *)
(* A name is trusted on first use: the first attested wheel registered     *)
(* under it pins its publisher, later ones must carry the same.  Writers   *)
(* of the file re-read it under a lock and replace it atomically; readers  *)
(* take no lock.  So a step that reads and a step that writes are apart,   *)
(* and each is one action.                                                 *)
(*                                                                         *)
(* A wheel is a record of what discovery can tell of it: who signed it     *)
(* (`none`: no attestation or no digest to check it against; `bad`: the    *)
(* check fails), the event types of its spec, and its first flaw.          *)
(***************************************************************************)
EXTENDS Naturals, FiniteSets, Functions

CONSTANTS
    Names,          \* entry-point names
    Builtins,       \* the names waitbus keeps for itself
    BuiltinTypes,   \* the event types of the built-in sources
    Publishers,     \* identities an attestation can name
    Wheels,         \* what a distribution may carry
    Policies,       \* [autoload, allow, deny] of config.toml and the environment
    Daemons,        \* serve, listener, broadcast: a rejected plugin stops them
    Verbs,          \* CLI processes that discover, warn and go on
    Operators,      \* people running `waitbus allowlist`
    Torn,           \* the value of a file that cannot be parsed
    MaxWalks, MaxCommands, MaxInstalls, MaxEdits

Hosts == Daemons \union Verbs
Nobody == "none"
NoPins == [n \in {} |-> Nobody]

(* A publisher is an identity, never the lack of one; a file that cannot   *)
(* be parsed is no allowlist.                                              *)
ASSUME RegistryAssumption ==
    /\ {"none", "bad", "missing"} \intersect Publishers = {}
    /\ \A w \in Wheels : w.signer \in Publishers \union {"none", "bad"}
    /\ Torn \notin UNION {[S -> Publishers] : S \in SUBSET Names}

VARIABLES
    installed,  \* <<name, wheel>> of every entry point on disk
    tooling,    \* the plugin-verify extra can be imported
    pins,       \* plugins.allowlist.toml: name -> publisher, or Torn
    proc,       \* proc[p]: one process and its registry
    command,    \* command[o]: the allowlist command an operator has running
    walks, commands, installs, edits,
    relied,     \* ghost: <<n, v>> somebody acted on as the pin of n
    undone      \* ghost: names whose pin a repair took away

registryVars == <<installed, tooling, pins, proc, command,
                  walks, commands, installs, edits, relied, undone>>

Off == [pc |-> "off", todo |-> {}, sources |-> {}, rejected |-> {}, cand |-> Nobody]
NoCommand == [step |-> "idle", name |-> Nobody, arg |-> Nobody]

(* load_allowlist: the pin of n in an allowlist that could be read. *)
PinIn(list, n) == IF n \in DOMAIN list THEN list[n] ELSE Nobody

(* verify_distribution, and _verify_publisher, which turns both of its     *)
(* errors into "unverified".                                               *)
Attested(w) == IF ~tooling THEN "missing" ELSE w.signer

Verified(w) == IF Attested(w) \in Publishers THEN w.signer ELSE Nobody

(* _select_entry_points under a policy load_plugin_policy resolved. *)
Selected(policy) ==
    IF ~policy.autoload THEN {e \in installed : e[1] \in policy.allow}
    ELSE {e \in installed : e[1] \notin policy.deny}

TypesTaken(p, n) ==
    BuiltinTypes \union UNION {s.types : s \in {x \in proc[p].sources : x.name # n}}

(* _validate_plugin_callable, _validate_spec, the name check of            *)
(* register_plugin and _validate_common.                                   *)
Acceptable(p, e) ==
    /\ e[2].flaw = "no"
    /\ e[1] \notin Builtins
    /\ \A s \in proc[p].sources : s.name # e[1]
    /\ e[2].types \intersect TypesTaken(p, e[1]) = {}

-----------------------------------------------------------------------------
RegistryInit ==
    /\ installed \in {{<<n, w>>} : n \in Names \ Builtins, w \in Wheels}
    /\ tooling \in BOOLEAN
    /\ pins = NoPins
    /\ proc = [p \in Hosts |-> Off]
    /\ command = [o \in Operators |-> NoCommand]
    /\ walks = 0 /\ commands = 0 /\ installs = 0 /\ edits = 0
    /\ relied = {} /\ undone = {}

UnchangedFile == UNCHANGED <<pins, relied, undone>>
UnchangedWorld == UNCHANGED <<installed, tooling, installs, edits>>

(* A fresh process: discover_plugins_once finds its flag down, so it lists *)
(* the entry points the policy lets through.                               *)
Discover(p) ==
    /\ proc[p].pc = "off"
    /\ walks < MaxWalks
    /\ walks' = walks + 1
    /\ \E policy \in Policies :
          proc' = [proc EXCEPT ![p] = [Off EXCEPT !.pc = "walk", !.todo = Selected(policy)]]
    /\ UnchangedFile /\ UnchangedWorld /\ UNCHANGED <<command, commands>>

(* What the import of a listed wheel finds: itself, or what has replaced   *)
(* it since.                                                               *)
Found(e) == {e} \union (IF e \in installed THEN {} ELSE {x \in installed : x[1] = e[1]})

(* The next entry point is imported, checked and its attestation verified, *)
(* which is looked for where the listed wheel was.  One that cannot be     *)
(* imported, or whose spec() raises, is skipped; one that breaks the       *)
(* contract is rejected.                                                   *)
Consider(p) ==
    /\ proc[p].pc = "walk"
    /\ \E e \in proc[p].todo : \E x \in Found(e) :
          LET w == x[2]
              rest == [proc[p] EXCEPT !.todo = @ \ {e}]
              next == IF x \notin installed \/ w.flaw \in {"import", "raises"} THEN rest
                      ELSE IF ~Acceptable(p, x) THEN [rest EXCEPT !.rejected = @ \union {e[1]}]
                      ELSE [rest EXCEPT !.pc = "tofu",
                              !.cand = [name |-> e[1], types |-> w.types,
                                        publisher |-> IF x = e THEN Verified(w) ELSE Nobody]]
          IN  proc' = [proc EXCEPT ![p] = next]
    /\ UnchangedFile /\ UnchangedWorld /\ UNCHANGED <<command, walks, commands>>

Registered(p) ==
    [proc[p] EXCEPT !.pc = "walk", !.sources = @ \union {proc[p].cand}, !.cand = Nobody]
Skipped(p) == [proc[p] EXCEPT !.pc = "walk", !.cand = Nobody]
Rejected(p) ==
    [proc[p] EXCEPT !.pc = "walk", !.cand = Nobody,
                    !.rejected = @ \union {proc[p].cand.name}]

(* _enforce_tofu: what becomes of a wheel with this (or no) attested       *)
(* publisher.  A file that cannot be parsed counts as empty.               *)
Tofu(n, v) ==
    LET prior == IF pins = Torn THEN Nobody ELSE PinIn(pins, n)
    IN  IF prior = Nobody THEN IF v = Nobody THEN "register" ELSE "pin"
        ELSE IF v = prior THEN "register" ELSE "reject"

EnforceTofu(p) ==
    /\ proc[p].pc = "tofu"
    /\ LET cand == proc[p].cand
           verdict == Tofu(cand.name, cand.publisher)
       IN  /\ proc' = [proc EXCEPT ![p] =
                 [pin |-> [proc[p] EXCEPT !.pc = "pin"],
                  register |-> Registered(p), reject |-> Rejected(p)][verdict]]
           /\ relied' = IF verdict = "register" /\ cand.publisher # Nobody
                        THEN relied \union {<<cand.name, cand.publisher>>} ELSE relied
    /\ UnchangedWorld
    /\ UNCHANGED <<pins, undone, command, walks, commands>>

(* Plausible bug: the pin is written without looking at the file again.    *)
AppendableUnread(n, v) == pins # Torn

(* append_publisher_pin: under the lock the file is read again; a pin that *)
(* appeared meanwhile stays, and a file that cannot be parsed raises.      *)
Appendable(n, v) == pins # Torn /\ PinIn(pins, n) \in {Nobody, v}

AppendPin(n, v) ==
    /\ pins' = [m \in DOMAIN pins \union {n} |-> IF m = n THEN v ELSE pins[m]]
    /\ relied' = relied \union {<<n, v>>}

(* The first attested wheel pins its publisher.  Either error of the       *)
(* append is no policy error for discover_plugins: the plugin is skipped.  *)
Pin(p) ==
    /\ proc[p].pc = "pin"
    /\ LET cand == proc[p].cand IN
         \/ /\ Appendable(cand.name, cand.publisher)
            /\ AppendPin(cand.name, cand.publisher)
            /\ proc' = [proc EXCEPT ![p] = Registered(p)]
         \/ /\ ~Appendable(cand.name, cand.publisher)
            /\ proc' = [proc EXCEPT ![p] = Skipped(p)]
            /\ UNCHANGED <<pins, relied>>
    /\ UnchangedWorld /\ UNCHANGED <<undone, command, walks, commands>>

(* The walk is over: with a rejection discover_plugins raises, a daemon    *)
(* ends there, _ensure_plugin_discovery_for_cli warns and goes on.         *)
WalkEnds(p) ==
    /\ proc[p].pc = "walk"
    /\ proc[p].todo = {}
    /\ proc' = [proc EXCEPT ![p] =
          IF p \in Daemons /\ @.rejected # {} THEN Off ELSE [@ EXCEPT !.pc = "up"]]
    /\ UnchangedFile /\ UnchangedWorld /\ UNCHANGED <<command, walks, commands>>

(* The process ends, or is killed wherever it is; a pin it wrote stays. *)
Exit(p) ==
    /\ proc[p].pc # "off"
    /\ proc' = [proc EXCEPT ![p] = Off]
    /\ UnchangedFile /\ UnchangedWorld /\ UNCHANGED <<command, walks, commands>>

-----------------------------------------------------------------------------
(* The allowlist commands. *)

Run(o) == command[o].step = "idle" /\ commands < MaxCommands /\ commands' = commands + 1

Ends(o) == command' = [command EXCEPT ![o] = NoCommand]

CommandGoes(o, step, n, arg) == command' = [command EXCEPT ![o] = [step |-> step, name |-> n, arg |-> arg]]

(* allowlist add looks before it appends: an unreadable file is a          *)
(* traceback, a pinned name exit 2.                                        *)
Add(o) ==
    /\ Run(o)
    /\ \E n \in Names, v \in Publishers :
          IF pins # Torn /\ PinIn(pins, n) = Nobody THEN CommandGoes(o, "add", n, v) ELSE Ends(o)
    /\ UnchangedFile /\ UnchangedWorld /\ UNCHANGED <<proc, walks>>

AddAppends(o) ==
    /\ command[o].step = "add"
    /\ \/ /\ Appendable(command[o].name, command[o].arg)
          /\ AppendPin(command[o].name, command[o].arg)
       \/ /\ ~Appendable(command[o].name, command[o].arg)
          /\ UNCHANGED <<pins, relied>>
    /\ Ends(o)
    /\ UnchangedWorld /\ UNCHANGED <<undone, proc, walks, commands>>

(* remove_publisher_pin reads and writes under the lock. *)
Remove(o) ==
    /\ Run(o)
    /\ pins # Torn
    /\ \E n \in DOMAIN pins :
          /\ pins' = Restrict(pins, DOMAIN pins \ {n})
          /\ relied' = {r \in relied : r[1] # n}
    /\ Ends(o)
    /\ UnchangedWorld /\ UNCHANGED <<undone, proc, walks>>

(* allowlist repair reads the file before it takes the lock ... *)
Repair(o) ==
    /\ Run(o)
    /\ IF pins = Torn THEN Ends(o) ELSE CommandGoes(o, "repair", Nobody, pins)
    /\ UnchangedFile /\ UnchangedWorld /\ UNCHANGED <<proc, walks>>

(* ... and writes what it read.  What was pinned or removed in between is  *)
(* undone.                                                                 *)
RepairWrites(o) ==
    /\ command[o].step = "repair"
    /\ pins' = command[o].arg
    /\ LET kept == {r \in relied : PinIn(command[o].arg, r[1]) = r[2]}
       IN  /\ relied' = kept
           /\ undone' = undone \union {r[1] : r \in relied \ kept}
    /\ Ends(o)
    /\ UnchangedWorld /\ UNCHANGED <<proc, walks, commands>>

(* The exit status of `allowlist verify`: 66 no pin or no wheel, 78 no     *)
(* tooling, 76 the check fails or names another publisher, 65 nothing to   *)
(* check.                                                                  *)
Unverified == [missing |-> 78, bad |-> 76, none |-> 65]

VerifyStatus(n) ==
    LET here == {e \in installed : e[1] = n}
        Status(w) == IF Attested(w) \in DOMAIN Unverified THEN Unverified[Attested(w)]
                     ELSE IF Attested(w) = pins[n] THEN 0 ELSE 76
    IN  IF PinIn(pins, n) = Nobody \/ here = {} THEN {66} ELSE {Status(e[2]) : e \in here}

-----------------------------------------------------------------------------
(* The world: pip replaces a distribution or adds another that claims the  *)
(* same name; the operator edits the file, perhaps so that it no longer    *)
(* parses (nothing pinned is relied on across an edit).                    *)
Install ==
    /\ installs < MaxInstalls
    /\ installs' = installs + 1
    /\ \E n \in Names, w \in Wheels :
          installed' \in {installed \union {<<n, w>>},
                          {e \in installed : e[1] # n} \union {<<n, w>>}}
    /\ UnchangedFile /\ UNCHANGED <<tooling, edits, proc, command, walks, commands>>

HandEdit ==
    /\ edits < MaxEdits
    /\ edits' = edits + 1
    /\ pins' \in {Torn, NoPins}
    /\ relied' = {}
    /\ UNCHANGED <<installed, tooling, installs, proc, command, walks, commands, undone>>

Process(p) ==
    \/ Discover(p) \/ Consider(p) \/ EnforceTofu(p) \/ Pin(p) \/ WalkEnds(p) \/ Exit(p)

Operator(o) == Add(o) \/ AddAppends(o) \/ Remove(o) \/ Repair(o) \/ RepairWrites(o)

RegistryNext ==
    \/ \E p \in Hosts : Process(p)
    \/ \E o \in Operators : Operator(o)
    \/ Install
    \/ HandEdit

RegistrySpec == RegistryInit /\ [][RegistryNext]_registryVars

-----------------------------------------------------------------------------
(* A publisher somebody acted on, by registering a wheel of his or by      *)
(* being told that he is pinned, is the pinned one until an operator       *)
(* removes the pin or edits the file (or a repair undoes it), however the  *)
(* daemons, the listings and the commands interleave                       *)
(* (append_publisher_pin, _enforce_tofu).                                  *)
PinsOutlive == \A r \in relied : pins # Torn /\ PinIn(pins, r[1]) = r[2]

(* "a concurrent CLI `allowlist add` and a daemon `_enforce_tofu` writer   *)
(* cannot lose updates": no repair takes away a pin it did not see.        *)
(* The code does not keep it (README, "Where the code disagrees").         *)
RepairKeepsPins == undone = {}

(* `allowlist verify` and the loading of plugins compare a wheel with its  *)
(* pin in code of their own: status 0 is given exactly for a wheel that a  *)
(* starting daemon would register under its pin.                           *)
VerifyPredicts ==
    pins # Torn =>
      \A e \in installed :
          (/\ e[1] \in DOMAIN pins
           /\ \A d \in installed : d[1] = e[1] => d = e)
          => (VerifyStatus(e[1]) = {0} <=> Tofu(e[1], Verified(e[2])) = "register")

(* Both: the allowlist is what the next start goes by, and what the        *)
(* operator is told about it.                                              *)
PinsAreTrust == PinsOutlive /\ VerifyPredicts
=============================================================================
