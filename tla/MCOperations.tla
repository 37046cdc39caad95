---------------------------- MODULE MCOperations ----------------------------
(* What supervisors, timers and the operator's commands run on one machine:*)
(* the event store's commands, `serve`, the webhook listener and a pytest  *)
(* run, the plugin registry and the watchdog.  They meet in files of their *)
(* own, so each behaviour runs one of them and the others stand still;     *)
(* Parts says which ones a run explores.                                   *)
EXTENDS Serve, Watchdog, Store, Ingress, Registry

CONSTANTS Parts, n1, v1, v2

VARIABLE part

(* Two attested wheels of one name, one without an attestation, and one    *)
(* that is refused; every plugin loaded, or only the ones allowed.         *)
TheWheels ==
  {[signer |-> v1, types |-> {"a"}, flaw |-> "no"], [signer |-> v2, types |-> {"a"}, flaw |-> "no"],
   [signer |-> "none", types |-> {"b"}, flaw |-> "no"],
   [signer |-> "bad", types |-> {"b"}, flaw |-> "contract"]}
ThePolicies ==
  {[autoload |-> TRUE, allow |-> {}, deny |-> {}], [autoload |-> FALSE, allow |-> {n1}, deny |-> {}]}

mcVars == <<part, storeVars, serveVars, ingressVars, registryVars, watchdogVars>>

(* Components that do not run start in one fixed state.                    *)
MCInit ==
  /\ part \in Parts
  /\ StoreInit /\ ServeInit /\ IngressInit /\ RegistryInit /\ Init
  /\ part # "store" => ~file
  /\ part # "listener" => host = "daemon"
  /\ part # "pytest" => numprocesses
  /\ part # "plugins" => tooling /\ \A e \in installed : e[2].signer = v1

MCNext ==
  \/ /\ part = "store" /\ StoreNext
     /\ UNCHANGED <<part, serveVars, ingressVars, registryVars, watchdogVars>>
  \/ /\ part = "serve" /\ ServeNext
     /\ UNCHANGED <<part, storeVars, ingressVars, registryVars, watchdogVars>>
  \/ /\ part = "listener" /\ Listener
     /\ UNCHANGED <<part, storeVars, serveVars, registryVars, watchdogVars>>
  \/ /\ part = "pytest" /\ Pytest
     /\ UNCHANGED <<part, storeVars, serveVars, registryVars, watchdogVars>>
  \/ /\ part = "plugins" /\ RegistryNext
     /\ UNCHANGED <<part, storeVars, serveVars, ingressVars, watchdogVars>>
  \/ /\ part = "watchdog" /\ Next
     /\ UNCHANGED <<part, storeVars, serveVars, ingressVars, registryVars>>

(* serve_forever goes on.                                                  *)
MCSpec == MCInit /\ [][MCNext]_mcVars /\ WF_ingressVars(part = "listener" /\ LoopEnds)
=============================================================================
