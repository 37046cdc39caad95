----------------------------- MODULE MCPrograms -----------------------------
(* The programs beside the daemon: the `on` supervisor, request and        *)
(* respond, the two sides of the MCP server, the ETag poll, and the stress *)
(* and soak runs.  They meet in the table only, so each behaviour runs one *)
(* and the others stand still; Parts says which ones a run explores.       *)
EXTENDS Polling, OnCommand, Messaging, McpTail, McpPush, Stress, Soak

CONSTANTS Parts, claude, shell

TheOrder == <<claude, shell>>
TheSweep == <<2, 2>>

VARIABLE part

MCInit ==
  /\ part \in Parts
  /\ OnInit /\ MessagingInit /\ TailInit /\ PushInit
  /\ Init /\ StressInit /\ SoakInit
  /\ part # "on" => mode = "once"
  /\ part # "tail" => lane = "inbox"
  /\ part # "push" => negotiated /\ ~replays
  /\ part # "stress" => kind = "real"
  /\ part # "soak" => cycles = 0

agentVars == <<onVars, messagingVars, tailVars, pushVars>>
mcVars == <<part, agentVars, vars, stressVars, soakVars>>

MCNext ==
  \/ /\ part = "on" /\ OnNext
     /\ UNCHANGED <<part, messagingVars, tailVars, pushVars, vars, stressVars, soakVars>>
  \/ /\ part = "messaging" /\ MessagingNext
     /\ UNCHANGED <<part, onVars, tailVars, pushVars, vars, stressVars, soakVars>>
  \/ /\ part = "tail" /\ TailNext
     /\ UNCHANGED <<part, onVars, messagingVars, pushVars, vars, stressVars, soakVars>>
  \/ /\ part = "push" /\ PushNext
     /\ UNCHANGED <<part, onVars, messagingVars, tailVars, vars, stressVars, soakVars>>
  \/ /\ part = "poll" /\ Next
     /\ UNCHANGED <<part, agentVars, stressVars, soakVars>>
  \/ /\ part = "stress" /\ StressNext
     /\ UNCHANGED <<part, agentVars, vars, soakVars>>
  \/ /\ part = "soak" /\ SoakNext
     /\ UNCHANGED <<part, agentVars, vars, stressVars>>

MCSpec == MCInit /\ [][MCNext]_mcVars
=============================================================================
