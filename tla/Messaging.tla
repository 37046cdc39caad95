------------------------------ MODULE Messaging ------------------------------
(***************************************************************************)
(* Agents that call one another over the bus (waitbus/_messaging.py):      *)
(* request emits an addressed row and waits for the reply after it,        *)
(* respond emits the reply.  The row's delivery_id makes both idempotent,  *)
(* so either side may retry, crash or be given a frame twice.              *)
(*                                                                         *)
(* The table is in seq order; the daemon hands a subscriber the rows after *)
(* its `since` in that order (module Broadcast), later or not at all.      *)
(***************************************************************************)
EXTENDS Integers, Sequences

CONSTANTS
  Agents,      \* agent names
  Cids,        \* correlation ids
  MaxMessages,     \* bound: rows
  MaxAttempts  \* bound: calls of request by an agent

VARIABLES
  messages,  \* [kind, from, to, cid, big], in seq order
  phase,     \* of each agent's request: "idle", "emitted", "waiting"
  awaited,   \* the correlation id it waits for
  since,     \* the row its subscription starts after
  pos,       \* the next row of its stream
  attempts,  \* calls of request
  outcome    \* what its last call came to: a row, NoReply or Raised

NoReply == 0
Raised == -1

waits == <<phase, awaited, since, pos, attempts, outcome>>
messagingVars == <<messages, waits>>

(* delivery_id: agent:<sender>:request:<cid>, agent:<sender>:reply:<cid>.  *)
DeliveryId(r) == <<r.from, r.kind, r.cid>>

(* emit: a row of this delivery_id that is present stays, unchanged.       *)
EmitMessage(r) ==
  messages' = IF \E i \in DOMAIN messages : DeliveryId(messages[i]) = DeliveryId(r)
          THEN messages ELSE Append(messages, r)

(* The row emit reports: the one inserted, or the one that was there.      *)
Reported(r) == CHOOSE i \in DOMAIN messages' : DeliveryId(messages'[i]) = DeliveryId(r)

-----------------------------------------------------------------------------

(* request, up to the emit.  A caller may reuse its correlation id: that   *)
(* is how it retries.                                                      *)
Request(a, b, c, big) ==
  LET r == [kind |-> "request", from |-> a, to |-> b, cid |-> c, big |-> big] IN
  /\ phase[a] = "idle" /\ attempts[a] < MaxAttempts /\ Len(messages) < MaxMessages
  /\ EmitMessage(r)
  /\ since' = [since EXCEPT ![a] = Reported(r)]
  /\ phase' = [phase EXCEPT ![a] = "emitted"]
  /\ awaited' = [awaited EXCEPT ![a] = c]
  /\ attempts' = [attempts EXCEPT ![a] = @ + 1]
  /\ UNCHANGED <<pos, outcome>>

RequestReturns(a, o) ==
  /\ phase' = [phase EXCEPT ![a] = "idle"]
  /\ outcome' = [outcome EXCEPT ![a] = o]

(* _await_reply: subscribe with `since`; the daemon may be down.           *)
AwaitReply(a) ==
  /\ phase[a] = "emitted"
  /\ \/ /\ phase' = [phase EXCEPT ![a] = "waiting"]
        /\ pos' = [pos EXCEPT ![a] = since[a] + 1]
        /\ UNCHANGED outcome
     \/ RequestReturns(a, Raised) /\ UNCHANGED pos
  /\ UNCHANGED <<messages, awaited, since, attempts>>

(* Mutant: any message to the sender is the reply.                         *)
IsReplyByRecipient(a, i) == messages[i].to = a

(* _reply_decide: the recipient of a truncated stub is not on it.          *)
IsReply(a, i) ==
  /\ messages[i].cid = awaited[a]
  /\ messages[i].to = a \/ messages[i].big

(* A frame is read; a truncated one is fetched from the store.             *)
ReadReply(a) ==
  /\ phase[a] = "waiting" /\ pos[a] <= Len(messages)
  /\ IF IsReply(a, pos[a]) THEN RequestReturns(a, pos[a]) ELSE UNCHANGED <<phase, outcome>>
  /\ pos' = [pos EXCEPT ![a] = @ + 1]
  /\ UNCHANGED <<messages, awaited, since, attempts>>

(* The timeout, Ctrl-C; the connection drops.                              *)
GivesUp(a) ==
  /\ phase[a] = "waiting"
  /\ \E o \in {NoReply, Raised} : RequestReturns(a, o)
  /\ UNCHANGED <<messages, awaited, since, pos, attempts>>

(* respond to the request of row i: by any agent it is addressed to, when  *)
(* and as often as it is handed the frame.                                 *)
Respond(i, big) ==
  /\ Len(messages) < MaxMessages /\ messages[i].kind = "request"
  /\ EmitMessage([kind |-> "reply", from |-> messages[i].to, to |-> messages[i].from,
           cid |-> messages[i].cid, big |-> big])
  /\ UNCHANGED waits

(* The process of an agent dies in a call and starts anew.                 *)
Crash(a) ==
  /\ phase[a] # "idle"
  /\ RequestReturns(a, Raised)
  /\ UNCHANGED <<messages, awaited, since, pos, attempts>>

-----------------------------------------------------------------------------

MessagingInit ==
  /\ messages = <<>>
  /\ phase = [a \in Agents |-> "idle"] /\ awaited = [a \in Agents |-> CHOOSE c \in Cids : TRUE]
  /\ since = [a \in Agents |-> 0] /\ pos = [a \in Agents |-> 1]
  /\ attempts = [a \in Agents |-> 0] /\ outcome = [a \in Agents |-> NoReply]

MessagingNext ==
  \/ \E a, b \in Agents, c \in Cids, big \in BOOLEAN : a # b /\ Request(a, b, c, big)
  \/ \E a \in Agents : AwaitReply(a) \/ ReadReply(a) \/ GivesUp(a) \/ Crash(a)
  \/ \E i \in DOMAIN messages, big \in BOOLEAN : Respond(i, big)

MessagingSpec == MessagingInit /\ [][MessagingNext]_messagingVars

-----------------------------------------------------------------------------
(* Properties.                                                             *)

Owner(c, a) ==
  \A i \in DOMAIN messages :
    messages[i].kind = "request" /\ messages[i].cid = c => messages[i].from = a

(* The reply to the request of agent a under correlation id c.             *)
Answers(i, a, c) == messages[i].kind = "reply" /\ messages[i].cid = c /\ messages[i].to = a

(* What request returns is a reply to this sender's request, as long as no *)
(* other agent sends requests under the same correlation id ("a stale or   *)
(* duplicate frame can never be mistaken for this request's reply").       *)
AnswerIsAReply ==
  \A a \in Agents :
    outcome[a] > 0 /\ Owner(awaited[a], a) /\ phase[a] = "idle" =>
      Answers(outcome[a], a, awaited[a])

(* Every reply there is, or will be, lies on the stream of every attempt:  *)
(* one that came after an earlier attempt gave up, too ("a slow or absent  *)
(* peer, safe to retry").  And a request, however often it is retried, and *)
(* its reply, however often the responder is given the request, are one    *)
(* row each.                                                               *)
RetryFindsTheReply ==
  /\ \A a \in Agents, i \in DOMAIN messages :
       phase[a] # "idle" /\ Answers(i, a, awaited[a]) /\ Owner(awaited[a], a) => i > since[a]
  /\ \A i, j \in DOMAIN messages : DeliveryId(messages[i]) = DeliveryId(messages[j]) => i = j

(* Both: request and respond may be repeated at will, and what a request   *)
(* returns answers it.                                                     *)
RequestsAreSafe == AnswerIsAReply /\ RetryFindsTheReply
=============================================================================
