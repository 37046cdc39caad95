---------------------------- MODULE ClientProofs ----------------------------
(***************************************************************************)
(* Proofs about the clients of the bus: requests between agents, the MCP   *)
(* server's inbox and its push path.                                       *)
(***************************************************************************)
EXTENDS Messaging, McpTail, McpPush, FiniteSetTheorems, SequenceTheorems, TLAPS

-----------------------------------------------------------------------------
(* Messaging: requests and replies, for any number of agents, correlation  *)
(* ids and messages.                                                       *)

Message == [kind : {"request", "reply"}, from : Agents, to : Agents, cid : Cids, big : BOOLEAN]

(* What an agent waits for is its own request's row, or one before it has  *)
(* called at all.                                                          *)
MessagingTypeOK ==
  /\ messages \in Seq(Message)
  /\ phase \in [Agents -> {"idle", "emitted", "waiting"}]
  /\ awaited \in [Agents -> Cids \cup {CHOOSE c \in Cids : TRUE}]
  /\ since \in [Agents -> Nat] /\ pos \in [Agents -> Nat] /\ outcome \in [Agents -> Int]
  /\ attempts \in [Agents -> Nat]

(* A delivery id is one row.                                               *)
UniqueInv ==
  \A i, j \in DOMAIN messages : DeliveryId(messages[i]) = DeliveryId(messages[j]) => i = j

(* A reply comes after the request it answers.                             *)
CausedInv ==
  \A i \in DOMAIN messages : messages[i].kind = "reply" =>
    \E j \in 1..i - 1 : /\ messages[j].kind = "request"
                        /\ messages[j].cid = messages[i].cid /\ messages[j].from = messages[i].to

(* The watermark of a call is its own request's row, and what it returned  *)
(* last is an answer, as long as nobody else uses its correlation id.      *)
AgentInv(x) ==
  /\ phase[x] # "idle" => /\ since[x] \in DOMAIN messages
                          /\ DeliveryId(messages[since[x]]) = <<x, "request", awaited[x]>>
  /\ phase[x] = "waiting" => pos[x] > since[x]
  /\ outcome[x] <= Len(messages)
  /\ outcome[x] > 0 /\ Owner(awaited[x], x) /\ phase[x] = "idle" =>
       Answers(outcome[x], x, awaited[x])

CallInv == \A x \in Agents : AgentInv(x)

MessagingInv == MessagingTypeOK /\ UniqueInv /\ CausedInv /\ CallInv

-----------------------------------------------------------------------------
(* What emit does to the table: nothing is changed, at most the row is     *)
(* added, and the row it reports is one of that delivery id.               *)
LEMMA EmitGrows ==
  ASSUME messages \in Seq(Message), UniqueInv, NEW r \in Message, EmitMessage(r)
  PROVE  /\ messages' \in Seq(Message) /\ Len(messages) <= Len(messages')
         /\ \A i \in DOMAIN messages : i \in DOMAIN messages' /\ messages'[i] = messages[i]
         /\ \A i \in DOMAIN messages' : i \notin DOMAIN messages =>
              i > Len(messages) /\ messages'[i] = r
         /\ UniqueInv'
         /\ Reported(r) \in DOMAIN messages' /\ DeliveryId(messages'[Reported(r)]) = DeliveryId(r)
<1>1. CASE \E i \in DOMAIN messages : DeliveryId(messages[i]) = DeliveryId(r)
  <2>1. messages' = messages
    BY <1>1 DEF EmitMessage
  <2>2. \E i \in DOMAIN messages' : DeliveryId(messages'[i]) = DeliveryId(r)
    BY <1>1, <2>1
  <2>3. Reported(r) \in DOMAIN messages' /\ DeliveryId(messages'[Reported(r)]) = DeliveryId(r)
    BY <2>2 DEF Reported
  <2>4. UniqueInv'
    BY <2>1 DEF UniqueInv, DeliveryId
  <2> QED BY <2>1, <2>3, <2>4
<1>2. CASE ~\E i \in DOMAIN messages : DeliveryId(messages[i]) = DeliveryId(r)
  <2>1. messages' = Append(messages, r)
    BY <1>2 DEF EmitMessage
  <2>2. /\ messages' \in Seq(Message) /\ Len(messages') = Len(messages) + 1
        /\ \A i \in 1..Len(messages) : messages'[i] = messages[i]
        /\ messages'[Len(messages) + 1] = r
    BY <2>1
  <2>3. DOMAIN messages = 1..Len(messages) /\ DOMAIN messages' = 1..Len(messages) + 1
        /\ Len(messages) \in Nat
    BY <2>2
  <2>4. ASSUME NEW i \in DOMAIN messages', NEW j \in DOMAIN messages',
               DeliveryId(messages'[i]) = DeliveryId(messages'[j])
        PROVE  i = j
    <3>1. CASE i \in DOMAIN messages /\ j \in DOMAIN messages
      BY <3>1, <2>2, <2>3, <2>4 DEF UniqueInv
    <3>2. CASE i = Len(messages) + 1 /\ j \in DOMAIN messages
      BY <3>2, <2>2, <2>3, <2>4, <1>2
    <3>3. CASE j = Len(messages) + 1 /\ i \in DOMAIN messages
      BY <3>3, <2>2, <2>3, <2>4, <1>2
    <3>4. CASE i = Len(messages) + 1 /\ j = Len(messages) + 1
      BY <3>4
    <3> QED BY <3>1, <3>2, <3>3, <3>4, <2>3
  <2>5. UniqueInv'
    BY <2>4 DEF UniqueInv, DeliveryId
  <2>6. \E i \in DOMAIN messages' : DeliveryId(messages'[i]) = DeliveryId(r)
    BY <2>2, <2>3
  <2>7. Reported(r) \in DOMAIN messages' /\ DeliveryId(messages'[Reported(r)]) = DeliveryId(r)
    BY <2>6 DEF Reported
  <2> QED BY <2>2, <2>3, <2>5, <2>7
<1> QED BY <1>1, <1>2

(* Rows that stay keep what is said about them; a new request causes none, *)
(* a new reply has its request.                                            *)
LEMMA CausedStays ==
  ASSUME messages \in Seq(Message), UniqueInv, CausedInv, NEW r \in Message, EmitMessage(r),
         r.kind = "reply" =>
           \E j \in DOMAIN messages : /\ messages[j].kind = "request"
                                      /\ messages[j].cid = r.cid /\ messages[j].from = r.to
  PROVE  CausedInv'
<1>1. SUFFICES ASSUME NEW i \in DOMAIN messages', messages'[i].kind = "reply"
      PROVE  \E j \in 1..i - 1 : /\ messages'[j].kind = "request"
                                 /\ messages'[j].cid = messages'[i].cid
                                 /\ messages'[j].from = messages'[i].to
  BY DEF CausedInv
<1>2. /\ messages' \in Seq(Message) /\ Len(messages) <= Len(messages')
      /\ \A k \in DOMAIN messages : k \in DOMAIN messages' /\ messages'[k] = messages[k]
      /\ \A k \in DOMAIN messages' : k \notin DOMAIN messages =>
           k > Len(messages) /\ messages'[k] = r
  BY EmitGrows
<1>3. DOMAIN messages = 1..Len(messages) /\ i \in Nat /\ Len(messages) \in Nat
  BY <1>2
<1>4. CASE i \in DOMAIN messages
  <2>1. PICK j \in 1..i - 1 : /\ messages[j].kind = "request"
                             /\ messages[j].cid = messages[i].cid /\ messages[j].from = messages[i].to
    BY <1>1, <1>2, <1>4 DEF CausedInv
  <2>2. j \in DOMAIN messages
    BY <1>3, <1>4
  <2> QED BY <2>1, <2>2, <1>2, <1>4
<1>5. CASE i \notin DOMAIN messages
  <2>1. i > Len(messages) /\ messages'[i] = r
    BY <1>2, <1>5
  <2>2. PICK j \in DOMAIN messages : /\ messages[j].kind = "request"
                                    /\ messages[j].cid = r.cid /\ messages[j].from = r.to
    BY <1>1, <2>1
  <2>3. j \in 1..i - 1
    BY <1>3, <2>1
  <2> QED BY <2>1, <2>2, <2>3, <1>2
<1> QED BY <1>4, <1>5

(* An answer that was one stays one while the table grows.                 *)
LEMMA AnswerStays ==
  ASSUME \A i \in DOMAIN messages : i \in DOMAIN messages' /\ messages'[i] = messages[i],
         NEW x, NEW c, Owner(c, x)'
  PROVE  Owner(c, x) /\ \A i \in DOMAIN messages : Answers(i, x, c) => Answers(i, x, c)'
  BY DEF Owner, Answers

(* A row after the request of the call, with its correlation id, is the    *)
(* reply: the request itself is the only request there can be.             *)
LEMMA ReplyIsFound ==
  ASSUME MessagingTypeOK, UniqueInv, CausedInv, CallInv, NEW x \in Agents, phase[x] # "idle",
         Owner(awaited[x], x), NEW i \in DOMAIN messages, i > since[x],
         messages[i].cid = awaited[x]
  PROVE  Answers(i, x, awaited[x])
<1>1. /\ since[x] \in DOMAIN messages
      /\ messages[since[x]].from = x /\ messages[since[x]].kind = "request"
      /\ messages[since[x]].cid = awaited[x]
  BY DEF CallInv, AgentInv, DeliveryId
<1>2. messages[i] \in Message
  BY DEF MessagingTypeOK
<1>3. messages[i].kind # "request"
  <2> SUFFICES ASSUME messages[i].kind = "request" PROVE FALSE
    OBVIOUS
  <2>1. messages[i].from = x
    BY DEF Owner
  <2>2. DeliveryId(messages[i]) = DeliveryId(messages[since[x]])
    BY <1>1, <2>1 DEF DeliveryId
  <2>3. i = since[x]
    BY <1>1, <2>2 DEF UniqueInv
  <2> QED BY <2>3, <1>1 DEF MessagingTypeOK
<1>4. messages[i].kind = "reply"
  BY <1>2, <1>3 DEF Message
<1>5. PICK j \in 1..i - 1 : /\ messages[j].kind = "request"
                           /\ messages[j].cid = messages[i].cid /\ messages[j].from = messages[i].to
  BY <1>4 DEF CausedInv
<1>6. j \in DOMAIN messages
  <2>1. i \in 1..Len(messages) /\ Len(messages) \in Nat /\ DOMAIN messages = 1..Len(messages)
    BY DEF MessagingTypeOK
  <2> QED BY <2>1
<1>7. messages[j].from = x
  BY <1>5, <1>6 DEF Owner
<1> QED BY <1>4, <1>5, <1>7 DEF Answers

-----------------------------------------------------------------------------
(* The steps.                                                              *)

(* The agents whose own variables stay, while the table grows.             *)
LEMMA OthersStay ==
  ASSUME MessagingInv, messages' \in Seq(Message), Len(messages) <= Len(messages'),
         \A i \in DOMAIN messages : i \in DOMAIN messages' /\ messages'[i] = messages[i],
         NEW x \in Agents, phase'[x] = phase[x], awaited'[x] = awaited[x], since'[x] = since[x],
         pos'[x] = pos[x], outcome'[x] = outcome[x]
  PROVE  AgentInv(x)'
<1>1. messages \in Seq(Message) /\ outcome[x] \in Int /\ Len(messages) \in Nat /\ Len(messages') \in Nat
  BY DEF MessagingInv, MessagingTypeOK
<1>2. /\ phase[x] # "idle" => /\ since[x] \in DOMAIN messages
                              /\ DeliveryId(messages[since[x]]) = <<x, "request", awaited[x]>>
      /\ phase[x] = "waiting" => pos[x] > since[x]
      /\ outcome[x] <= Len(messages)
  BY DEF MessagingInv, CallInv, AgentInv
<1>3. phase'[x] # "idle" => /\ since'[x] \in DOMAIN messages'
                           /\ DeliveryId(messages'[since'[x]]) = <<x, "request", awaited'[x]>>
  BY <1>2 DEF DeliveryId
<1>4. ASSUME outcome[x] > 0, Owner(awaited[x], x)', phase[x] = "idle"
      PROVE  Answers(outcome[x], x, awaited[x])'
  <2>1. Owner(awaited[x], x) /\ messages[outcome[x]] = messages'[outcome[x]]
    BY <1>1, <1>2, <1>4 DEF Owner
  <2>2. Answers(outcome[x], x, awaited[x])
    BY <2>1, <1>4 DEF MessagingInv, CallInv, AgentInv
  <2> QED BY <2>1, <2>2 DEF Answers
<1>5. outcome'[x] <= Len(messages')
  BY <1>1, <1>2
<1> QED BY <1>2, <1>3, <1>4, <1>5 DEF AgentInv

(* The four ends of a request: sent, refused, and the two of its emit.     *)
LEMMA RequestStep ==
  ASSUME MessagingInv, NEW x \in Agents, NEW y \in Agents, NEW c \in Cids, NEW big \in BOOLEAN,
         Request(x, y, c, big)
  PROVE  MessagingInv'
<1> DEFINE r == [kind |-> "request", from |-> x, to |-> y, cid |-> c, big |-> big]
<1>1. /\ phase[x] = "idle" /\ EmitMessage(r)
      /\ since' = [since EXCEPT ![x] = Reported(r)]
      /\ phase' = [phase EXCEPT ![x] = "emitted"]
      /\ awaited' = [awaited EXCEPT ![x] = c]
      /\ attempts' = [attempts EXCEPT ![x] = @ + 1]
      /\ pos' = pos /\ outcome' = outcome
  BY DEF Request
<1>2. r \in Message /\ r.kind = "request" /\ DeliveryId(r) = <<x, "request", c>>
  BY DEF Message, DeliveryId
<1> HIDE DEF r
<1>3. messages \in Seq(Message) /\ UniqueInv /\ CausedInv
  BY DEF MessagingInv, MessagingTypeOK
<1>4. /\ messages' \in Seq(Message) /\ Len(messages) <= Len(messages')
      /\ \A i \in DOMAIN messages : i \in DOMAIN messages' /\ messages'[i] = messages[i]
      /\ UniqueInv'
      /\ Reported(r) \in DOMAIN messages' /\ DeliveryId(messages'[Reported(r)]) = DeliveryId(r)
  BY <1>1, <1>2, <1>3, EmitGrows
<1>5. CausedInv'
  BY <1>1, <1>2, <1>3, CausedStays
<1>6. Reported(r) \in Nat
  BY <1>4
<1>7. MessagingTypeOK'
  BY SMTT(20), <1>1, <1>4, <1>6 DEF MessagingInv, MessagingTypeOK
<1>8. ASSUME NEW z \in Agents PROVE AgentInv(z)'
  <2>1. CASE z # x
    <3>1. /\ phase'[z] = phase[z] /\ awaited'[z] = awaited[z] /\ since'[z] = since[z]
          /\ pos'[z] = pos[z] /\ outcome'[z] = outcome[z]
      BY <2>1, <1>1 DEF MessagingInv, MessagingTypeOK
    <3> QED BY <3>1, <1>4, OthersStay
  <2>2. CASE z = x
    <3>1. /\ phase'[z] = "emitted" /\ awaited'[z] = c /\ since'[z] = Reported(r)
          /\ outcome'[z] = outcome[z]
      BY <2>2, <1>1 DEF MessagingInv, MessagingTypeOK
    <3>2. outcome[z] <= Len(messages) /\ outcome[z] \in Int
      BY DEF MessagingInv, CallInv, AgentInv, MessagingTypeOK
    <3>3. outcome'[z] <= Len(messages')
      BY <3>1, <3>2, <1>3, <1>4
    <3>4. since'[z] \in DOMAIN messages' /\ DeliveryId(messages'[since'[z]]) = <<z, "request", awaited'[z]>>
      BY <3>1, <2>2, <1>2, <1>4
    <3> QED BY <3>1, <3>3, <3>4 DEF AgentInv, DeliveryId
  <2> QED BY <2>1, <2>2
<1>9. CallInv'
  BY <1>8 DEF CallInv
<1> QED BY <1>4, <1>5, <1>7, <1>9 DEF MessagingInv

(* A responder's row answers the request it was given.                     *)
LEMMA RespondStep ==
  ASSUME MessagingInv, NEW i \in DOMAIN messages, NEW big \in BOOLEAN, Respond(i, big)
  PROVE  MessagingInv'
<1> DEFINE r == [kind |-> "reply", from |-> messages[i].to, to |-> messages[i].from,
                 cid |-> messages[i].cid, big |-> big]
<1>0. messages \in Seq(Message) /\ UniqueInv /\ CausedInv /\ messages[i] \in Message
  BY DEF MessagingInv, MessagingTypeOK
<1>1. messages[i].kind = "request" /\ EmitMessage(r) /\ UNCHANGED waits
  BY DEF Respond
<1>2. r \in Message /\ r.cid = messages[i].cid /\ r.to = messages[i].from
  BY <1>0 DEF Message
<1> HIDE DEF r
<1>4. /\ messages' \in Seq(Message) /\ Len(messages) <= Len(messages')
      /\ \A k \in DOMAIN messages : k \in DOMAIN messages' /\ messages'[k] = messages[k]
      /\ UniqueInv'
  BY <1>0, <1>1, <1>2, EmitGrows
<1>5. CausedInv'
  BY <1>0, <1>1, <1>2, CausedStays
<1>7. MessagingTypeOK'
  BY <1>1, <1>4 DEF MessagingInv, MessagingTypeOK, waits
<1>8. ASSUME NEW z \in Agents PROVE AgentInv(z)'
  <2>1. /\ phase'[z] = phase[z] /\ awaited'[z] = awaited[z] /\ since'[z] = since[z]
        /\ pos'[z] = pos[z] /\ outcome'[z] = outcome[z]
    BY <1>1 DEF waits
  <2> QED BY <2>1, <1>4, OthersStay
<1>9. CallInv'
  BY <1>8 DEF CallInv
<1> QED BY <1>4, <1>5, <1>7, <1>9 DEF MessagingInv

(* The steps of a call after its emit leave the table alone.               *)
LEMMA CallStep ==
  ASSUME MessagingInv, NEW x \in Agents, AwaitReply(x) \/ ReadReply(x) \/ GivesUp(x) \/ Crash(x)
  PROVE  MessagingInv'
<1>0. messages' = messages /\ awaited' = awaited /\ since' = since /\ attempts' = attempts
  BY DEF AwaitReply, ReadReply, GivesUp, Crash
<1>1. UniqueInv' /\ CausedInv'
  BY <1>0 DEF MessagingInv, UniqueInv, CausedInv, DeliveryId
<1>t. MessagingTypeOK /\ CallInv /\ UniqueInv /\ CausedInv
  BY DEF MessagingInv
<1>u. /\ Len(messages) \in Nat /\ messages \in Seq(Message)
      /\ phase \in [Agents -> {"idle", "emitted", "waiting"}]
      /\ since \in [Agents -> Nat] /\ pos \in [Agents -> Nat] /\ outcome \in [Agents -> Int]
  BY <1>t DEF MessagingTypeOK
<1>2. MessagingTypeOK'
  <2>1. CASE AwaitReply(x)
    <3>0. PICK n \in Nat : n = since[x] + 1
      BY <1>u
    <3>1. pos' = pos \/ pos' = [pos EXCEPT ![x] = n]
      BY <2>1, <3>0 DEF AwaitReply
    <3>2. pos' \in [Agents -> Nat]
      BY <3>1, <1>u
    <3>3. \/ phase' = [phase EXCEPT ![x] = "waiting"] /\ outcome' = outcome
          \/ phase' = [phase EXCEPT ![x] = "idle"] /\ outcome' = [outcome EXCEPT ![x] = Raised]
      BY <2>1 DEF AwaitReply, RequestReturns
    <3>4. phase' \in [Agents -> {"idle", "emitted", "waiting"}]
      BY <3>3, <1>u
    <3>5. outcome' \in [Agents -> Int]
      BY <3>3, <1>u DEF Raised
    <3> QED BY <1>0, <1>t, <3>2, <3>4, <3>5 DEF MessagingTypeOK
  <2>2. CASE ReadReply(x)
    <3>1. pos' = [pos EXCEPT ![x] = @ + 1]
      BY <2>2 DEF ReadReply
    <3>2. pos' \in [Agents -> Nat]
      BY <3>1, <1>u
    <3>3. \/ phase' = phase /\ outcome' = outcome
          \/ phase' = [phase EXCEPT ![x] = "idle"] /\ outcome' = [outcome EXCEPT ![x] = pos[x]]
      BY <2>2 DEF ReadReply, RequestReturns
    <3>4. phase' \in [Agents -> {"idle", "emitted", "waiting"}]
      BY <3>3, <1>u
    <3>0. pos[x] \in Int
      BY <1>u
    <3>5. outcome' \in [Agents -> Int]
      BY <3>0, <3>3, <1>u
    <3> QED BY <1>0, <1>t, <3>2, <3>4, <3>5 DEF MessagingTypeOK
  <2>3. CASE GivesUp(x) \/ Crash(x)
    BY <1>0, <1>t, <2>3 DEF GivesUp, Crash, RequestReturns, Raised, NoReply, MessagingTypeOK
  <2> QED BY <2>1, <2>2, <2>3
<1>3. \A z \in Agents : z # x => phase'[z] = phase[z] /\ pos'[z] = pos[z] /\ outcome'[z] = outcome[z]
  BY <1>u DEF AwaitReply, ReadReply, GivesUp, Crash, RequestReturns
<1>4. /\ phase[x] # "idle"
      /\ \/ phase'[x] = "waiting" /\ pos'[x] > since[x] /\ outcome'[x] = outcome[x]
         \/ phase'[x] = "idle" /\ outcome'[x] \in {NoReply, Raised}
         \/ /\ phase'[x] = "idle" /\ outcome'[x] \in DOMAIN messages /\ outcome'[x] > since[x]
            /\ messages[outcome'[x]].cid = awaited[x]
  <2>1. CASE AwaitReply(x)
    BY <1>u, <2>1 DEF AwaitReply, RequestReturns
  <2>2. CASE ReadReply(x)
    <3>1. phase[x] = "waiting" /\ pos[x] > since[x] /\ pos[x] <= Len(messages) /\ pos[x] \in Nat /\ since[x] \in Nat
      BY <1>t, <1>u, <2>2 DEF ReadReply, CallInv, AgentInv
    <3>2. CASE IsReply(x, pos[x])
      <4>1. phase'[x] = "idle" /\ outcome'[x] = pos[x] /\ messages[pos[x]].cid = awaited[x]
        BY <1>u, <2>2, <3>2 DEF ReadReply, RequestReturns, IsReply
      <4>2. pos[x] \in DOMAIN messages
        BY <3>1, <1>t DEF MessagingTypeOK
      <4> QED BY <3>1, <4>1, <4>2
    <3>3. CASE ~IsReply(x, pos[x])
      <4>1. phase'[x] = "waiting" /\ outcome'[x] = outcome[x] /\ pos'[x] = pos[x] + 1
        BY <1>u, <2>2, <3>1, <3>3 DEF ReadReply
      <4> QED BY <3>1, <4>1
    <3> QED BY <3>2, <3>3
  <2>3. CASE GivesUp(x) \/ Crash(x)
    BY <1>u, <2>3 DEF GivesUp, Crash, RequestReturns
  <2> QED BY <2>1, <2>2, <2>3
<1>5. ASSUME NEW z \in Agents PROVE AgentInv(z)'
  <2>1. AgentInv(z)
    BY <1>t DEF CallInv
  <2>2. Owner(awaited[z], z)' => Owner(awaited[z], z)
    BY <1>0 DEF Owner
  <2>3. CASE z # x
    BY <2>1, <2>3, <1>0, <1>3 DEF AgentInv, Owner, Answers, DeliveryId
  <2>4. CASE z = x /\ phase'[x] = "waiting" /\ pos'[x] > since[x] /\ outcome'[x] = outcome[x]
    BY <2>1, <2>4, <1>0, <1>4 DEF AgentInv, DeliveryId
  <2>5. CASE z = x /\ phase'[x] = "idle" /\ outcome'[x] \in {NoReply, Raised}
    BY <2>5, <1>0, <1>u DEF NoReply, Raised, AgentInv
  <2>6. CASE /\ z = x /\ phase'[x] = "idle" /\ outcome'[x] \in DOMAIN messages /\ outcome'[x] > since[x]
             /\ messages[outcome'[x]].cid = awaited[x]
    <3>1. PICK i \in DOMAIN messages : i = outcome'[x]
      BY <2>6
    <3>2. Owner(awaited[x], x) => Answers(i, x, awaited[x])
      BY <2>6, <3>1, <1>4, <1>t, ReplyIsFound
    <3>3. i <= Len(messages)
      BY <3>1, <1>u
    <3> QED BY <2>2, <2>6, <3>1, <3>2, <3>3, <1>0 DEF AgentInv, Owner, Answers
  <2> QED BY <1>4, <2>3, <2>4, <2>5, <2>6
<1>6. CallInv'
  BY <1>5 DEF CallInv
<1> QED BY <1>1, <1>2, <1>6 DEF MessagingInv

LEMMA MessagingStep == MessagingInv /\ [MessagingNext]_messagingVars => MessagingInv'
<1> SUFFICES ASSUME MessagingInv, [MessagingNext]_messagingVars PROVE MessagingInv'
  OBVIOUS
<1>1. CASE UNCHANGED messagingVars
  <2>1. UNCHANGED <<messages, phase, awaited, since, pos, outcome, attempts>>
    BY <1>1 DEF messagingVars, waits
  <2>2. MessagingTypeOK'
    BY <2>1 DEF MessagingInv, MessagingTypeOK
  <2>3. UniqueInv' /\ CausedInv'
    BY <2>1 DEF MessagingInv, UniqueInv, CausedInv, DeliveryId
  <2>4. \A x \in Agents : AgentInv(x)'
    BY <2>1 DEF MessagingInv, CallInv, AgentInv, Owner, Answers, DeliveryId
  <2> QED BY <2>2, <2>3, <2>4 DEF MessagingInv, CallInv
<1>2. CASE MessagingNext
  BY <1>2, RequestStep, RespondStep, CallStep DEF MessagingNext
<1> QED BY <1>1, <1>2

LEMMA MessagingInitially == MessagingInit => MessagingInv
<1> SUFFICES ASSUME MessagingInit PROVE MessagingInv
  OBVIOUS
<1>1. messages = <<>> /\ DOMAIN messages = {} /\ Len(messages) = 0
  BY DEF MessagingInit
<1>2. \A x \in Agents : phase[x] = "idle" /\ outcome[x] = 0
  BY DEF MessagingInit, NoReply
<1>3. MessagingTypeOK
  BY <1>1 DEF MessagingInit, MessagingTypeOK, NoReply
<1>4. UniqueInv /\ CausedInv
  BY <1>1 DEF UniqueInv, CausedInv
<1>5. CallInv
  <2>1. ASSUME NEW x \in Agents PROVE AgentInv(x)
    BY <1>1, <1>2 DEF AgentInv
  <2> QED BY <2>1 DEF CallInv
<1> QED BY <1>3, <1>4, <1>5 DEF MessagingInv

(* The request whose reply is in the table came before it; so it is on the *)
(* stream of every attempt.                                                *)
LEMMA ReplyIsAhead == MessagingInv => RetryFindsTheReply
<1> SUFFICES ASSUME MessagingInv PROVE RetryFindsTheReply
  OBVIOUS
<1>1. ASSUME NEW x \in Agents, NEW i \in DOMAIN messages, phase[x] # "idle",
             Answers(i, x, awaited[x])
      PROVE  i > since[x]
  <2>1. PICK j \in 1..i - 1 : /\ messages[j].kind = "request"
                             /\ messages[j].cid = messages[i].cid /\ messages[j].from = messages[i].to
    BY <1>1 DEF MessagingInv, CausedInv, Answers
  <2>2. i \in 1..Len(messages) /\ Len(messages) \in Nat /\ DOMAIN messages = 1..Len(messages)
    BY DEF MessagingInv, MessagingTypeOK
  <2>3. j \in DOMAIN messages /\ i \in Nat /\ j \in Nat /\ j < i
    BY <2>2
  <2>4. since[x] \in DOMAIN messages /\ DeliveryId(messages[since[x]]) = <<x, "request", awaited[x]>>
    BY <1>1 DEF MessagingInv, CallInv, AgentInv
  <2>5. DeliveryId(messages[j]) = <<x, "request", awaited[x]>>
    BY <2>1, <1>1 DEF DeliveryId, Answers
  <2>6. j = since[x]
    BY <2>3, <2>4, <2>5 DEF MessagingInv, UniqueInv
  <2> QED BY <2>3, <2>6
<1>2. UniqueInv
  BY DEF MessagingInv
<1> QED BY <1>1, <1>2 DEF RetryFindsTheReply, UniqueInv

(* A request returns only a reply to itself, whoever else uses the table,  *)
(* and may be repeated with the respond that answers it: a retry with the  *)
(* same correlation id finds its reply ahead of where it starts to look;   *)
(* for any number of agents and of messages.                               *)
THEOREM RequestsAreAnswered == MessagingSpec => []RequestsAreSafe
<1>1. MessagingInv => AnswerIsAReply
  BY DEF MessagingInv, CallInv, AgentInv, AnswerIsAReply
<1>2. MessagingInv => RequestsAreSafe
  BY <1>1, ReplyIsAhead DEF RequestsAreSafe
<1> QED BY <1>2, MessagingInitially, MessagingStep, PTL DEF MessagingSpec

-----------------------------------------------------------------------------
(* McpTail: reading an inbox by waiting and paging, for any rows, lanes    *)
(* and page size.                                                          *)

(* The rows, the lane and the call that is parked, if any.                 *)
TailTypeOK ==
  /\ rows \in Seq(Types) /\ gone \in SUBSET (1 .. Len(rows))
  /\ cursor \in 0 .. Len(rows)
  /\ pulled \in Seq(Nat)
  /\ lane \in {"default", "inbox"} \cup Types

(* What lies up to the cursor has been dealt with.                         *)
Covered ==
  \A i \in 1 .. cursor : rows[i] \in Wanted => i \in Range(pulled) \/ i \in gone

(* Unless a page was lost, what was returned came in the order of the      *)
(* table, once, and lies behind the cursor.                                *)
InSeqOrder ==
  ~lost => /\ \A k, l \in DOMAIN pulled : k < l => pulled[k] < pulled[l]
           /\ \A k \in DOMAIN pulled : pulled[k] <= cursor

(* The stream of a parked call starts above its cursor.                    *)
Watching ==
  stage = "parked" =>
    /\ next \in 1 .. Len(rows) + 1
    /\ gone = {} => next > cursor
    /\ cursor \notin gone \cup {0} => \A i \in Above : rows[i] \in Supported => i >= next

(* A call that was woken has a row to return, or it was pruned.            *)
Woken ==
  stage = "woken" /\ gone = {} /\ (lane = "default" \/ lane \in Supported) =>
    \E i \in 1 .. Len(rows) : i > cursor /\ rows[i] \in Wanted

(* What the calls, the stream and the producers keep together.             *)
TailInv == TailTypeOK /\ Covered /\ InSeqOrder /\ Watching /\ Woken

-----------------------------------------------------------------------------
(* A finite set of rows can be listed in the order of its numbers: the     *)
(* least goes before the list of the others.                               *)
LEMMA InOrderExists ==
  ASSUME NEW S \in SUBSET Nat, IsFiniteSet(S)
  PROVE  \E s \in [1 .. Cardinality(S) -> S] : \A k, l \in DOMAIN s : k < l => s[k] < s[l]
<1> DEFINE n == Cardinality(S)
           UpTo(i) == {j \in S : j <= i}
           rank == [i \in S |-> Cardinality(UpTo(i))]
<1>0. n \in Nat
  BY FS_CardinalityType
<1>1. \A i \in S : UpTo(i) \in SUBSET S /\ IsFiniteSet(UpTo(i)) /\ i \in UpTo(i)
  <2>1. ASSUME NEW i \in S PROVE UpTo(i) \in SUBSET S /\ i \in UpTo(i)
    OBVIOUS
  <2> QED BY <2>1, FS_Subset
<1>2. ASSUME NEW i \in S
      PROVE  rank[i] \in 1 .. n
  <2>1. Cardinality(UpTo(i)) \in Nat /\ Cardinality(UpTo(i)) <= n
    BY <1>1, FS_Subset, FS_CardinalityType
  <2>2. Cardinality(UpTo(i)) # 0
    BY <1>1, FS_EmptySet
  <2> QED BY <2>1, <2>2, <1>0
<1>3. ASSUME NEW i \in S, NEW j \in S, i < j
      PROVE  rank[i] < rank[j]
  <2>0. i \in Nat /\ j \in Nat /\ \A k \in S : k \in Nat
    OBVIOUS
  <2>1. UpTo(i) \in SUBSET UpTo(j) /\ j \notin UpTo(i)
    <3>1. ASSUME NEW k \in S, k <= i PROVE k <= j
      BY <2>0, <1>3, <3>1
    <3>2. ~ (j <= i)
      BY <2>0, <1>3
    <3> QED BY <3>1, <3>2
  <2>2. IsFiniteSet(UpTo(j)) /\ j \in UpTo(j)
    BY <1>1
  <2>3. Cardinality(UpTo(i)) <= Cardinality(UpTo(j)) /\ Cardinality(UpTo(i)) # Cardinality(UpTo(j))
    BY <2>1, <2>2, FS_Subset
  <2>4. Cardinality(UpTo(i)) \in Nat /\ Cardinality(UpTo(j)) \in Nat
    BY <1>1, FS_CardinalityType
  <2> QED BY <2>3, <2>4
<1> HIDE DEF rank
<1>4. rank \in Injection(S, 1 .. n)
  <2>1. rank \in [S -> 1 .. n]
    BY <1>2 DEF rank
  <2>2. ASSUME NEW i \in S, NEW j \in S, rank[i] = rank[j] PROVE i = j
    <3>1. rank[i] \in 1 .. n /\ rank[j] \in 1 .. n
      BY <1>2
    <3>2. i < j \/ j < i \/ i = j
      OBVIOUS
    <3> QED BY <2>2, <3>1, <3>2, <1>3, <1>0
  <2> QED BY <2>1, <2>2 DEF Injection, IsInjective
<1>5. IsFiniteSet(1 .. n) /\ Cardinality(1 .. n) = n
  BY <1>0, FS_Interval
<1>6. rank \in Surjection(S, 1 .. n)
  BY <1>4, <1>5, FS_Injection
<1> DEFINE s == [k \in 1 .. n |-> CHOOSE i \in S : rank[i] = k]
<1>7. \A k \in 1 .. n : s[k] \in S /\ rank[s[k]] = k
  <2>1. ASSUME NEW k \in 1 .. n PROVE \E i \in S : rank[i] = k
    BY <1>6 DEF Surjection
  <2> QED BY <2>1
<1> HIDE DEF s
<1>8. s \in [1 .. n -> S]
  BY <1>7 DEF s
<1>9. ASSUME NEW k \in 1 .. n, NEW l \in 1 .. n, k < l
      PROVE  s[k] < s[l]
  <2>1. s[k] \in S /\ s[l] \in S /\ rank[s[k]] = k /\ rank[s[l]] = l
    BY <1>7
  <2>0. s[k] \in Nat /\ s[l] \in Nat
    BY <2>1
  <2>2. s[k] # s[l]
    BY <2>1, <1>9, <1>0
  <2>3. ~ (s[l] < s[k])
    <3>1. SUFFICES ASSUME s[l] < s[k] PROVE FALSE
      OBVIOUS
    <3>2. l < k
      BY <2>1, <3>1, <1>3
    <3> QED BY <3>2, <1>9, <1>0
  <2> QED BY <2>0, <2>2, <2>3
<1> QED BY <1>8, <1>9

(* So InOrder gives a list of just these rows, ascending.                  *)
LEMMA InOrderIs ==
  ASSUME NEW S \in SUBSET Nat, IsFiniteSet(S)
  PROVE  /\ Cardinality(S) \in Nat
         /\ InOrder(S) \in [1 .. Cardinality(S) -> S]
         /\ \A k, l \in 1 .. Cardinality(S) : k < l => InOrder(S)[k] < InOrder(S)[l]
         /\ \A i \in S : \E k \in 1 .. Cardinality(S) : InOrder(S)[k] = i
<1> DEFINE n == Cardinality(S)
           s == InOrder(S)
<1>0. n \in Nat
  BY FS_CardinalityType
<1>1. s \in [1 .. n -> S] /\ \A k, l \in DOMAIN s : k < l => s[k] < s[l]
  BY InOrderExists DEF InOrder
<1> HIDE DEF s
<1>2. \A k, l \in 1 .. n : k < l => s[k] < s[l]
  BY <1>1
<1>3. s \in Injection(1 .. n, S)
  <2>1. ASSUME NEW k \in 1 .. n, NEW l \in 1 .. n, s[k] = s[l] PROVE k = l
    <3>1. s[k] \in Nat /\ s[l] \in Nat
      BY <1>1
    <3>2. k < l \/ l < k \/ k = l
      BY <1>0
    <3> QED BY <3>1, <3>2, <2>1, <1>2
  <2> QED BY <1>1, <2>1 DEF Injection, IsInjective
<1>4. IsFiniteSet(1 .. n) /\ Cardinality(1 .. n) = n
  BY <1>0, FS_Interval
<1>5. s \in Surjection(1 .. n, S)
  BY <1>3, <1>4, FS_Injection
<1>6. \A i \in S : \E k \in 1 .. n : s[k] = i
  BY <1>5 DEF Surjection
<1> QED BY <1>0, <1>1, <1>2, <1>6 DEF s

-----------------------------------------------------------------------------
(* The rows above the cursor that are still there are finitely many.       *)
LEMMA AboveIs ==
  ASSUME TailTypeOK
  PROVE  /\ SinceSeq \in Nat /\ SinceSeq <= cursor
         /\ Above \in SUBSET (1 .. Len(rows))
         /\ IsFiniteSet(Above)
         /\ \A i \in Above : i > SinceSeq
<1>1. rows \in Seq(Types) /\ Len(rows) \in Nat /\ DOMAIN rows = 1 .. Len(rows) /\ cursor \in 0 .. Len(rows)
  BY DEF TailTypeOK
<1>2. SinceSeq \in Nat /\ SinceSeq <= cursor
  BY <1>1 DEF SinceSeq
<1>3. Above \in SUBSET (1 .. Len(rows))
  BY <1>1 DEF Above
<1>4. IsFiniteSet(Above)
  <2>1. IsFiniteSet(1 .. Len(rows))
    BY <1>1, FS_Interval
  <2> QED BY <2>1, <1>3, FS_Subset
<1> QED BY <1>2, <1>3, <1>4 DEF Above

(* A page holds the lowest supported rows above the cursor, in order, and  *)
(* leaves none out below the cursor it moves to.                           *)
LEMMA PageIs ==
  ASSUME TailTypeOK
  PROVE  /\ Page \in Seq(Nat)
         /\ \A k \in 1 .. Len(Page) : Page[k] \in Above /\ Page[k] <= Last(Page)
         /\ \A k, l \in 1 .. Len(Page) : k < l => Page[k] < Page[l]
         /\ Page = <<>> <=> Above = {}
         /\ Page # <<>> => Last(Page) \in Above
         /\ Page # <<>> => \A i \in Above : i <= Last(Page) => \E k \in 1 .. Len(Page) : Page[k] = i
<1> DEFINE n == Cardinality(Above)
           s == InOrder(Above)
           m == Min({Limit, n})
<1>1. Above \in SUBSET Nat /\ IsFiniteSet(Above)
  BY AboveIs
<1>2. /\ n \in Nat /\ s \in [1 .. n -> Above]
      /\ \A k, l \in 1 .. n : k < l => s[k] < s[l]
      /\ \A i \in Above : \E k \in 1 .. n : s[k] = i
  BY <1>1, InOrderIs
<1>3. Limit \in Nat \ {0}
  BY TailAssumption DEF TailAssumption
<1>4. m \in Nat /\ m <= n /\ (m = 0 <=> n = 0)
  <2>1. CASE Limit <= n
    <3>1. m = Limit
      BY <2>1, <1>2, <1>3 DEF Min
    <3> QED BY <3>1, <2>1, <1>2, <1>3
  <2>2. CASE n < Limit
    <3>1. m = n
      BY <2>2, <1>2, <1>3 DEF Min
    <3> QED BY <3>1, <2>2, <1>2, <1>3
  <2> QED BY <2>1, <2>2, <1>2, <1>3
<1>5. Page = SubSeq(s, 1, m)
  BY DEF Page
<1> HIDE DEF n, s, m
<1>6. ASSUME NEW k \in 1 .. m
      PROVE  s[k] \in Above /\ s[k] \in Nat
  <2>1. k \in 1 .. n
    BY <1>2, <1>4
  <2>2. s[k] \in Above
    BY <2>1, <1>2
  <2> QED BY <2>2, <1>1
<1>7. /\ Page \in Seq(Nat)
      /\ Len(Page) = m
      /\ \A k \in 1 .. m : Page[k] = s[k]
  <2>1. /\ SubSeq(s, 1, m) \in Seq(Nat)
        /\ Len(SubSeq(s, 1, m)) = IF 1 <= m THEN m - 1 + 1 ELSE 0
        /\ \A k \in 1 .. m - 1 + 1 : SubSeq(s, 1, m)[k] = s[1 + k - 1]
    BY <1>4, <1>6, SubSeqProperties
  <2> QED BY <2>1, <1>4, <1>5
<1>8. Page = <<>> <=> m = 0
  BY <1>7, EmptySeq
<1>9. m = 0 <=> Above = {}
  BY <1>1, <1>4, FS_EmptySet DEF n
<1>10. Page # <<>> => Last(Page) = s[m] /\ m \in 1 .. m
  BY <1>4, <1>7, <1>8 DEF Last
<1>11. ASSUME NEW k \in 1 .. Len(Page)
       PROVE  Page[k] \in Above /\ Page[k] <= Last(Page)
  <2>1. k \in 1 .. m /\ m # 0 /\ m \in 1 .. n /\ k \in 1 .. n
    BY <1>4, <1>7, <1>2
  <2>2. s[k] <= s[m]
    BY <2>1, <1>2, <1>6, <1>4
  <2> QED BY <2>1, <2>2, <1>6, <1>7, <1>8, <1>10
<1>12. \A k, l \in 1 .. Len(Page) : k < l => Page[k] < Page[l]
  BY <1>2, <1>4, <1>7
<1>13. ASSUME Page # <<>>, NEW i \in Above, i <= Last(Page)
       PROVE  \E k \in 1 .. Len(Page) : Page[k] = i
  <2>1. PICK k \in 1 .. n : s[k] = i
    BY <1>2
  <2>2. m \in 1 .. n
    BY <1>4, <1>8, <1>13, <1>2
  <2>3. ~ (m < k)
    BY <2>1, <2>2, <1>2, <1>10, <1>13, <1>1, <1>6
  <2>4. k \in 1 .. m
    BY <2>1, <2>3, <1>4, <1>2
  <2> QED BY <2>1, <2>4, <1>7
<1>14. Page # <<>> => Last(Page) \in Above
  BY <1>6, <1>10
<1> QED BY <1>7, <1>8, <1>9, <1>11, <1>12, <1>13, <1>14

-----------------------------------------------------------------------------
(* The page behind what was returned before is still in order.             *)
LEMMA WithPage ==
  ASSUME TailTypeOK, NEW q, q = pulled \o Page
  PROVE  /\ q \in Seq(Nat) /\ Len(q) = Len(pulled) + Len(Page)
         /\ \A k \in DOMAIN pulled : k \in DOMAIN q /\ q[k] = pulled[k]
         /\ \A k \in 1 .. Len(Page) : Len(pulled) + k \in DOMAIN q /\ q[Len(pulled) + k] = Page[k]
         /\ \A k \in DOMAIN q :
              \/ k \in DOMAIN pulled
              \/ k > Len(pulled) /\ k - Len(pulled) \in 1 .. Len(Page) /\ q[k] = Page[k - Len(pulled)]
<1>1. pulled \in Seq(Nat) /\ Page \in Seq(Nat)
  BY PageIs DEF TailTypeOK
<1>2. /\ q \in Seq(Nat) /\ Len(q) = Len(pulled) + Len(Page)
      /\ \A i \in 1 .. Len(pulled) + Len(Page) :
           q[i] = IF i <= Len(pulled) THEN pulled[i] ELSE Page[i - Len(pulled)]
  BY <1>1, ConcatProperties
<1>3. Len(pulled) \in Nat /\ Len(Page) \in Nat /\ DOMAIN pulled = 1 .. Len(pulled)
  BY <1>1, LenProperties
<1>4. DOMAIN q = 1 .. Len(pulled) + Len(Page)
  BY <1>2, LenProperties
<1> HIDE DEF Page
<1>5. ASSUME NEW k \in DOMAIN pulled PROVE k \in DOMAIN q /\ q[k] = pulled[k]
  BY <1>2, <1>3, <1>4
<1>6. ASSUME NEW k \in 1 .. Len(Page)
      PROVE  Len(pulled) + k \in DOMAIN q /\ q[Len(pulled) + k] = Page[k]
  <2>1. Len(pulled) + k \in 1 .. Len(pulled) + Len(Page) /\ ~ (Len(pulled) + k <= Len(pulled))
    BY <1>3
  <2>2. (Len(pulled) + k) - Len(pulled) = k
    BY <1>3
  <2> QED BY <1>2, <1>4, <2>1, <2>2
<1>7. ASSUME NEW k \in DOMAIN q
      PROVE  \/ k \in DOMAIN pulled
             \/ k > Len(pulled) /\ k - Len(pulled) \in 1 .. Len(Page) /\ q[k] = Page[k - Len(pulled)]
  BY <1>2, <1>3, <1>4
<1> QED BY <1>2, <1>5, <1>6, <1>7

(* Returning a page moves the cursor past just what it returned and the    *)
(* rows that are of no lane.                                               *)
LEMMA ReturnPageKeeps ==
  ASSUME TailInv, ReturnPage, UNCHANGED <<lane, table, next>>
  PROVE  TailInv'
<1>1. TailTypeOK /\ Covered /\ InSeqOrder
  BY DEF TailInv
<1>2. /\ pulled' = pulled \o Page
      /\ cursor' = IF Page = <<>> THEN cursor ELSE Last(Page)
      /\ lost' = (lost \/ cursor \in gone)
      /\ stage' = "idle"
      /\ lane' = lane /\ rows' = rows /\ gone' = gone
  BY DEF ReturnPage, table
<1>3. Len(rows) \in Nat /\ cursor \in Nat /\ cursor <= Len(rows)
  BY <1>1 DEF TailTypeOK
<1>4. /\ SinceSeq \in Nat /\ SinceSeq <= cursor
      /\ Above \in SUBSET (1 .. Len(rows))
      /\ \A i \in Above : i > SinceSeq
  BY <1>1, AboveIs
<1>5. /\ \A k \in 1 .. Len(Page) : Page[k] \in Above /\ Page[k] <= Last(Page)
      /\ \A k, l \in 1 .. Len(Page) : k < l => Page[k] < Page[l]
      /\ Page # <<>> => Last(Page) \in Above
      /\ Page # <<>> => \A i \in Above : i <= Last(Page) => \E k \in 1 .. Len(Page) : Page[k] = i
      /\ Page = <<>> => Len(Page) = 0
      /\ Page \in Seq(Nat)
  BY <1>1, PageIs, EmptySeq
<1>6. /\ pulled' \in Seq(Nat) /\ Len(pulled') = Len(pulled) + Len(Page)
      /\ \A k \in DOMAIN pulled : k \in DOMAIN pulled' /\ pulled'[k] = pulled[k]
      /\ \A k \in 1 .. Len(Page) : Len(pulled) + k \in DOMAIN pulled' /\ pulled'[Len(pulled) + k] = Page[k]
      /\ \A k \in DOMAIN pulled' :
           \/ k \in DOMAIN pulled
           \/ k > Len(pulled) /\ k - Len(pulled) \in 1 .. Len(Page) /\ pulled'[k] = Page[k - Len(pulled)]
  BY <1>1, <1>2, WithPage
<1>7. pulled \in Seq(Nat) /\ Len(pulled) \in Nat /\ DOMAIN pulled = 1 .. Len(pulled)
  BY <1>1, LenProperties DEF TailTypeOK
<1> HIDE DEF Page, Above
<1>8. cursor' \in 0 .. Len(rows)
  BY <1>2, <1>3, <1>4, <1>5
<1>9. TailTypeOK'
  BY <1>1, <1>2, <1>6, <1>8 DEF TailTypeOK
<1>10. Covered'
  <2>1. ASSUME NEW i \in 1 .. cursor', rows[i] \in Wanted
        PROVE  i \in Range(pulled') \/ i \in gone
    <3>0. i \in Nat /\ i >= 1 /\ i <= cursor' /\ i <= Len(rows)
      BY <1>8, <2>1, <1>3
    <3>1. CASE i <= cursor
      <4>1. i \in Range(pulled) \/ i \in gone
        BY <3>0, <3>1, <1>1, <1>3, <2>1 DEF Covered
      <4>2. ASSUME i \in Range(pulled) PROVE i \in Range(pulled')
        <5>1. PICK k \in DOMAIN pulled : pulled[k] = i
          BY <4>2 DEF Range
        <5>2. k \in DOMAIN pulled' /\ pulled'[k] = i
          BY <5>1, <1>6
        <5> QED BY <5>2 DEF Range
      <4> QED BY <4>1, <4>2
    <3>2. CASE ~ (i <= cursor) /\ i \notin gone
      <4>1. Page # <<>> /\ i <= Last(Page)
        BY <3>0, <3>2, <1>2, <1>3
      <4>2. i \in Above
        <5>1. i \in DOMAIN rows
          BY <3>0, <1>1, LenProperties DEF TailTypeOK
        <5> QED BY <5>1, <3>0, <3>2, <1>3, <1>4, <2>1 DEF Above
      <4>3. PICK k \in 1 .. Len(Page) : Page[k] = i
        BY <4>1, <4>2, <1>5
      <4>4. Len(pulled) + k \in DOMAIN pulled' /\ pulled'[Len(pulled) + k] = i
        BY <4>3, <1>6
      <4> QED BY <4>4 DEF Range
    <3> QED BY <3>1, <3>2
  <2>2. Wanted' = Wanted
    BY <1>2 DEF Wanted
  <2> QED BY <2>1, <2>2, <1>2 DEF Covered
<1>11. InSeqOrder'
  <2>1. SUFFICES ASSUME ~ lost'
                 PROVE  /\ \A k, l \in DOMAIN pulled' : k < l => pulled'[k] < pulled'[l]
                        /\ \A k \in DOMAIN pulled' : pulled'[k] <= cursor'
    BY DEF InSeqOrder
  <2>2. ~ lost /\ SinceSeq = cursor
    BY <2>1, <1>2 DEF SinceSeq
  <2>3. /\ \A k, l \in DOMAIN pulled : k < l => pulled[k] < pulled[l]
        /\ \A k \in DOMAIN pulled : pulled[k] <= cursor /\ pulled[k] \in Nat
    BY <2>2, <1>1, <1>7 DEF InSeqOrder
  <2>4. \A k \in 1 .. Len(Page) : Page[k] \in Nat /\ Page[k] > cursor /\ Page[k] <= Last(Page)
    BY <1>4, <1>5, <2>2
  <2>5. cursor <= cursor' /\ cursor' \in Nat /\ \A k \in 1 .. Len(Page) : Page[k] <= cursor'
    BY <1>2, <1>3, <1>4, <1>5, <2>2, <2>4
  <2>6. ASSUME NEW k \in DOMAIN pulled'
        PROVE  pulled'[k] <= cursor'
    <3>1. CASE k \in DOMAIN pulled
      BY <3>1, <1>6, <2>3, <2>5, <1>3
    <3>2. CASE k - Len(pulled) \in 1 .. Len(Page) /\ pulled'[k] = Page[k - Len(pulled)]
      BY <3>2, <2>5
    <3> QED BY <3>1, <3>2, <1>6
  <2>7. ASSUME NEW k \in DOMAIN pulled', NEW l \in DOMAIN pulled', k < l
        PROVE  pulled'[k] < pulled'[l]
    <3>0. k \in Nat /\ l \in Nat
      BY <1>6, LenProperties
    <3>1. CASE l \in DOMAIN pulled
      <4>1. k \in DOMAIN pulled
        BY <3>1, <1>6, <1>7, <2>7, <3>0
      <4> QED BY <3>1, <4>1, <1>6, <2>3, <2>7
    <3>2. CASE l - Len(pulled) \in 1 .. Len(Page) /\ pulled'[l] = Page[l - Len(pulled)]
      <4>1. CASE k \in DOMAIN pulled
        <5>1. pulled'[k] \in Nat /\ pulled'[k] <= cursor
          BY <4>1, <1>6, <2>3
        <5>2. pulled'[l] \in Nat /\ pulled'[l] > cursor
          BY <3>2, <2>4
        <5> QED BY <5>1, <5>2, <1>3
      <4>2. CASE k - Len(pulled) \in 1 .. Len(Page) /\ pulled'[k] = Page[k - Len(pulled)]
        <5>1. k - Len(pulled) < l - Len(pulled)
          BY <3>0, <1>7, <2>7
        <5> QED BY <5>1, <3>2, <4>2, <1>5
      <4> QED BY <4>1, <4>2, <1>6
    <3> QED BY <3>1, <3>2, <1>6
  <2> QED BY <2>6, <2>7
<1>12. Watching' /\ Woken'
  BY <1>2 DEF Watching, Woken
<1> QED BY <1>9, <1>10, <1>11, <1>12 DEF TailInv

(* What the stream of a parked call lets through is of its lane.           *)
LEMMA FilterIsTheLane ==
  ASSUME TailTypeOK, lane = "default" \/ lane \in Supported, NEW type \in SubscribeTypes
  PROVE  type \in Wanted
<1> USE TailAssumption DEF TailAssumption
<1>1. CASE lane = "default"
  BY <1>1 DEF SubscribeTypes, Wanted
<1>2. CASE lane \in Supported
  <2>1. Wanted = {lane}
    BY <1>2 DEF Wanted
  <2> QED BY <1>2, <2>1 DEF SubscribeTypes
<1> QED BY <1>1, <1>2

(* A supported type of the lane passes the filter of its stream.           *)
LEMMA CoveredTypesPass ==
  ASSUME NEW type \in Supported \cap Wanted
  PROVE  type \in SubscribeTypes
BY DEF SubscribeTypes

(* A call returns its page; one that waits parks when it is empty.         *)
LEMMA CallKeeps ==
  ASSUME TailInv, NEW wait \in BOOLEAN, Call(wait)
  PROVE  TailInv'
<1>1. CASE Page # <<>> \/ ~wait \/ lane = "inbox"
  <2>1. ReturnPage /\ UNCHANGED <<lane, table, next>>
    BY <1>1 DEF Call
  <2> QED BY <2>1, ReturnPageKeeps
<1>2. CASE ~ (Page # <<>> \/ ~wait \/ lane = "inbox")
  <2>1. stage' = "subscribe" /\ UNCHANGED <<cursor, pulled, lost, lane, rows, gone, next>>
    BY <1>2 DEF Call, table
  <2> QED BY <2>1 DEF TailInv, TailTypeOK, Covered, InSeqOrder, Watching, Woken, Wanted
<1> QED BY <1>1, <1>2

(* The stream starts at the end of the table it finds.                     *)
LEMMA OpenSubscriberKeeps ==
  ASSUME TailInv, OpenSubscriber
  PROVE  TailInv'
<1>1. UNCHANGED <<lane, rows, gone, cursor, pulled, lost>> /\ stage' \in {"parked", "idle"}
  BY DEF OpenSubscriber, table
<1>2. TailTypeOK' /\ Covered' /\ InSeqOrder' /\ Woken'
  BY <1>1 DEF TailInv, TailTypeOK, Covered, InSeqOrder, Woken, Wanted
<1>3. Watching'
  <2>1. SUFFICES ASSUME stage' = "parked"
                 PROVE  /\ next' \in 1 .. Len(rows) + 1
                        /\ gone = {} => next' > cursor
                        /\ cursor \notin gone \cup {0} => \A i \in Above : rows[i] \in Supported => i >= next'
    <3>1. Above' = Above
      BY <1>1 DEF Above, SinceSeq, Wanted
    <3> QED BY <1>1, <3>1 DEF Watching
  <2>2. next' = 1 + IF cursor = 0 THEN Len(rows) ELSE SinceSeq
    BY <2>1 DEF OpenSubscriber
  <2>3. TailTypeOK
    BY DEF TailInv
  <2>4. /\ SinceSeq \in Nat /\ SinceSeq <= cursor
        /\ Above \in SUBSET (1 .. Len(rows))
        /\ \A i \in Above : i > SinceSeq
    BY <2>3, AboveIs
  <2>5. Len(rows) \in Nat /\ cursor \in Nat /\ cursor <= Len(rows)
    BY <2>3 DEF TailTypeOK
  <2>6. next' \in 1 .. Len(rows) + 1
    BY <2>2, <2>4, <2>5
  <2>7. gone = {} => next' > cursor
    <3>1. gone = {} => SinceSeq = cursor
      BY DEF SinceSeq
    <3> QED BY <3>1, <2>2, <2>4, <2>5
  <2>8. cursor # 0 => \A i \in Above : i >= next'
    BY <2>2, <2>4, <2>5
  <2> QED BY <2>6, <2>7, <2>8
<1> QED BY <1>2, <1>3 DEF TailInv

(* A frame wakes the call only for a row of the lane.                      *)
LEMMA FrameKeeps ==
  ASSUME TailInv, Frame
  PROVE  TailInv'
<1>1. UNCHANGED <<lane, rows, gone, cursor, pulled, lost>> /\ stage' \in {"parked", "woken"}
  BY DEF Frame, table
<1>2. TailTypeOK' /\ Covered' /\ InSeqOrder'
  BY <1>1 DEF TailInv, TailTypeOK, Covered, InSeqOrder, Wanted
<1>3. TailTypeOK /\ Watching /\ stage = "parked" /\ next <= Len(rows) /\ next' = next + 1
  BY DEF TailInv, Frame
<1>4. Len(rows) \in Nat /\ DOMAIN rows = 1 .. Len(rows) /\ next \in 1 .. Len(rows)
  BY <1>3, LenProperties DEF TailTypeOK, Watching
<1>5. stage' = "woken" <=> next \notin gone /\ rows[next] \in SubscribeTypes
  BY DEF Frame
<1>6. Woken'
  <2>1. SUFFICES ASSUME stage' = "woken", gone = {}, lane = "default" \/ lane \in Supported
                 PROVE  \E i \in 1 .. Len(rows) : i > cursor /\ rows[i] \in Wanted
    BY <1>1 DEF Woken, Wanted
  <2>2. rows[next] \in Wanted
    BY <2>1, <1>3, <1>5, FilterIsTheLane
  <2>3. next > cursor
    BY <2>1, <1>3 DEF Watching
  <2> QED BY <2>2, <2>3, <1>4
<1>7. Watching'
  <2>1. SUFFICES ASSUME stage' = "parked"
                 PROVE  /\ next' \in 1 .. Len(rows) + 1
                        /\ gone = {} => next' > cursor
                        /\ cursor \notin gone \cup {0} => \A i \in Above : rows[i] \in Supported => i >= next'
    <3>1. Above' = Above
      BY <1>1 DEF Above, SinceSeq, Wanted
    <3> QED BY <1>1, <3>1 DEF Watching
  <2>2. next' \in 1 .. Len(rows) + 1
    BY <1>3, <1>4
  <2>3. gone = {} => next' > cursor
    BY <1>3, <1>4 DEF Watching, TailTypeOK
  <2>4. ASSUME cursor \notin gone \cup {0}, NEW i \in Above, rows[i] \in Supported
        PROVE  i >= next'
    <3>1. i >= next /\ i \in 1 .. Len(rows)
      BY <2>4, <1>3, <1>4 DEF Watching, Above
    <3>2. i # next
      <4>1. SUFFICES ASSUME i = next PROVE FALSE
        OBVIOUS
      <4>2. next \notin gone /\ rows[next] \in Supported \cap Wanted
        BY <4>1, <2>4 DEF Above
      <4>3. rows[next] \in SubscribeTypes
        BY <4>2, CoveredTypesPass
      <4>4. stage' = "woken"
        BY <4>2, <4>3, <1>5
      <4> QED BY <4>4, <2>1
    <3> QED BY <3>1, <3>2, <1>3, <1>4
  <2> QED BY <2>2, <2>3, <2>4
<1> QED BY <1>2, <1>6, <1>7 DEF TailInv

(* A new row is above the cursor.                                          *)
LEMMA CommitRowKeeps ==
  ASSUME TailInv, NEW type \in Types, CommitRow(type)
  PROVE  TailInv'
<1>1. rows' = Append(rows, type) /\ UNCHANGED <<lane, gone, stage, cursor, next, pulled, lost>>
  BY DEF CommitRow
<1>2. TailTypeOK
  BY DEF TailInv
<1>3. /\ rows' \in Seq(Types) /\ Len(rows) \in Nat /\ Len(rows') = Len(rows) + 1
      /\ DOMAIN rows' = 1 .. Len(rows) + 1 /\ DOMAIN rows = 1 .. Len(rows)
      /\ \A i \in 1 .. Len(rows) : rows'[i] = rows[i]
  BY <1>1, <1>2, AppendProperties, LenProperties DEF TailTypeOK
<1>4. cursor \in 0 .. Len(rows) /\ gone \in SUBSET (1 .. Len(rows))
  BY <1>2 DEF TailTypeOK
<1>5. TailTypeOK'
  <2>1. gone' \in SUBSET (1 .. Len(rows'))
    BY <1>1, <1>3, <1>4
  <2>2. cursor' \in 0 .. Len(rows')
    BY <1>1, <1>3, <1>4
  <2> QED BY <1>1, <1>2, <1>3, <2>1, <2>2 DEF TailTypeOK
<1>6. Wanted' = Wanted
  BY <1>1 DEF Wanted
<1>7. Covered'
  <2>1. ASSUME NEW i \in 1 .. cursor PROVE rows'[i] = rows[i]
    BY <1>3, <1>4
  <2> QED BY <2>1, <1>1, <1>6 DEF TailInv, Covered
<1>8. InSeqOrder'
  BY <1>1 DEF TailInv, InSeqOrder
<1>9. Watching'
  <2>1. SUFFICES ASSUME stage = "parked"
                 PROVE  /\ next \in 1 .. Len(rows) + 2
                        /\ gone = {} => next > cursor
                        /\ cursor \notin gone \cup {0} => \A i \in Above' : rows'[i] \in Supported => i >= next
    <3>1. Len(rows') + 1 = Len(rows) + 2
      BY <1>3
    <3> QED BY <1>1, <3>1 DEF Watching
  <2>2. next \in 1 .. Len(rows) + 1 /\ (gone = {} => next > cursor)
    BY <2>1 DEF TailInv, Watching
  <2>3. ASSUME cursor \notin gone \cup {0}, NEW i \in Above', rows'[i] \in Supported
        PROVE  i >= next
    <3>1. i \in 1 .. Len(rows) + 1 /\ i \notin gone /\ rows'[i] \in Wanted /\ i > SinceSeq
      BY <1>1, <1>3, <1>6 DEF Above, SinceSeq
    <3>2. CASE i \in 1 .. Len(rows)
      <4>1. i \in Above /\ rows[i] \in Supported
        BY <3>1, <3>2, <1>3, <2>3 DEF Above
      <4> QED BY <4>1, <2>1, <2>3 DEF TailInv, Watching
    <3>3. CASE i = Len(rows) + 1
      BY <3>3, <2>2, <1>3
    <3> QED BY <3>1, <3>2, <3>3, <1>3
  <2> QED BY <2>2, <2>3, <1>3
<1>10. Woken'
  <2>1. SUFFICES ASSUME stage = "woken", gone = {}, lane = "default" \/ lane \in Supported
                 PROVE  \E i \in 1 .. Len(rows') : i > cursor /\ rows'[i] \in Wanted
    BY <1>1, <1>6 DEF Woken
  <2>2. PICK i \in 1 .. Len(rows) : i > cursor /\ rows[i] \in Wanted
    BY <2>1 DEF TailInv, Woken
  <2>3. i \in 1 .. Len(rows') /\ rows'[i] = rows[i]
    BY <1>3
  <2> QED BY <2>2, <2>3
<1> QED BY <1>5, <1>7, <1>8, <1>9, <1>10 DEF TailInv

(* A pruned row is taken from what is owed.                                *)
LEMMA PruneKeeps ==
  ASSUME TailInv, NEW i \in DOMAIN rows, Prune(i)
  PROVE  TailInv'
<1>1. gone' = gone \cup {i} /\ UNCHANGED <<lane, rows, stage, cursor, next, pulled, lost>>
  BY DEF Prune
<1>2. gone' # {}
  BY <1>1
<1>3. TailTypeOK'
  <2>1. i \in 1 .. Len(rows)
    BY LenProperties DEF TailInv, TailTypeOK
  <2> QED BY <1>1, <2>1 DEF TailInv, TailTypeOK
<1>4. Covered' /\ InSeqOrder' /\ Woken'
  BY <1>1, <1>2 DEF TailInv, Covered, InSeqOrder, Woken, Wanted
<1>5. Watching'
  <2>1. ASSUME cursor \notin gone', NEW k \in Above' PROVE k \in Above
    BY <2>1, <1>1 DEF Above, SinceSeq, Wanted
  <2> QED BY <1>1, <1>2, <2>1 DEF TailInv, Watching
<1> QED BY <1>3, <1>4, <1>5 DEF TailInv

(* The invariant of the MCP inbox, for any number of rows, any page size   *)
(* and any types of rows.                                                  *)
THEOREM TailInvariant == TailSpec => []TailInv
<1>1. TailInit => TailInv
  <2> SUFFICES ASSUME TailInit PROVE TailInv
    OBVIOUS
  <2>1. rows = <<>> /\ gone = {} /\ cursor = 0 /\ pulled = <<>> /\ stage = "idle"
        /\ lane \in {"default", "inbox"} \cup Types /\ ~ lost
    BY DEF TailInit
  <2>2. TailTypeOK
    BY <2>1 DEF TailTypeOK
  <2>3. Covered /\ Watching /\ Woken
    BY <2>1 DEF Covered, Watching, Woken
  <2>4. InSeqOrder
    BY <2>1 DEF InSeqOrder
  <2> QED BY <2>2, <2>3, <2>4 DEF TailInv
<1>2. TailInv /\ [TailNext]_tailVars => TailInv'
  <2> SUFFICES ASSUME TailInv, [TailNext]_tailVars PROVE TailInv'
    OBVIOUS
  <2>1. CASE \E wait \in BOOLEAN : Call(wait)
    BY <2>1, CallKeeps
  <2>2. CASE OpenSubscriber
    BY <2>2, OpenSubscriberKeeps
  <2>3. CASE Frame
    BY <2>3, FrameKeeps
  <2>4. CASE Expire \/ Rejected
    <3>1. stage' \in {"expired", "idle"} /\ UNCHANGED <<lane, rows, gone, cursor, next, pulled, lost>>
      BY <2>4 DEF Expire, Rejected, table
    <3> QED BY <3>1 DEF TailInv, TailTypeOK, Covered, InSeqOrder, Watching, Woken, Wanted
  <2>5. CASE Reread
    <3>1. ReturnPage /\ UNCHANGED <<lane, table, next>>
      BY <2>5 DEF Reread
    <3> QED BY <3>1, ReturnPageKeeps
  <2>6. CASE \E type \in Types : CommitRow(type)
    BY <2>6, CommitRowKeeps
  <2>7. CASE \E i \in DOMAIN rows : Prune(i)
    BY <2>7, PruneKeeps
  <2>8. CASE UNCHANGED tailVars
    <3>1. UNCHANGED <<lane, rows, gone, stage, cursor, next, pulled, lost>>
      BY <2>8 DEF tailVars, table
    <3> QED BY <3>1 DEF TailInv, TailTypeOK, Covered, InSeqOrder, Watching, Woken, Wanted, Above, SinceSeq
  <2> QED BY <2>1, <2>2, <2>3, <2>4, <2>5, <2>6, <2>7, <2>8 DEF TailNext
<1> QED BY <1>1, <1>2, PTL DEF TailSpec

(* waitbus_wait and the pages after it, for any rows, page size and        *)
(* pruning: each row of the lane is returned once, in order and none is    *)
(* skipped; a parked call is woken only when there is something to return. *)
THEOREM InboxIsRead == TailSpec => []InboxIsExact
<1>1. TailInv => InboxIsExact
  <2> SUFFICES ASSUME TailInv PROVE InboxIsExact
    OBVIOUS
  <2>1. PagedExactly
    BY DEF TailInv, Covered, InSeqOrder, PagedExactly
  <2>2. WakesForWhatItReturns
    <3>1. SUFFICES ASSUME lane = "default" \/ lane \in Supported, stage = "woken", gone = {}
                   PROVE  Page # <<>>
      BY DEF TailInv, Watching, WakesForWhatItReturns
    <3>2. PICK i \in 1 .. Len(rows) : i > cursor /\ rows[i] \in Wanted
      BY <3>1 DEF TailInv, Woken
    <3>3. i \in Above
      <4>1. i \in DOMAIN rows
        BY LenProperties DEF TailInv, TailTypeOK
      <4> QED BY <3>1, <3>2, <4>1 DEF Above, SinceSeq
    <3> QED BY <3>3, PageIs DEF TailInv
  <2> QED BY <2>1, <2>2 DEF InboxIsExact
<1> QED BY <1>1, TailInvariant, PTL

-----------------------------------------------------------------------------
(* McpPush: notifications to an MCP client, for any queue limit and any    *)
(* resources.                                                              *)

(* A notification: of a frame, to the channel or a resource.              *)
Notes == [frame : Nat, to : Uris \cup {"channel"}]

(* The handshake, the queue and what was sent.                             *)
PushTypeOK ==
  /\ events \in Seq(Kinds) /\ upcoming \in Nat \ {0}
  /\ frames \in Seq(Kinds \cup {"rejected"})
  /\ subs \in SUBSET Uris
  /\ todo \in Seq(Notes) /\ sent \in Seq(Notes) /\ pending \in Seq(Notes)
  /\ Len(pending) <= QueueMax

(* What is in hand is due, once, and its pings are not due before they are *)
(* matched.                                                                *)
InHand ==
  /\ owed \in SUBSET Notes /\ \A n \in owed : 1 <= n.frame /\ n.frame <= Len(frames)
  /\ Range(todo) \subseteq owed /\ IsInjective(todo)
  /\ \A n \in Range(todo) : n.to = "channel" =>
       Range(todo) = {n} /\ \A x \in owed : x.frame = n.frame => x = n

(* Sent or queued is what has left the hand, and it is there once.         *)
Once ==
  /\ IsInjective(sent) /\ IsInjective(pending) /\ Range(sent) \cap Range(pending) = {}
  /\ Range(pending) \subseteq Settled /\ Range(sent) \subseteq Settled \cup {Marker}
  /\ ~ready \/ flushing => Marker \notin Range(sent)

(* What has left neither way was dropped or was not for this client.       *)
Told ==
  /\ \A n \in Absent :
       \/ n.to = "channel" /\ ~negotiated /\ ready
       \/ overflowed \/ Marker \in Range(sent)
  /\ overflowed \/ Marker \in Range(sent) => Absent # {}
  /\ negotiated /\ ready /\ ~flushing => ~overflowed
  /\ ~negotiated => Marker \notin Range(sent)
  /\ flushing => ready

(* What the stream, the handshake and the flush keep together.             *)
PushInv == PushTypeOK /\ InHand /\ Once /\ Told

-----------------------------------------------------------------------------
(* The elements of a sequence.                                             *)
LEMMA RangeIs ==
  ASSUME NEW S, NEW s \in Seq(S)
  PROVE  Range(s) \in SUBSET S /\ (s = <<>> <=> Range(s) = {})
<1>1. Len(s) \in Nat /\ \A i \in DOMAIN s : s[i] \in S
  BY LenProperties
<1>2. DOMAIN s = 1 .. Len(s)
  BY LenProperties
<1>3. CASE s = <<>>
  <2>1. DOMAIN s = {}
    BY <1>2, <1>3, EmptySeq
  <2> QED BY <1>3, <2>1 DEF Range
<1>4. CASE s # <<>>
  <2>1. 1 \in DOMAIN s
    BY <1>1, <1>2, <1>4, EmptySeq
  <2>2. s[1] \in Range(s) /\ Range(s) \in SUBSET S
    BY <2>1, <1>1 DEF Range
  <2> QED BY <1>4, <2>2
<1> QED BY <1>3, <1>4

(* Appended at the end, a new one is there once.                           *)
LEMMA AppendOnce ==
  ASSUME NEW S, NEW s \in Seq(S), NEW x \in S
  PROVE  /\ Append(s, x) \in Seq(S)
         /\ Range(Append(s, x)) = Range(s) \cup {x}
         /\ IsInjective(s) /\ x \notin Range(s) => IsInjective(Append(s, x))
<1> DEFINE t == Append(s, x)
<1>1. Len(s) \in Nat /\ DOMAIN s = 1 .. Len(s)
  BY LenProperties
<1>2. /\ t \in Seq(S) /\ Len(t) = Len(s) + 1 /\ DOMAIN t = 1 .. Len(s) + 1
      /\ \A i \in 1 .. Len(s) : t[i] = s[i]
      /\ t[Len(s) + 1] = x
  BY AppendProperties, LenProperties
<1> HIDE DEF t
<1>3. Range(t) = Range(s) \cup {x}
  <2>1. \A i \in 1 .. Len(s) + 1 : i \in 1 .. Len(s) \/ i = Len(s) + 1
    BY <1>1
  <2>2. Len(s) + 1 \in 1 .. Len(s) + 1 /\ \A i \in 1 .. Len(s) : i \in 1 .. Len(s) + 1
    BY <1>1
  <2> QED BY <1>1, <1>2, <2>1, <2>2 DEF Range
<1>4. ASSUME IsInjective(s), x \notin Range(s) PROVE IsInjective(t)
  <2>1. SUFFICES ASSUME NEW i \in 1 .. Len(s) + 1, NEW j \in 1 .. Len(s) + 1, t[i] = t[j]
                 PROVE  i = j
    BY <1>2 DEF IsInjective
  <2>2. \A k \in 1 .. Len(s) : t[k] = s[k] /\ t[k] # x
    BY <1>1, <1>2, <1>4 DEF Range
  <2>3. CASE i \in 1 .. Len(s) /\ j \in 1 .. Len(s)
    BY <2>1, <2>2, <2>3, <1>1, <1>4 DEF IsInjective
  <2>4. CASE i = Len(s) + 1 \/ j = Len(s) + 1
    BY <2>1, <2>2, <2>4, <1>1, <1>2
  <2> QED BY <2>3, <2>4, <1>1
<1> QED BY <1>2, <1>3, <1>4 DEF t

(* Without the head, the others are there as before.                       *)
LEMMA TailOnce ==
  ASSUME NEW S, NEW s \in Seq(S), s # <<>>
  PROVE  /\ Tail(s) \in Seq(S) /\ Len(Tail(s)) = Len(s) - 1
         /\ Head(s) \in S
         /\ Range(s) = {Head(s)} \cup Range(Tail(s))
         /\ IsInjective(s) => IsInjective(Tail(s)) /\ Head(s) \notin Range(Tail(s))
<1> DEFINE t == Tail(s)
<1>1. Len(s) \in Nat \ {0} /\ DOMAIN s = 1 .. Len(s)
  BY LenProperties, EmptySeq
<1>2. Head(s) \in S /\ t \in Seq(S) /\ Len(t) = Len(s) - 1 /\ \A i \in 1 .. Len(t) : t[i] = s[i+1]
  BY HeadTailProperties
<1>3. Head(s) = s[1]
  BY <1>1
<1>4. DOMAIN t = 1 .. Len(s) - 1
  BY <1>2, LenProperties
<1> HIDE DEF t
<1>5. Range(s) = {Head(s)} \cup Range(t)
  <2>1. ASSUME NEW i \in 1 .. Len(s) PROVE s[i] \in {Head(s)} \cup Range(t)
    <3>1. CASE i = 1
      BY <3>1, <1>3
    <3>2. CASE i # 1
      <4>1. i - 1 \in 1 .. Len(s) - 1 /\ (i - 1) + 1 = i
        BY <3>2, <1>1
      <4>2. t[i - 1] = s[i]
        BY <4>1, <1>2
      <4> QED BY <4>1, <4>2, <1>4 DEF Range
    <3> QED BY <3>1, <3>2
  <2>2. ASSUME NEW i \in 1 .. Len(s) - 1 PROVE t[i] \in Range(s)
    <3>1. i + 1 \in 1 .. Len(s)
      BY <1>1
    <3> QED BY <3>1, <1>1, <1>2 DEF Range
  <2>3. Head(s) \in Range(s)
    <3>1. 1 \in 1 .. Len(s)
      BY <1>1
    <3> QED BY <3>1, <1>1, <1>3 DEF Range
  <2>4. Range(s) \subseteq {Head(s)} \cup Range(t)
    BY <2>1, <1>1 DEF Range
  <2>5. Range(t) \subseteq Range(s)
    BY <2>2, <1>4 DEF Range
  <2> QED BY <2>3, <2>4, <2>5
<1>6. ASSUME IsInjective(s) PROVE IsInjective(t) /\ Head(s) \notin Range(t)
  <2>1. \A i, j \in 1 .. Len(s) : s[i] = s[j] => i = j
    BY <1>1, <1>6 DEF IsInjective
  <2>2. ASSUME NEW i \in 1 .. Len(s) - 1, NEW j \in 1 .. Len(s) - 1, t[i] = t[j] PROVE i = j
    <3>1. i + 1 \in 1 .. Len(s) /\ j + 1 \in 1 .. Len(s) /\ s[i + 1] = s[j + 1]
      BY <2>2, <1>1, <1>2
    <3> QED BY <3>1, <2>1, <1>1
  <2>3. ASSUME NEW i \in 1 .. Len(s) - 1 PROVE t[i] # Head(s)
    <3>1. i + 1 \in 1 .. Len(s) /\ 1 \in 1 .. Len(s) /\ i + 1 # 1 /\ t[i] = s[i + 1]
      BY <1>1, <1>2
    <3> QED BY <3>1, <2>1, <1>3
  <2> QED BY <2>2, <2>3, <1>4 DEF IsInjective, Range
<1> QED BY <1>2, <1>5, <1>6 DEF t

(* One sequence behind another that shares nothing with it.                *)
LEMMA JoinOnce ==
  ASSUME NEW S, NEW s \in Seq(S), NEW t \in Seq(S),
         IsInjective(s), IsInjective(t), Range(s) \cap Range(t) = {}
  PROVE  IsInjective(s \o t)
<1>1. Len(s) \in Nat /\ DOMAIN s = 1 .. Len(s) /\ Len(t) \in Nat /\ DOMAIN t = 1 .. Len(t)
  BY LenProperties
<1>2. /\ s \o t \in Seq(S) /\ Len(s \o t) = Len(s) + Len(t)
      /\ \A i \in 1 .. Len(s) + Len(t) : (s \o t)[i] = IF i <= Len(s) THEN s[i] ELSE t[i - Len(s)]
  BY ConcatProperties
<1>3. DOMAIN (s \o t) = 1 .. Len(s) + Len(t)
  BY <1>2, LenProperties
<1>4. \A i \in 1 .. Len(s), j \in 1 .. Len(t) : s[i] # t[j]
  BY <1>1 DEF Range
<1>5. ASSUME NEW i \in 1 .. Len(s) + Len(t), NEW j \in 1 .. Len(s) + Len(t), (s \o t)[i] = (s \o t)[j]
      PROVE  i = j
  <2>1. CASE i <= Len(s) /\ j <= Len(s)
    <3>1. i \in 1 .. Len(s) /\ j \in 1 .. Len(s) /\ s[i] = s[j]
      BY <2>1, <1>1, <1>2, <1>5
    <3> QED BY <3>1, <1>1 DEF IsInjective
  <2>2. CASE ~ (i <= Len(s)) /\ ~ (j <= Len(s))
    <3>1. i - Len(s) \in 1 .. Len(t) /\ j - Len(s) \in 1 .. Len(t) /\ t[i - Len(s)] = t[j - Len(s)]
      BY <2>2, <1>1, <1>2, <1>5
    <3>2. i - Len(s) = j - Len(s)
      BY <3>1, <1>1 DEF IsInjective
    <3> QED BY <3>2, <1>1
  <2>3. CASE i <= Len(s) /\ ~ (j <= Len(s))
    <3>1. i \in 1 .. Len(s) /\ j - Len(s) \in 1 .. Len(t) /\ s[i] = t[j - Len(s)]
      BY <2>3, <1>1, <1>2, <1>5
    <3> QED BY <3>1, <1>4
  <2>4. CASE ~ (i <= Len(s)) /\ j <= Len(s)
    <3>1. j \in 1 .. Len(s) /\ i - Len(s) \in 1 .. Len(t) /\ s[j] = t[i - Len(s)]
      BY <2>4, <1>1, <1>2, <1>5
    <3> QED BY <3>1, <1>4
  <2> QED BY <2>1, <2>2, <2>3, <2>4
<1> QED BY <1>3, <1>5 DEF IsInjective

(* A finite set as a sequence has each of its members once.                *)
LEMMA SetToSeqOnce ==
  ASSUME NEW S, IsFiniteSet(S)
  PROVE  SetToSeq(S) \in Seq(S) /\ IsInjective(SetToSeq(S)) /\ Range(SetToSeq(S)) = S
<1> DEFINE n == Cardinality(S)
           s == SetToSeq(S)
<1>1. n \in Nat /\ ExistsBijection(1 .. n, S)
  BY FS_CardinalityType
<1>2. \E f \in [1 .. n -> S] : IsInjective(f)
  BY <1>1 DEF ExistsBijection, Bijection, Injection
<1>3. s \in [1 .. n -> S] /\ IsInjective(s)
  BY <1>2 DEF SetToSeq
<1> HIDE DEF s
<1>4. s \in Injection(1 .. n, S)
  BY <1>3 DEF Injection
<1>5. IsFiniteSet(1 .. n) /\ Cardinality(1 .. n) = n
  BY <1>1, FS_Interval
<1>6. s \in Surjection(1 .. n, S)
  BY <1>4, <1>5, FS_Injection
<1>7. Range(s) = S
  BY <1>3, <1>6 DEF Surjection, Range
<1>8. s \in Seq(S)
  BY <1>1, <1>3 DEF Seq
<1> QED BY <1>3, <1>7, <1>8 DEF s

-----------------------------------------------------------------------------
(* What the bounded queue holds after an enqueue: the new one and all the  *)
(* others, but the oldest when it was full, and then the overflow is set.  *)
LEMMA EnqueueIs ==
  ASSUME NEW n \in Notes, PushTypeOK, Enqueue(n), IsInjective(pending), n \notin Range(pending)
  PROVE  /\ pending' \in Seq(Notes) /\ Len(pending') <= QueueMax /\ IsInjective(pending')
         /\ \/ Range(pending') = Range(pending) \cup {n} /\ (overflowed' <=> overflowed)
            \/ /\ overflowed'
               /\ \E d \in Range(pending) \cup {n} :
                    d \notin Range(pending') /\ Range(pending) \cup {n} = Range(pending') \cup {d}
<1> DEFINE s == Append(pending, n)
           l == Len(pending)
           m == Max({0, l + 1 - QueueMax})
<1>1. /\ pending \in Seq(Notes) /\ l \in Nat /\ l <= QueueMax /\ QueueMax \in Nat \ {0}
      /\ pending' = SubSeq(s, 1 + m, l + 1)
      /\ overflowed' = (overflowed \/ l >= QueueMax)
  BY PushAssumption, LenProperties DEF PushTypeOK, Enqueue, PushAssumption
<1>2. s \in Seq(Notes) /\ Range(s) = Range(pending) \cup {n} /\ IsInjective(s)
  BY <1>1, AppendOnce
<1>3. Len(s) = l + 1 /\ \A i \in 1 .. l + 1 : s[i] \in Notes
  BY <1>1, <1>2, AppendProperties, LenProperties
<1> HIDE DEF s, l
<1>6. ASSUME l < QueueMax PROVE m = 0
  BY <1>1, <1>6 DEF Max
<1>7. ASSUME l = QueueMax PROVE m = 1
  BY <1>1, <1>7 DEF Max
<1> HIDE DEF m
<1>4. CASE l < QueueMax
  <2>1. 1 + m = 1
    BY <1>4, <1>6
  <2>2. /\ SubSeq(s, 1, l + 1) \in Seq(Notes)
        /\ Len(SubSeq(s, 1, l + 1)) = IF 1 <= l + 1 THEN l + 1 - 1 + 1 ELSE 0
        /\ \A i \in 1 .. l + 1 - 1 + 1 : SubSeq(s, 1, l + 1)[i] = s[1 + i - 1]
    BY <1>1, <1>3, SubSeqProperties
  <2>3. SubSeq(s, 1, l + 1) = s
    BY <2>2, <1>1, <1>2, <1>3, SeqEqual
  <2>4. pending' = s
    BY <1>1, <2>1, <2>3
  <2>5. ~ (l >= QueueMax)
    BY <1>1, <1>4
  <2>6. overflowed' <=> overflowed
    BY <1>1, <2>5
  <2> QED BY <2>4, <2>6, <1>1, <1>2, <1>3, <1>4
<1>5. CASE l = QueueMax
  <2>1. 1 + m = 2
    BY <1>5, <1>7
  <2>0. s # <<>>
    BY <1>1, <1>3, EmptySeq
  <2>2. /\ SubSeq(s, 2, l + 1) \in Seq(Notes)
        /\ Len(SubSeq(s, 2, l + 1)) = IF 2 <= l + 1 THEN l + 1 - 2 + 1 ELSE 0
        /\ \A i \in 1 .. l + 1 - 2 + 1 : SubSeq(s, 2, l + 1)[i] = s[2 + i - 1]
    <3>1. \A i \in 2 .. l + 1 : s[i] \in Notes
      BY <1>3
    <3> QED BY <1>1, <3>1, SubSeqProperties
  <2>3. SubSeq(s, 2, l + 1) = Tail(s)
    <3>1. /\ Tail(s) \in Seq(Notes) /\ Len(Tail(s)) = Len(s) - 1
          /\ \A i \in 1 .. Len(Tail(s)) : Tail(s)[i] = s[i+1]
      BY <2>0, <1>2, HeadTailProperties
    <3>2. Len(SubSeq(s, 2, l + 1)) = l /\ Len(Tail(s)) = l
      BY <2>2, <3>1, <1>1, <1>3, <1>5, PushAssumption DEF PushAssumption
    <3>3. \A i \in 1 .. l : SubSeq(s, 2, l + 1)[i] = Tail(s)[i]
      <4>1. ASSUME NEW i \in 1 .. l PROVE SubSeq(s, 2, l + 1)[i] = Tail(s)[i]
        <5>1. i \in 1 .. l + 1 - 2 + 1 /\ i \in 1 .. Len(Tail(s)) /\ 2 + i - 1 = i + 1
          BY <1>1, <3>2
        <5> QED BY <5>1, <2>2, <3>1
      <4> QED BY <4>1
    <3> QED BY <2>2, <3>1, <3>2, <3>3, SeqEqual
  <2>4. pending' = Tail(s)
    BY <1>1, <2>1, <2>3
  <2>5. /\ Tail(s) \in Seq(Notes) /\ Len(Tail(s)) = Len(s) - 1
        /\ Range(s) = {Head(s)} \cup Range(Tail(s))
        /\ IsInjective(Tail(s)) /\ Head(s) \notin Range(Tail(s))
    BY <2>0, <1>2, TailOnce
  <2>6. overflowed'
    BY <1>1, <1>5
  <2>7. Len(pending') <= QueueMax
    BY <2>4, <2>5, <1>1, <1>3, <1>5
  <2> QED BY <2>4, <2>5, <2>6, <2>7, <1>2
<1> QED BY <1>1, <1>4, <1>5

(* A notification that was in hand is sent or queued now, once, or         *)
(* dropped, and that is told.                                              *)
LEMMA NotifyMoves ==
  ASSUME PushInv, NEW n, todo # <<>>, n = Head(todo), Notify(n),
         UNCHANGED <<ready, flushing, negotiated>>, Settled' = Settled \cup {n}
  PROVE  /\ sent' \in Seq(Notes) /\ pending' \in Seq(Notes) /\ Len(pending') <= QueueMax
         /\ Once' /\ Told'
<1>1. PushTypeOK /\ InHand /\ Once /\ Told
  BY DEF PushInv
<1>2. n \in Notes /\ n \in Range(todo) /\ n \in owed /\ n \notin Settled /\ n # Marker
  <2>1. n \in Notes /\ n \in Range(todo)
    BY <1>1, TailOnce DEF PushTypeOK
  <2>2. n \in owed /\ n \notin Settled
    BY <2>1, <1>1 DEF InHand, Settled
  <2>3. 1 <= n.frame
    BY <2>2, <1>1 DEF InHand
  <2>4. Marker.frame = 0
    BY DEF Marker, Note
  <2> QED BY <2>1, <2>2, <2>3, <2>4
<1>3. /\ IsInjective(sent) /\ IsInjective(pending) /\ Range(sent) \cap Range(pending) = {}
      /\ Range(pending) \subseteq Settled /\ Range(sent) \subseteq Settled \cup {Marker}
      /\ sent \in Seq(Notes) /\ pending \in Seq(Notes) /\ Len(pending) <= QueueMax
  BY <1>1 DEF Once, PushTypeOK
<1>4. n \notin Range(sent) /\ n \notin Range(pending)
  BY <1>2, <1>3
<1>5. /\ Absent = {x \in Settled : x \notin Range(sent) \cup Range(pending)}
      /\ Absent' = {x \in Settled \cup {n} : x \notin Range(sent') \cup Range(pending')}
  BY DEF Absent
<1>6. CASE ~ ready
  <2>1. Enqueue(n) /\ sent' = sent
    BY <1>6 DEF Notify
  <2>2. /\ pending' \in Seq(Notes) /\ Len(pending') <= QueueMax /\ IsInjective(pending')
        /\ \/ Range(pending') = Range(pending) \cup {n} /\ (overflowed' <=> overflowed)
           \/ /\ overflowed'
              /\ \E d \in Range(pending) \cup {n} :
                   d \notin Range(pending') /\ Range(pending) \cup {n} = Range(pending') \cup {d}
    BY <2>1, <1>1, <1>2, <1>3, <1>4, EnqueueIs
  <2>3. Range(pending') \subseteq Range(pending) \cup {n}
    BY <2>2
  <2>4. Once'
    <3>1. Range(pending') \subseteq Settled' /\ Range(sent') \subseteq Settled' \cup {Marker}
      BY <2>1, <2>3, <1>3
    <3>2. Range(sent') \cap Range(pending') = {}
      BY <2>1, <2>3, <1>3, <1>4
    <3>3. Marker \notin Range(sent')
      BY <2>1, <1>1, <1>6 DEF Once
    <3> QED BY <2>1, <2>2, <3>1, <3>2, <3>3, <1>3 DEF Once
  <2>5. Told'
    <3>0. ~ ready' /\ Marker \notin Range(sent) /\ ~ flushing'
      BY <1>1, <1>6 DEF Once, Told
    <3>1. CASE Range(pending') = Range(pending) \cup {n} /\ (overflowed' <=> overflowed)
      <4>1. Absent' = Absent
        <5>1. Range(sent') = Range(sent)
          BY <2>1
        <5>2. \A x : x \in Absent' <=> x \in Settled \cup {n} /\ x \notin Range(sent) \cup Range(pending) \cup {n}
          BY <3>1, <5>1, <1>5
        <5>3. \A x : x \in Absent' <=> x \in Absent
          BY <5>2, <1>2, <1>5
        <5> QED BY <5>3
      <4> QED BY <3>0, <3>1, <4>1, <2>1, <1>1, <1>6 DEF Told
    <3>2. CASE overflowed' /\ \E d \in Range(pending) \cup {n} :
                   d \notin Range(pending') /\ Range(pending) \cup {n} = Range(pending') \cup {d}
      <4>1. PICK d \in Range(pending) \cup {n} : d \notin Range(pending')
        BY <3>2
      <4>2. d \in Absent'
        BY <4>1, <2>1, <1>3, <1>4, <1>5
      <4> QED BY <2>1, <3>0, <3>2, <4>2 DEF Told
    <3> QED BY <2>2, <3>1, <3>2
  <2> QED BY <2>1, <2>2, <2>4, <2>5, <1>3
<1>7. CASE ready /\ n.to = "channel" /\ ~negotiated
  <2>1. sent' = sent /\ pending' = pending /\ overflowed' = overflowed
    BY <1>7 DEF Notify
  <2>2. Absent' = Absent \cup {n}
    BY <2>1, <1>4, <1>5
  <2>3. Once'
    BY <2>1, <1>1, <1>3 DEF Once
  <2>4. Told'
    BY <2>1, <2>2, <1>1, <1>7 DEF Told
  <2> QED BY <2>1, <2>3, <2>4, <1>3
<1>8. CASE ready /\ ~ (n.to = "channel" /\ ~negotiated)
  <2>1. sent' = Append(sent, n) /\ pending' = pending /\ overflowed' = overflowed
    BY <1>8 DEF Notify
  <2>2. sent' \in Seq(Notes) /\ Range(sent') = Range(sent) \cup {n} /\ IsInjective(sent')
    BY <2>1, <1>2, <1>3, <1>4, AppendOnce
  <2>3. Absent' = Absent
    <3>1. \A x : x \in Absent => x # n
      BY <1>2, <1>5
    <3>2. \A x : x \in Absent' <=> x \in Settled \cup {n} /\ x \notin Range(sent) \cup {n} \cup Range(pending)
      BY <2>1, <2>2, <1>5
    <3>3. \A x : x \in Absent <=> x \in Settled /\ x \notin Range(sent) \cup Range(pending)
      BY <1>5
    <3>4. \A x : x \in Absent' <=> x \in Absent
      BY <3>1, <3>2, <3>3, <1>2
    <3> QED BY <3>4, Zenon
  <2>4. Marker \in Range(sent') <=> Marker \in Range(sent)
    BY <2>2, <1>2
  <2>5. Once'
    BY <2>1, <2>2, <2>4, <1>1, <1>3, <1>4 DEF Once
  <2>6. Told'
    BY <2>1, <2>3, <2>4, <1>1 DEF Told
  <2> QED BY <2>1, <2>2, <2>5, <2>6, <1>3
<1> QED BY <1>6, <1>7, <1>8

(* The resources a frame pings are owed for that frame.                    *)
LEMMA PingsAreDue ==
  ASSUME PushTypeOK, NEW i \in Nat
  PROVE  /\ IsFiniteSet({Note(i, u) : u \in Matching(i)})
         /\ {Note(i, u) : u \in Matching(i)} \in SUBSET Notes
         /\ \A x \in {Note(i, u) : u \in Matching(i)} : x.frame = i /\ x.to # "channel"
<1> DEFINE P == {Note(i, u) : u \in Matching(i)}
           a == Note(i, "current")
           b == Note(i, "repo")
           c == Note(i, "agent")
<1>1. Matching(i) \in SUBSET Uris
  BY DEF Matching, PushTypeOK
<1>2. IsFiniteSet({}) /\ IsFiniteSet({} \cup {a}) /\ IsFiniteSet({} \cup {a} \cup {b})
      /\ IsFiniteSet({} \cup {a} \cup {b} \cup {c})
  BY FS_EmptySet, FS_AddElement
<1>3. P \in SUBSET ({} \cup {a} \cup {b} \cup {c})
  BY <1>1 DEF Uris
<1>4. IsFiniteSet(P)
  BY <1>2, <1>3, FS_Subset
<1>5. \A u \in Uris : Note(i, u) \in Notes /\ Note(i, u).frame = i /\ Note(i, u).to # "channel"
  BY DEF Note, Notes, Uris
<1> QED BY <1>1, <1>4, <1>5

(* The channel's notification of a frame.                                  *)
LEMMA EmitChannelKeeps ==
  ASSUME PushInv, EmitChannel
  PROVE  PushInv'
<1> DEFINE n == Head(todo)
           P == {Note(n.frame, u) : u \in Matching(n.frame)}
<1>1. PushTypeOK /\ InHand /\ Once /\ Told
  BY DEF PushInv
<1>2. /\ todo # <<>> /\ n.to = "channel" /\ Notify(n)
      /\ todo' = SetToSeq(P) /\ owed' = owed \cup Range(todo')
      /\ UNCHANGED <<events, upcoming, frames, negotiated, subs, ready, flushing, requests>>
  BY DEF EmitChannel, stream
<1>3. n \in Notes /\ n \in Range(todo)
  BY <1>1, <1>2, TailOnce DEF PushTypeOK
<1>4. n \in owed /\ n.frame \in Nat /\ 1 <= n.frame /\ n.frame <= Len(frames)
  BY <1>1, <1>3 DEF InHand, Notes
<1>5. IsFiniteSet(P) /\ P \in SUBSET Notes /\ \A x \in P : x.frame = n.frame /\ x.to # "channel"
  BY <1>1, <1>4, PingsAreDue
<1>6. /\ Range(todo) = {n}
      /\ \A x \in owed : x.frame = n.frame => x = n
  BY <1>1, <1>2, <1>3 DEF InHand
<1> HIDE DEF n, P
<1>7. todo' \in Seq(P) /\ IsInjective(todo') /\ Range(todo') = P
  BY <1>2, <1>5, SetToSeqOnce
<1>8. P \cap owed = {}
  BY <1>2, <1>5, <1>6
<1>9. Settled' = Settled \cup {n}
  <2>1. Settled' = (owed \cup P) \ P
    BY <1>2, <1>7 DEF Settled
  <2>2. (owed \cup P) \ P = owed
    BY <1>8
  <2>3. Settled = owed \ {n}
    BY <1>6 DEF Settled
  <2> QED BY <2>1, <2>2, <2>3, <1>4
<1>10. /\ sent' \in Seq(Notes) /\ pending' \in Seq(Notes) /\ Len(pending') <= QueueMax
       /\ Once' /\ Told'
  BY <1>2, <1>9, NotifyMoves DEF n
<1>11. PushTypeOK'
  <2>1. todo' \in Seq(Notes)
    <3>1. Seq(P) \subseteq Seq(Notes)
      BY <1>5
    <3> QED BY <3>1, <1>7
  <2> QED BY <2>1, <1>1, <1>2, <1>10 DEF PushTypeOK
<1>12. InHand'
  <2>1. owed' \in SUBSET Notes /\ \A x \in owed' : 1 <= x.frame /\ x.frame <= Len(frames')
    BY <1>1, <1>2, <1>4, <1>5, <1>7 DEF InHand
  <2>2. \A x \in Range(todo') : x.to # "channel"
    BY <1>5, <1>7
  <2>3. Range(todo') \subseteq owed' /\ IsInjective(todo')
    BY <1>2, <1>7
  <2> QED BY <2>1, <2>2, <2>3 DEF InHand
<1> QED BY <1>10, <1>11, <1>12 DEF PushInv

(* One resource's notification of a frame.                                 *)
LEMMA PingKeeps ==
  ASSUME PushInv, Ping
  PROVE  PushInv'
<1> DEFINE n == Head(todo)
<1>1. PushTypeOK /\ InHand /\ Once /\ Told
  BY DEF PushInv
<1>2. /\ todo # <<>> /\ n.to # "channel" /\ Notify(n) /\ todo' = Tail(todo)
      /\ UNCHANGED <<events, upcoming, frames, negotiated, subs, ready, flushing, owed, requests>>
  BY DEF Ping, stream
<1>3. /\ todo' \in Seq(Notes) /\ Range(todo) = {n} \cup Range(todo')
      /\ IsInjective(todo') /\ n \notin Range(todo')
  BY <1>1, <1>2, TailOnce DEF PushTypeOK, InHand
<1>4. n \in owed
  BY <1>1, <1>3 DEF InHand
<1>5. Settled' = Settled \cup {n}
  BY <1>2, <1>3, <1>4 DEF Settled
<1>6. /\ sent' \in Seq(Notes) /\ pending' \in Seq(Notes) /\ Len(pending') <= QueueMax
      /\ Once' /\ Told'
  BY <1>2, <1>5, NotifyMoves
<1>7. PushTypeOK'
  BY <1>1, <1>2, <1>3, <1>6 DEF PushTypeOK
<1>8. InHand'
  <2>1. owed' \in SUBSET Notes /\ \A x \in owed' : 1 <= x.frame /\ x.frame <= Len(frames')
    BY <1>1, <1>2 DEF InHand
  <2>2. Range(todo') \subseteq owed' /\ IsInjective(todo')
    BY <1>1, <1>2, <1>3 DEF InHand
  <2>3. \A x \in Range(todo') : x.to # "channel"
    BY <1>1, <1>2, <1>3 DEF InHand
  <2> QED BY <2>1, <2>2, <2>3 DEF InHand
<1> QED BY <1>6, <1>7, <1>8 DEF PushInv

(* What is read owes the notifications of its own frame.                   *)
LEMMA TakeKeeps ==
  ASSUME PushInv, todo = <<>>, NEW kind \in Kinds \cup {"rejected"}, Take(kind),
         upcoming' \in Nat \ {0}, UNCHANGED <<events, negotiated, session, sent>>
  PROVE  PushInv'
<1> DEFINE i == Len(frames) + 1
           n == Note(i, "channel")
<1>1. PushTypeOK /\ InHand /\ Once /\ Told
  BY DEF PushInv
<1>2. /\ todo' = <<n>> /\ frames' = Append(frames, kind) /\ owed' = owed \cup {n}
      /\ UNCHANGED <<events, negotiated, subs, pending, overflowed, ready, flushing, sent>>
  BY DEF Take, session
<1>3. /\ frames \in Seq(Kinds \cup {"rejected"}) /\ Len(frames) \in Nat
      /\ frames' \in Seq(Kinds \cup {"rejected"}) /\ Len(frames') = i
  BY <1>1, <1>2, LenProperties, AppendProperties DEF PushTypeOK
<1>4. n \in Notes /\ n.frame = i /\ n.to = "channel"
  BY <1>3 DEF Note, Notes
<1>5. \A x \in owed : x \in Notes /\ x.frame \in Nat /\ 1 <= x.frame /\ x.frame <= Len(frames)
  BY <1>1 DEF InHand, Notes
<1>6. n \notin owed /\ \A x \in owed : x.frame # i
  BY <1>3, <1>4, <1>5
<1>7. todo' \in Seq(Notes) /\ Range(todo') = {n} /\ IsInjective(todo')
  BY <1>2, <1>4 DEF Range, IsInjective
<1>8. Range(todo) = {}
  BY DEF Range
<1>9. Settled' = Settled
  BY <1>2, <1>6, <1>7, <1>8 DEF Settled
<1> HIDE DEF n
<1>10. PushTypeOK'
  BY <1>1, <1>2, <1>3, <1>7 DEF PushTypeOK
<1>11. InHand'
  <2>1. owed' \in SUBSET Notes /\ \A x \in owed' : 1 <= x.frame /\ x.frame <= Len(frames')
    BY <1>2, <1>3, <1>4, <1>5
  <2>2. \A x \in owed' : x.frame = n.frame => x = n
    BY <1>2, <1>4, <1>6
  <2> QED BY <2>1, <2>2, <1>2, <1>7 DEF InHand
<1>12. Once' /\ Told'
  BY <1>1, <1>2, <1>9 DEF Once, Told, Absent
<1> QED BY <1>10, <1>11, <1>12 DEF PushInv

(* An event of the stream, or the daemon's last word.                      *)
LEMMA ReadKeeps ==
  ASSUME PushInv, ReadFrame \/ ReadReject
  PROVE  PushInv'
<1>1. events \in Seq(Kinds) /\ upcoming \in Nat \ {0}
  BY DEF PushInv, PushTypeOK
<1>2. CASE ReadFrame
  <2>1. /\ todo = <<>> /\ upcoming <= Len(events) /\ Take(events[upcoming]) /\ upcoming' = upcoming + 1
        /\ UNCHANGED <<events, negotiated, session, sent>>
    BY <1>2 DEF ReadFrame
  <2>2. upcoming \in DOMAIN events /\ events[upcoming] \in Kinds
    BY <2>1, <1>1, LenProperties
  <2>3. upcoming' \in Nat \ {0}
    BY <2>1, <1>1
  <2>4. events[upcoming] \in Kinds \cup {"rejected"}
    BY <2>2
  <2> QED BY <2>1, <2>3, <2>4, TakeKeeps
<1>3. CASE ReadReject
  <2>1. /\ todo = <<>> /\ Take("rejected") /\ upcoming' = upcoming
        /\ UNCHANGED <<events, negotiated, session, sent>>
    BY <1>3 DEF ReadReject
  <2> QED BY <2>1, <1>1, TakeKeeps
<1> QED BY <1>2, <1>3

(* The flush moves the head of the queue to the client.                    *)
LEMMA FlushKeeps ==
  ASSUME PushInv, Flush
  PROVE  PushInv'
<1> DEFINE n == Head(pending)
<1>1. PushTypeOK /\ InHand /\ Once /\ Told
  BY DEF PushInv
<1>2. /\ flushing /\ pending # <<>> /\ pending' = Tail(pending)
      /\ sent' = IF n.to = "channel" /\ ~negotiated THEN sent ELSE Append(sent, n)
      /\ UNCHANGED <<events, upcoming, frames, negotiated, subs, overflowed, ready, flushing, todo, owed>>
  BY DEF Flush, stream
<1>3. /\ pending' \in Seq(Notes) /\ Len(pending') = Len(pending) - 1 /\ n \in Notes
      /\ Range(pending) = {n} \cup Range(pending')
      /\ IsInjective(pending') /\ n \notin Range(pending')
  BY <1>1, <1>2, TailOnce DEF PushTypeOK, Once
<1>4. /\ sent \in Seq(Notes) /\ IsInjective(sent) /\ Range(sent) \cap Range(pending) = {}
      /\ Range(pending) \subseteq Settled /\ Range(sent) \subseteq Settled \cup {Marker}
      /\ Marker \notin Range(sent) /\ ready
  BY <1>1, <1>2 DEF PushTypeOK, Once, Told
<1>5. n # Marker /\ n \in Settled /\ n \notin Range(sent)
  <2>1. n \in owed
    BY <1>3, <1>4 DEF Settled
  <2>2. 1 <= n.frame
    BY <2>1, <1>1 DEF InHand
  <2> QED BY <2>2, <1>3, <1>4 DEF Marker, Note
<1>6. Settled' = Settled
  BY <1>2 DEF Settled
<1> HIDE DEF n
<1>7. /\ Absent = {x \in Settled : x \notin Range(sent) \cup Range(pending)}
      /\ Absent' = {x \in Settled : x \notin Range(sent') \cup Range(pending')}
  BY <1>6 DEF Absent
<1>8. /\ PushTypeOK' /\ InHand'
  <2>1. sent' \in Seq(Notes)
    BY <1>2, <1>3, <1>4, AppendOnce
  <2>2. Len(pending') <= QueueMax
    BY <1>1, <1>3, PushAssumption, LenProperties DEF PushTypeOK, PushAssumption
  <2> QED BY <2>1, <2>2, <1>1, <1>2, <1>3 DEF PushTypeOK, InHand
<1>9. CASE n.to = "channel" /\ ~negotiated
  <2>1. sent' = sent
    BY <1>2, <1>9
  <2>2. \A x : x \in Absent' <=> x \in Absent \cup {n}
    BY <2>1, <1>3, <1>5, <1>7
  <2>3. Once'
    BY <2>1, <1>1, <1>2, <1>3, <1>4, <1>6 DEF Once
  <2>4. Told'
    BY <2>1, <2>2, <1>1, <1>2, <1>9 DEF Told
  <2> QED BY <2>3, <2>4, <1>8 DEF PushInv
<1>10. CASE ~ (n.to = "channel" /\ ~negotiated)
  <2>1. sent' = Append(sent, n)
    BY <1>2, <1>10
  <2>2. Range(sent') = Range(sent) \cup {n} /\ IsInjective(sent')
    BY <2>1, <1>3, <1>4, <1>5, AppendOnce
  <2>3. \A x : x \in Absent' <=> x \in Absent
    BY <2>2, <1>3, <1>5, <1>7
  <2>4. Once'
    BY <2>2, <1>1, <1>2, <1>3, <1>4, <1>5, <1>6 DEF Once
  <2>5. Told'
    BY <2>2, <2>3, <1>1, <1>2, <1>5 DEF Told
  <2> QED BY <2>4, <2>5, <1>8 DEF PushInv
<1> QED BY <1>9, <1>10

(* At its end the overflow is told by the marker.                          *)
LEMMA FlushEndsKeeps ==
  ASSUME PushInv, FlushEnds
  PROVE  PushInv'
<1>1. PushTypeOK /\ InHand /\ Once /\ Told
  BY DEF PushInv
<1>2. /\ flushing /\ pending = <<>> /\ ~ flushing'
      /\ UNCHANGED <<events, upcoming, frames, negotiated, subs, pending, ready, todo, owed>>
  BY DEF FlushEnds, stream
<1>3. sent \in Seq(Notes) /\ Marker \notin Range(sent) /\ ready /\ Range(pending) = {}
  BY <1>1, <1>2 DEF PushTypeOK, Once, Told, Range
<1>4. Settled' = Settled
  BY <1>2 DEF Settled
<1>5. InHand'
  BY <1>1, <1>2 DEF InHand
<1>6. CASE overflowed /\ negotiated
  <2>1. ~ overflowed' /\ sent' = Append(sent, Marker)
    BY <1>6 DEF FlushEnds
  <2>2. Marker \in Notes
    BY DEF Marker, Note, Notes
  <2>3. sent' \in Seq(Notes) /\ Range(sent') = Range(sent) \cup {Marker}
        /\ (IsInjective(sent) => IsInjective(sent'))
    BY <2>1, <2>2, <1>3, AppendOnce
  <2>4. Marker \notin Settled
    <3>1. Marker.frame = 0
      BY DEF Marker, Note
    <3> QED BY <3>1, <1>1 DEF InHand, Settled
  <2>5. Absent' = Absent
    BY <2>3, <2>4, <1>2, <1>4 DEF Absent
  <2>6. Once'
    BY <2>3, <1>1, <1>2, <1>3, <1>4 DEF Once
  <2>7. Told'
    BY <2>1, <2>3, <2>5, <1>1, <1>2, <1>6 DEF Told
  <2> QED BY <2>3, <2>6, <2>7, <1>1, <1>2, <1>5 DEF PushInv, PushTypeOK
<1>7. CASE ~ (overflowed /\ negotiated)
  <2>1. UNCHANGED <<overflowed, sent>>
    BY <1>7 DEF FlushEnds
  <2>2. Absent' = Absent
    BY <2>1, <1>2, <1>4 DEF Absent
  <2>3. Once'
    BY <2>1, <1>1, <1>2, <1>3, <1>4 DEF Once
  <2>4. Told'
    BY <2>1, <2>2, <1>1, <1>2, <1>7 DEF Told
  <2> QED BY <2>1, <2>3, <2>4, <1>1, <1>2, <1>5 DEF PushInv, PushTypeOK
<1> QED BY <1>6, <1>7

(* The handshake, the stream and the subscriptions notify nobody.          *)
LEMMA RestKeeps ==
  ASSUME PushInv,
         UNCHANGED <<negotiated, todo, sent, pending, owed, overflowed>>,
         \/ Connect \/ Disconnect \/ Initialized \/ UNCHANGED pushVars
         \/ \E uri \in Uris : SubscribeUri(uri) \/ UnsubscribeUri(uri)
         \/ \E kind \in Kinds : CommitEvent(kind)
  PROVE  PushInv'
<1>1. PushTypeOK /\ InHand /\ Once /\ Told
  BY DEF PushInv
<1>2. Settled' = Settled /\ Absent' = Absent
  BY DEF Settled, Absent
<1>3. /\ events \in Seq(Kinds) /\ Len(events) \in Nat /\ upcoming \in Nat \ {0}
      /\ subs \in SUBSET Uris
  BY <1>1, LenProperties DEF PushTypeOK
<1>4. \/ UNCHANGED <<ready, flushing>>
      \/ ~ ready /\ ready' /\ flushing'
  BY DEF Connect, Disconnect, Initialized, SubscribeUri, UnsubscribeUri, CommitEvent, pushVars, session, stream
<1>5. events' \in Seq(Kinds) /\ subs' \in SUBSET Uris /\ upcoming' \in Nat \ {0} /\ frames' = frames
  <2>1. CASE Connect
    BY <2>1, <1>3 DEF Connect, session
  <2>2. CASE Disconnect \/ Initialized \/ UNCHANGED pushVars \/ \E uri \in Uris : SubscribeUri(uri) \/ UnsubscribeUri(uri)
    BY <2>2, <1>3 DEF Disconnect, Initialized, SubscribeUri, UnsubscribeUri, pushVars, session, stream
  <2>3. CASE \E kind \in Kinds : CommitEvent(kind)
    <3>1. PICK kind \in Kinds : CommitEvent(kind)
      BY <2>3
    <3>2. /\ events' = Append(events, kind) /\ upcoming' = upcoming /\ subs' = subs
          /\ frames' = frames
      BY <3>1 DEF CommitEvent, session
    <3> QED BY <3>2, <1>3, AppendProperties
  <2> QED BY <2>1, <2>2, <2>3
<1>6. PushTypeOK'
  BY <1>1, <1>5 DEF PushTypeOK
<1>7. InHand'
  BY <1>1, <1>5 DEF InHand
<1>8. Once' /\ Told'
  BY <1>1, <1>2, <1>4 DEF Once, Told
<1> QED BY <1>6, <1>7, <1>8 DEF PushInv

(* The invariant of the MCP server's push path, for any queue limit, any   *)
(* resources and any number of frames.                                     *)
THEOREM PushInvariant == PushSpec => []PushInv
<1>1. PushInit => PushInv
  <2> SUFFICES ASSUME PushInit PROVE PushInv
    OBVIOUS
  <2>1. /\ events = <<>> /\ frames = <<>> /\ upcoming = 1 /\ subs = {} /\ todo = <<>> /\ pending = <<>> /\ sent = <<>>
        /\ owed = {} /\ ~ overflowed /\ ~ ready /\ ~ flushing
    BY DEF PushInit
  <2>2. Range(todo) = {} /\ Range(sent) = {} /\ Range(pending) = {}
        /\ IsInjective(todo) /\ IsInjective(sent) /\ IsInjective(pending)
    BY <2>1 DEF Range, IsInjective
  <2>3. PushTypeOK
    BY <2>1, PushAssumption DEF PushTypeOK, PushAssumption
  <2>4. Settled = {} /\ Absent = {}
    BY <2>1 DEF Settled, Absent
  <2> QED BY <2>1, <2>2, <2>3, <2>4 DEF PushInv, InHand, Once, Told
<1>2. PushInv /\ [PushNext]_pushVars => PushInv'
  <2> SUFFICES ASSUME PushInv, [PushNext]_pushVars PROVE PushInv'
    OBVIOUS
  <2>1. CASE ReadFrame \/ ReadReject
    BY <2>1, ReadKeeps
  <2>2. CASE EmitChannel
    BY <2>2, EmitChannelKeeps
  <2>3. CASE Ping
    BY <2>3, PingKeeps
  <2>4. CASE Flush
    BY <2>4, FlushKeeps
  <2>5. CASE FlushEnds
    BY <2>5, FlushEndsKeeps
  <2>6. CASE \/ Connect \/ Disconnect \/ Initialized \/ UNCHANGED pushVars
             \/ \E uri \in Uris : SubscribeUri(uri) \/ UnsubscribeUri(uri)
             \/ \E kind \in Kinds : CommitEvent(kind)
    <3>1. UNCHANGED <<negotiated, todo, sent, pending, owed, overflowed>>
      BY <2>6 DEF Connect, Disconnect, Initialized, SubscribeUri, UnsubscribeUri, CommitEvent, pushVars, session, stream
    <3> QED BY <2>6, <3>1, RestKeeps
  <2> QED BY <2>1, <2>2, <2>3, <2>4, <2>5, <2>6 DEF PushNext
<1> QED BY <1>1, <1>2, PTL DEF PushSpec

(* McpPush: however the client's handshake, the flush of the pre-          *)
(* initialised queue, the daemon's stream and its reconnects interleave,   *)
(* a client of the channel is told of every notification lost and of no    *)
(* other, none is made twice, and a client without the channel lacks the   *)
(* channel's and what the queue dropped; for any queue limit.              *)
THEOREM LossIsTold == PushSpec => []NothingLostSilently
<1>1. PushInv => NothingLostSilently
  <2> SUFFICES ASSUME PushInv PROVE NothingLostSilently
    OBVIOUS
  <2>1. IsInjective(sent \o pending)
    BY JoinOnce DEF PushInv, PushTypeOK, Once
  <2>2. Told /\ (~ready \/ flushing => Marker \notin Range(sent))
    BY DEF PushInv, Once
  <2>3. ASSUME negotiated, Absent # {}
        PROVE  IF ready /\ ~flushing THEN Marker \in Range(sent) ELSE overflowed
    <3>1. overflowed \/ Marker \in Range(sent)
      BY <2>2, <2>3 DEF Told
    <3> QED BY <2>2, <2>3, <3>1 DEF Told
  <2>4. ASSUME ~negotiated, NEW n \in Absent PROVE overflowed \/ (ready /\ n.to = "channel")
    BY <2>2, <2>4 DEF Told
  <2> QED BY <2>1, <2>2, <2>3, <2>4 DEF Told, NothingLostSilently
<1> QED BY <1>1, PushInvariant, PTL
=============================================================================
