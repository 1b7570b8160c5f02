------------------------------ MODULE Dispatcher ------------------------------
(***************************************************************************)
(* routing/outboundDispatcher.ts, with the part of routing/inboundRouter.ts*)
(* that claims an inbound message and hands it over.                       *)
(*                                                                         *)
(* An attempt is one inbound message on its way through processBatch() and *)
(* the dispatch() it starts.  The batches of a chat run one after another  *)
(* as far as the ask; the dispatches are not awaited, so any number of     *)
(* them run beside each other and beside later batches of the same chat.   *)
(* A step lasts from one await of the code to the next.                    *)
(*                                                                         *)
(* The rows of whatsapp_outbound_log are those of OutboundLog, which this  *)
(* module implements.                                                      *)
(***************************************************************************)
EXTENDS ClaimTable, FiniteSets

CONSTANTS
  Keys,          \* inbound message ids
  KeyOf,         \* KeyOf[a]: the message attempt a processes
  Chats,
  ChatOf,        \* ChatOf[k]: the chat message k arrived in
  Groups,        \* the chats that are groups; the others are direct messages
  OperatorOf,    \* OperatorOf[c]: the shopper behind the direct chat c
  ResponseMax,   \* config.mcp.responseMaxMs, in ticks
  Window,        \* PREPARING_DEDUPE_MS, in ticks
  MaxExtras,     \* bound on the artifacts that follow the first
  MaxTime,       \* bound on the clock
  Crashes,       \* TRUE when the process may die and restart
  Ambiguous      \* TRUE when a send that throws may have reached WhatsApp

ASSUME KeyOfAssumption == KeyOf \in [Attempts -> Keys]
ASSUME ChatOfAssumption == ChatOf \in [Keys -> Chats]
ASSUME GroupsAssumption == Groups \subseteq Chats
ASSUME SwitchesAssumption == {Crashes, Ambiguous} \subseteq BOOLEAN
ASSUME TimesAssumption == {ResponseMax, Window, MaxExtras, MaxTime} \subseteq Nat

VARIABLES
  row, now, claimedAt, delivered,   \* as in OutboundLog
  phase,       \* phase[a]: the await at which attempt a stands
  wf,          \* wf[a]: status of a's row in mcp_workflow
  welcome,     \* welcome[a]: a's reply carries the operator welcome
  deadline,    \* deadline[a]: when waitForResponse() gives up
  extras,      \* extras[a]: documents still to follow a's reply
  wired,       \* wired[a]: messages a has handed to WhatsApp
  preparingAt, \* preparingSentAt, a Map in memory
  bot,         \* bot[c]: the chat_bot row: "none", "open" or relay "paused"
  removed,     \* the groups whose membership row says present = 0
  welcomed     \* the operators with welcome_sent = 1

logVars == <<row, claimedAt, delivered>>
jobVars == <<wf, welcome, deadline, extras, wired>>
chatVars == <<preparingAt, bot, removed, welcomed>>
vars == <<row, now, claimedAt, delivered, phase, jobVars, chatVars>>

Chat(a) == ChatOf[KeyOf[a]]

Phases == {"idle", "dropped", "asking", "stranded", "waiting", "composing",
           "queued", "wire", "delivered", "sent", "lost", "relayed", "failed",
           "dead"}

\* An attempt inside its batch; "stranded" when its group was left meanwhile.
InBatch == {"asking", "stranded"}
\* An attempt whose claim is open and whose reply WhatsApp does not have.
Open == InBatch \cup {"waiting", "composing", "queued", "wire"}

\* Times of the preparing map; a chat that is missing reads as time 0 of the
\* epoch, which is as good as never.
Never == -Window

TypeOK ==
  /\ row \in [Keys -> {NoRow} \cup Row(0..MaxTime)]
  /\ now \in 0..MaxTime
  /\ claimedAt \in [Attempts -> 0..MaxTime]
  /\ delivered \subseteq Attempts
  /\ phase \in [Attempts -> Phases]
  /\ wf \in [Attempts -> {"none", "submitted", "done", "failed"}]
  /\ welcome \in [Attempts -> BOOLEAN]
  /\ deadline \in [Attempts -> 0..(MaxTime + ResponseMax)]
  /\ extras \in [Attempts -> 0..MaxExtras]
  /\ wired \in [Attempts -> 0..(1 + MaxExtras)]
  /\ preparingAt \in [Chats -> {Never} \cup 0..MaxTime]
  /\ bot \in [Chats -> {"none", "open", "paused"}]
  /\ removed \subseteq Groups
  /\ welcomed \subseteq {OperatorOf[c] : c \in Chats \ Groups}

Init ==
  /\ row = [k \in Keys |-> NoRow]
  /\ now = 0
  /\ claimedAt = [a \in Attempts |-> 0]
  /\ delivered = {}
  /\ phase = [a \in Attempts |-> "idle"]
  /\ wf = [a \in Attempts |-> "none"]
  /\ welcome = [a \in Attempts |-> FALSE]
  /\ deadline = [a \in Attempts |-> 0]
  /\ extras = [a \in Attempts |-> 0]
  /\ wired = [a \in Attempts |-> 0]
  /\ preparingAt = [c \in Chats |-> Never]
  /\ bot = [c \in Chats |-> "none"]
  /\ removed = {}
  /\ welcomed = {}

-------------------------------------------------------------------------------
(***************************************************************************)
(* Pieces of the handlers                                                  *)
(***************************************************************************)

At(a, p) == phase[a] = p
Goto(a, p) == phase' = [phase EXCEPT ![a] = p]

\* The workflow row of the attempt.
Workflow(a, status) == wf' = [wf EXCEPT ![a] = status]

\* The terminal write to the outbound log, fenced by the claim token.
Settle(a, status) ==
  row' = [row EXCEPT ![KeyOf[a]] = SettledRow(@, a, status, now)]

\* A batch of the chat starts when the previous one has left its chain.
ChainFree(c) == \A a \in Attempts : Chat(a) = c => phase[a] \notin InBatch

\* canSend() before and after pacing: no chat_bot row, or relay not paused.
CanSend(c) == c \notin Groups \/ bot[c] # "paused"

\* Mutant of Remember: the upsert clears relay_paused_at whatever membership says.
RememberUnpaused(c) == bot' = [bot EXCEPT ![c] = "open"]

\* remember(): the upsert overwrites the pause with what membership says now.
Remember(c) ==
  bot' = [bot EXCEPT ![c] = IF c \in removed THEN "paused" ELSE "open"]

\* Mutant of Fail: the claim is left pending.
FailKeepsClaim(a) ==
  /\ Workflow(a, "failed")
  /\ Goto(a, "failed")
  /\ UNCHANGED <<row, now, claimedAt, delivered, welcome, deadline, extras,
                 wired>>

\* fail(): workflow and claim.
Fail(a) ==
  /\ Workflow(a, "failed")
  /\ Settle(a, "failed")
  /\ Goto(a, "failed")
  /\ UNCHANGED <<now, claimedAt, delivered, welcome, deadline, extras,
                 wired>>

-------------------------------------------------------------------------------
(***************************************************************************)
(* In the batch                                                            *)
(***************************************************************************)

IsWelcomeSent(operator) == operator \in welcomed

\* claim() and the reads up to the ask, isWelcomeSent() among them.
Accept(a) ==
  /\ At(a, "idle") /\ ChainFree(Chat(a)) /\ Chat(a) \notin removed
  /\ Claimable(row[KeyOf[a]], now)
  /\ row' = [row EXCEPT ![KeyOf[a]] = ClaimedRow(@, a, now)]
  /\ claimedAt' = [claimedAt EXCEPT ![a] = now]
  /\ welcome' = [welcome EXCEPT ![a] =
       Chat(a) \notin Groups /\ ~IsWelcomeSent(OperatorOf[Chat(a)])]
  /\ Goto(a, "asking")
  /\ UNCHANGED <<now, delivered, wf, deadline, extras, wired, chatVars>>

\* claim() answers "already_sent" or "in_flight".
Ignore(a) ==
  /\ At(a, "idle") /\ ChainFree(Chat(a)) /\ Chat(a) \notin removed
  /\ ~Claimable(row[KeyOf[a]], now)
  /\ Goto(a, "dropped")
  /\ UNCHANGED <<now, logVars, jobVars, chatVars>>

\* The ask throws: an AskSubmissionError carries a handle and is remembered, any
\* other error is not.
AskFails(a) ==
  /\ phase[a] \in InBatch
  /\ Settle(a, "failed")
  /\ Goto(a, "failed")
  /\ Remember(Chat(a)) \/ bot' = bot
  /\ UNCHANGED <<now, claimedAt, delivered, jobVars, preparingAt, removed, welcomed>>

\* The ask is accepted and nobody waits for an answer: no trigger, a bare
\* re-tag, a voice note that is held, or a membership that has changed.
RelayOnly(a) ==
  /\ phase[a] \in InBatch
  /\ Remember(Chat(a))
  /\ Settle(a, "sent")
  /\ Goto(a, "relayed")
  /\ UNCHANGED <<now, claimedAt, delivered, jobVars, preparingAt, removed, welcomed>>

\* The ask is accepted, a workflow row is made and dispatch() starts to wait.
HandOver(a) ==
  /\ At(a, "asking")
  /\ Remember(Chat(a))
  /\ Workflow(a, "submitted")
  /\ deadline' = [deadline EXCEPT ![a] = now + ResponseMax]
  /\ Goto(a, "waiting")
  /\ UNCHANGED <<now, logVars, welcome, extras, wired, preparingAt,
                 removed, welcomed>>

\* A pure greeting as the first direct message: dispatchDirectText() marks the
\* workflow done and queues the welcome itself.
Greet(a) ==
  /\ At(a, "asking") /\ welcome[a]
  /\ Remember(Chat(a))
  /\ Workflow(a, "done")
  /\ Goto(a, "queued")
  /\ UNCHANGED <<now, logVars, welcome, deadline, extras, wired,
                 preparingAt, removed, welcomed>>

-------------------------------------------------------------------------------
(***************************************************************************)
(* In dispatch()                                                           *)
(***************************************************************************)

\* Mutant of NoReply: the wait loop does not look at its deadline.
NoReplyInTime(a) ==
  /\ At(a, "waiting") /\ now <= deadline[a]
  /\ Fail(a)
  /\ UNCHANGED chatVars

\* waitForResponse() fails, throws or passes its deadline; the chat was left; or
\* the answer is a lifecycle notice or a raw envelope.
NoReply(a) ==
  /\ At(a, "waiting")
  /\ Fail(a)
  /\ UNCHANGED chatVars

\* A usable answer; its artifacts are resolved next.
Reply(a) ==
  /\ At(a, "waiting") /\ now <= deadline[a] /\ CanSend(Chat(a))
  /\ Goto(a, "composing")
  /\ UNCHANGED <<now, logVars, jobVars, chatVars>>

\* Neither caption nor artifact.
Empty(a) ==
  /\ At(a, "composing")
  /\ Fail(a)
  /\ UNCHANGED chatVars

\* The reply is complete: the workflow is done, and the send is queued.
Compose(a, n) ==
  /\ At(a, "composing")
  /\ Workflow(a, "done")
  /\ extras' = [extras EXCEPT ![a] = n]
  /\ Goto(a, "queued")
  /\ UNCHANGED <<now, logVars, welcome, deadline, wired, chatVars>>

\* A "preparing" line went to this chat less than PREPARING_DEDUPE_MS ago.
LatelyPrepared(c) == now - preparingAt[c] < Window

\* A reply that is only a "preparing" line, and the first of its window.
ComposePreparing(a) ==
  /\ At(a, "composing") /\ ~LatelyPrepared(Chat(a))
  /\ preparingAt' = [preparingAt EXCEPT ![Chat(a)] = now]
  /\ Workflow(a, "done")
  /\ Goto(a, "queued")
  /\ UNCHANGED <<now, logVars, welcome, deadline, extras, wired, bot, removed, welcomed>>

\* The same line again within the window.
RepeatPreparing(a) ==
  /\ At(a, "composing") /\ LatelyPrepared(Chat(a))
  /\ Fail(a)
  /\ UNCHANGED chatVars

\* beforeSend() says no inside the send queue: "chat_left".
Refuse(a) ==
  /\ At(a, "queued") /\ ~CanSend(Chat(a))
  /\ Fail(a)
  /\ UNCHANGED chatVars

\* recordWelcomeSent(): a welcome whose claim was still held.
WelcomedBy(a) ==
  IF welcome[a] /\ Owns(row[KeyOf[a]], a) THEN {OperatorOf[Chat(a)]} ELSE {}

\* Mutant of SendDrops: the workflow is failed as well.
SendDropsAndFails(a) ==
  /\ Settle(a, "failed")
  /\ Workflow(a, "failed")
  /\ Goto(a, "failed")
  /\ extras' = [extras EXCEPT ![a] = 0]
  /\ UNCHANGED <<now, claimedAt, welcome, deadline, wired, chatVars>>

\* The catch of the first send: only the claim fails; the workflow stays "done"
\* and the other artifacts are dropped.
SendDrops(a) ==
  /\ Settle(a, "failed")
  /\ Goto(a, "failed")
  /\ extras' = [extras EXCEPT ![a] = 0]
  /\ UNCHANGED <<now, claimedAt, wf, welcome, deadline, wired, chatVars>>

\* Not linked, queue full, or presence and pacing that throw.
QueueError(a) ==
  /\ At(a, "queued")
  /\ SendDrops(a)
  /\ UNCHANGED delivered

\* The queue's turn: beforeSend() says yes and sendMessage() is called.
ToWire(a) ==
  /\ At(a, "queued") /\ CanSend(Chat(a))
  /\ wired' = [wired EXCEPT ![a] = @ + 1]
  /\ Goto(a, "wire")
  /\ UNCHANGED <<now, logVars, wf, welcome, deadline, extras, chatVars>>

\* sendMessage() throws.
WireError(a) ==
  /\ At(a, "wire")
  /\ SendDrops(a)
  /\ delivered' \in {delivered} \cup IF Ambiguous THEN {delivered \cup {a}} ELSE {}

\* WhatsApp has the message; the code has not resumed.
Deliver(a) ==
  /\ At(a, "wire")
  /\ delivered' = delivered \cup {a}
  /\ Goto(a, "delivered")
  /\ UNCHANGED <<row, now, claimedAt, jobVars, chatVars>>

\* markSent(), then the welcome log.
RecordSent(a) ==
  /\ At(a, "delivered")
  /\ Settle(a, "sent")
  /\ welcomed' = welcomed \cup WelcomedBy(a)
  /\ Goto(a, IF Owns(row[KeyOf[a]], a) THEN "sent" ELSE "lost")
  /\ UNCHANGED <<now, claimedAt, delivered, jobVars, preparingAt, bot, removed>>

Replied(a) == phase[a] \in {"sent", "lost"} /\ extras[a] > 0

\* One more document, asked for again in the loop and in the queue.
SendExtra(a) ==
  /\ Replied(a) /\ CanSend(Chat(a))
  /\ wired' = [wired EXCEPT ![a] = @ + 1]
  /\ extras' = [extras EXCEPT ![a] = @ - 1]
  /\ UNCHANGED <<now, logVars, phase, wf, welcome, deadline, chatVars>>

\* A document whose send fails before WhatsApp has it is skipped.
SkipExtra(a) ==
  /\ Replied(a)
  /\ extras' = [extras EXCEPT ![a] = @ - 1]
  /\ UNCHANGED <<now, logVars, phase, wf, welcome, deadline, wired, chatVars>>

\* The chat was left: the remaining documents are dropped.
StopExtras(a) ==
  /\ Replied(a) /\ ~CanSend(Chat(a))
  /\ extras' = [extras EXCEPT ![a] = 0]
  /\ UNCHANGED <<now, logVars, phase, wf, welcome, deadline, wired, chatVars>>

-------------------------------------------------------------------------------
(***************************************************************************)
(* Around it                                                               *)
(***************************************************************************)

\* onSelfMembership("remove"): a new epoch, membership and pause in one go.
Leave(g) ==
  /\ g \in Groups \ removed
  /\ removed' = removed \cup {g}
  /\ bot' = [bot EXCEPT ![g] = IF @ = "none" THEN @ ELSE "paused"]
  /\ phase' = [a \in Attempts |->
       IF Chat(a) = g /\ At(a, "asking") THEN "stranded" ELSE phase[a]]
  /\ UNCHANGED <<now, logVars, jobVars, preparingAt, welcomed>>

\* onSelfMembership("add").
Rejoin(g) ==
  /\ g \in removed
  /\ removed' = removed \ {g}
  /\ bot' = [bot EXCEPT ![g] = IF @ = "none" THEN @ ELSE "open"]
  /\ UNCHANGED <<now, logVars, phase, jobVars, preparingAt, welcomed>>

\* The process dies: what was in memory is gone, the database stays.
Crash ==
  /\ Crashes
  /\ \E a \in Attempts : phase[a] \in Open \cup {"delivered"}
  /\ phase' = [a \in Attempts |->
       IF phase[a] \in Open \cup {"delivered"} THEN "dead" ELSE phase[a]]
  /\ extras' = [a \in Attempts |-> 0]
  /\ preparingAt' = [c \in Chats |-> Never]
  /\ UNCHANGED <<now, logVars, wf, welcome, deadline, wired, bot,
                 removed, welcomed>>

Tick ==
  /\ now < MaxTime
  /\ now' = now + 1
  /\ UNCHANGED <<logVars, phase, jobVars, chatVars>>

\* What an attempt does once it is claimed.
Progress(a) ==
  \/ AskFails(a) \/ RelayOnly(a) \/ HandOver(a) \/ Greet(a)
  \/ NoReply(a) \/ Reply(a) \/ Empty(a)
  \/ \E n \in 0..MaxExtras : Compose(a, n)
  \/ ComposePreparing(a) \/ RepeatPreparing(a)
  \/ Refuse(a) \/ QueueError(a) \/ ToWire(a) \/ WireError(a) \/ Deliver(a)
  \/ RecordSent(a) \/ SendExtra(a) \/ SkipExtra(a) \/ StopExtras(a)

Next ==
  \/ \E a \in Attempts : Accept(a) \/ Ignore(a) \/ Progress(a)
  \/ \E g \in Groups : Leave(g) \/ Rejoin(g)
  \/ Crash
  \/ Tick

Spec == Init /\ [][Next]_vars

\* Every await of an attempt ends: a request to PromptQL and the response wait end
\* as module McpSessions says, where PromptQL is trusted to finish the answers it
\* begins, and a queued send as module AntiBanQueue says, where WhatsApp's library
\* is trusted to answer or throw.
FairSpec == Spec /\ \A a \in Attempts : WF_vars(Progress(a))

-------------------------------------------------------------------------------
(***************************************************************************)
(* Properties                                                              *)
(***************************************************************************)

\* What the outbound log sees of an attempt.
LogPhase == [a \in Attempts |-> IF phase[a] \in Open THEN "claimed" ELSE phase[a]]

\* Whatever the router and the dispatcher do between claim and terminal write,
\* they use the outbound log as OutboundLog says its callers do.
Log == INSTANCE OutboundLog WITH phase <- LogPhase

ImplementsOutboundLog == Log!Spec

\* "Removal stops relay and suppresses pending replies" (README.md:138): nothing
\* is handed to WhatsApp for a group the account is not in, though canSend()
\* reads the pause of the bot row, which every ask rewrites, and not membership.
SendsOnlyWhereMember ==
  [][\A a \in Attempts : wired'[a] # wired[a] => Chat(a) \notin removed]_vars

\* Workflow and welcome rows agree with WhatsApp: what was handed to WhatsApp
\* belongs to a workflow that is "done", also when the send failed or the claim was
\* lost, a workflow still "submitted" has somebody waiting or died with him, and
\* "Store welcome_sent record the moment delivery of the reply is confirmed"
\* (outboundDispatcher.ts:363): an operator on record as welcomed has a welcome.
RecordsTellTheTruth ==
  /\ \A a \in Attempts :
       /\ wired[a] > 0 => wf[a] = "done"
       /\ wf[a] = "submitted" => phase[a] \in {"waiting", "composing", "dead"}
       /\ wf[a] = "failed" => a \notin delivered
  /\ \A op \in welcomed : \E a \in delivered :
       welcome[a] /\ Chat(a) \notin Groups /\ OperatorOf[Chat(a)] = op

\* No claim stays pending for ever unless the process died with its attempt, so a
\* message whose attempt failed can be claimed again when it is delivered again.
ClaimsResolve ==
  \A k \in Keys : row[k].status = "pending" ~>
    row[k].status # "pending" \/ At(row[k].token, "dead")

===============================================================================
