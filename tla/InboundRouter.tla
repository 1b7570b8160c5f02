----------------------------- MODULE InboundRouter -----------------------------
(***************************************************************************)
(* routing/inboundRouter.ts: from the WhatsApp message to the accepted     *)
(* PromptQL post, for one connection.                                      *)
(*                                                                         *)
(* Messages gather in a buffer per party, a buffer becomes a batch, and    *)
(* the batches of a chat run one after another on the chat's chain.  A     *)
(* batch is named by its first delivery.  Each step lasts from one await   *)
(* of processBatch() to the next; chats, membership events, registrations  *)
(* and dispatches interleave at the awaits.                                *)
(*                                                                         *)
(* Not told apart: wording, files beyond "has an image", voice notes, and  *)
(* which registered member owns a new group (the inviter or the eldest).   *)
(* The dispatch is in module Dispatcher; here it just ends.                *)
(***************************************************************************)
EXTENDS Naturals, Sequences, SequencesExt

CONSTANTS
  Deliveries,    \* the messages WhatsApp hands over, redeliveries included
  MsgOf,         \* MsgOf[d]: the message id of d
  ChatOf,        \* ChatOf[d]: the chat
  PartyOf,       \* PartyOf[d]: the buffer: a sender of a group, or a direct chat
  FromOf,        \* FromOf[d]: an operator, "client", or "me" (the linked phone)
  Tagged,        \* deliveries that mention the linked number
  KindOf,        \* KindOf[d]: "text", "image", "retag" ("@SEPT"), "greeting"
                 \* ("good morning") or "hello", which is a greeting and a re-tag
  Groups,        \* the chats that are groups
  MembersOf,     \* MembersOf[c]: operators in the group, or behind the direct chat
  Unregistered,  \* RELAY_UNREGISTERED_CHATS
  NoOne,         \* no operator, no delivery
  Ladder,        \* retries of a rejected upload
  MaxEpoch,      \* bound on the membership changes of a group
  Crashes        \* TRUE when the process may die

Msgs == {MsgOf[d] : d \in Deliveries}
Chats == {ChatOf[d] : d \in Deliveries}
Parties == {PartyOf[d] : d \in Deliveries}
Operators == UNION {MembersOf[c] : c \in Chats}

ASSUME MembersAssumption == NoOne \notin Operators /\ NoOne \notin Deliveries
ASSUME PartyAssumption ==
  \A d, e \in Deliveries : PartyOf[d] = PartyOf[e] => ChatOf[d] = ChatOf[e]
ASSUME BoundsAssumption == {Ladder, MaxEpoch} \subseteq Nat
ASSUME SwitchAssumption == {Crashes, Unregistered} \subseteq BOOLEAN

VARIABLES
  arrived,     \* the deliveries so far, in order
  buffer,      \* buffer[p]: clientBuffers, one per party
  heldEpoch,   \* heldEpoch[p]: epoch of the buffer's last item
  chain,       \* chain[c]: the batches on the chat's promise chain
  batch,       \* batch[b]: the batch whose first delivery is b
  epoch,       \* epoch[c]: membership epoch, in memory
  present,     \* present[c]: the membership row: "unknown", "in" or "out"
  bot,         \* bot[c]: the chat_bot row
  registered,  \* the operators registered and enabled
  row,         \* row[m]: the outbound log's row for message m
  inFlight,    \* inFlight[c]: the batch whose run is being waited for
  welcomed,    \* operators with welcome_sent = 1
  posts        \* posts[c]: what PromptQL accepted for the chat, in order

inVars == <<arrived, buffer, heldEpoch>>
worldVars == <<epoch, present, registered>>
vars == <<inVars, chain, batch, worldVars, bot, row, inFlight, welcomed, posts>>

NoBatch == [items |-> <<>>, epoch |-> 0, pc |-> "none", owner |-> NoOne,
            role |-> "none", qualified |-> FALSE, claims |-> {}, mode |-> "none",
            tries |-> 0, reply |-> NoOne]
NoBot == [thread |-> 0, owner |-> NoOne, paused |-> FALSE, pending |-> NoOne,
          prompt |-> FALSE]
NoRow == [status |-> "none", token |-> NoOne]

\* Awaits of processBatch(): getGroup, the recovery post, the in-flight wait and
\* transcription, the ask, and the PA's prompt.
Working == {"resolving", "recovering", "grounding", "asking", "prompting"}
Modes == {"none", "skip", "retag", "greet", "respond", "pa"}

TypeOK ==
  /\ arrived \in Seq(Deliveries) /\ IsInjective(arrived)
  /\ buffer \in [Parties -> Seq(Deliveries)]
  /\ heldEpoch \in [Parties -> 0..MaxEpoch]
  /\ chain \in [Chats -> Seq(Deliveries)]
  /\ batch \in [Deliveries ->
       [items : Seq(Deliveries), epoch : 0..MaxEpoch,
        pc : Working \cup {"none", "queued", "dispatching", "done", "dead"},
        owner : Operators \cup {NoOne}, role : {"none", "shopper", "client"},
        qualified : BOOLEAN, claims : SUBSET Deliveries, mode : Modes,
        tries : 0..Ladder, reply : Deliveries \cup {NoOne}]]
  /\ epoch \in [Chats -> 0..MaxEpoch]
  /\ present \in [Chats -> {"unknown", "in", "out"}]
  /\ bot \in [Chats ->
       [thread : Nat, owner : Operators \cup {NoOne}, paused : BOOLEAN,
        pending : Deliveries \cup {NoOne}, prompt : BOOLEAN]]
  /\ registered \subseteq Operators
  /\ row \in [Msgs -> [status : {"none", "pending", "sent", "failed"},
                       token : Deliveries \cup {NoOne}]]
  /\ inFlight \in [Chats -> Deliveries \cup {NoOne}]
  /\ welcomed \subseteq Operators
  /\ posts \in [Chats -> Seq([by : Deliveries, thread : Nat,
                              as : {"turn", "recovery", "prompt"},
                              response : {"force_respond", "force_skip"}])]

Init ==
  /\ arrived = <<>>
  /\ buffer = [p \in Parties |-> <<>>]
  /\ heldEpoch = [p \in Parties |-> 0]
  /\ chain = [c \in Chats |-> <<>>]
  /\ batch = [d \in Deliveries |-> NoBatch]
  /\ epoch = [c \in Chats |-> 0]
  /\ present = [c \in Chats |-> "unknown"]
  /\ bot = [c \in Chats |-> NoBot]
  /\ registered = {}
  /\ row = [m \in Msgs |-> NoRow]
  /\ inFlight = [c \in Chats |-> NoOne]
  /\ welcomed = {}
  /\ posts = [c \in Chats |-> <<>>]

-------------------------------------------------------------------------------
(***************************************************************************)
(* Buffers and chains                                                      *)
(***************************************************************************)

HasArrived(m) == \E i \in DOMAIN arrived : MsgOf[arrived[i]] = m

\* handle(): the message joins its party's buffer.  The socket has dropped what
\* it captured before, but only for groups.
Receive(d) ==
  /\ ~\E i \in DOMAIN arrived : arrived[i] = d
  /\ ChatOf[d] \in Groups => ~HasArrived(MsgOf[d])
  /\ arrived' = Append(arrived, d)
  /\ buffer' = [buffer EXCEPT ![PartyOf[d]] = Append(@, d)]
  /\ heldEpoch' = [heldEpoch EXCEPT ![PartyOf[d]] = epoch[ChatOf[d]]]
  /\ UNCHANGED <<chain, batch, worldVars, bot, row, inFlight, welcomed, posts>>

\* flushBuffer(): the quiet window has passed; the buffer joins the chain with
\* the epoch of its last message.
Flush(p) ==
  /\ buffer[p] # <<>>
  /\ LET b == Head(buffer[p]) IN
       /\ batch' = [batch EXCEPT ![b] = [NoBatch EXCEPT
            !.items = buffer[p], !.epoch = heldEpoch[p], !.pc = "queued"]]
       /\ chain' = [chain EXCEPT ![ChatOf[b]] = Append(@, b)]
  /\ buffer' = [buffer EXCEPT ![p] = <<>>]
  /\ UNCHANGED <<arrived, heldEpoch, worldVars, bot, row, inFlight, welcomed, posts>>

\* Mutant of LeaveChain: a batch that failed leaves the chain rejected, and
\* nothing catches it.
LeaveChainUnlessFailed(b) ==
  LET failed == \E d \in batch[b].claims : row'[MsgOf[d]].status = "failed" IN
  chain' = IF failed THEN chain
           ELSE [chain EXCEPT ![ChatOf[b]] = Tail(@)]

\* The batch, which is the head, settles; the next one on the chain may start.
LeaveChain(b) == chain' = [chain EXCEPT ![ChatOf[b]] = Tail(@)]

End(b) ==
  /\ LeaveChain(b)
  /\ batch' = [batch EXCEPT ![b].pc = "done"]

\* Mutant of Turn: batches run as soon as they are queued.
AnyTurn(b) == b \in ToSet(chain[ChatOf[b]])

\* The batch's turn on its chain.
Turn(b) == chain[ChatOf[b]] # <<>> /\ Head(chain[ChatOf[b]]) = b

-------------------------------------------------------------------------------
(***************************************************************************)
(* What processBatch() computes between two awaits                         *)
(***************************************************************************)

Items(b) == ToSet(batch[b].items)

\* available(): for a group, the epoch the batch arrived in, and membership.
Available(b) ==
  LET c == ChatOf[b] IN
  c \in Groups => batch[b].epoch = epoch[c] /\ present[c] # "out"

\* identity() of the first message stands for the batch.
RoleOf(b, owner, qualified) ==
  CASE FromOf[b] = "me" -> IF owner = NoOne THEN "client" ELSE "shopper"
    [] FromOf[b] # "me" /\ ChatOf[b] \in Groups /\ ~qualified -> "client"
    [] OTHER -> IF FromOf[b] \in registered THEN "shopper" ELSE "client"

\* The outbound log grants the first delivery of a message that is free, and of
\* a pending one when it is stale.
Grants(b, rows) ==
  LET firsts == {d \in Items(b) : \A i, j \in DOMAIN batch[b].items :
                   batch[b].items[j] = d /\ MsgOf[batch[b].items[i]] = MsgOf[d] => i >= j}
      free == {d \in firsts : rows[MsgOf[d]].status \in {"none", "failed"}}
      pending == {d \in firsts : rows[MsgOf[d]].status = "pending"}
  IN {free \cup stale : stale \in SUBSET pending}

\* The rows after the claims S and the status written with their tokens.
Written(rows, S, status) ==
  [m \in Msgs |-> IF \E d \in S : MsgOf[d] = m
                  THEN [status |-> status, token |-> CHOOSE d \in S : MsgOf[d] = m]
                  ELSE rows[m]]

\* Terminal writes hold only while the token is still the batch's.
Held(S) == {d \in S : row[MsgOf[d]].token = d}

\* Mutant of Asks: a message of the linked phone triggers like any other.
AsksFromAnyone(r, d) ==
  r.role = "shopper" /\ (ChatOf[d] \in Groups => d \in Tagged)

\* shopperTrigger, for one message of the batch.
Asks(r, d) ==
  /\ FromOf[d] # "me" /\ r.role = "shopper"
  /\ ChatOf[d] \in Groups => d \in Tagged

\* paTrigger, for one message of the batch.
AsksPA(r, d) ==
  /\ FromOf[d] # "me" /\ ChatOf[d] \in Groups /\ d \in Tagged
  /\ r.qualified /\ r.role = "client" /\ r.owner \in registered

\* The response mode of batch b with record r.
ModeOf(b, r) ==
  LET first == /\ FromOf[b] # "me" /\ ChatOf[b] \notin Groups
               /\ r.role = "shopper" /\ FromOf[b] \notin welcomed
      greeting == /\ first /\ Len(batch[b].items) = 1
                  /\ KindOf[b] \in {"greeting", "hello"}
      asks == \E d \in Items(b) : Asks(r, d)
  IN CASE greeting -> "greet"
       [] ~greeting /\ asks ->
            IF inFlight[ChatOf[b]] # NoOne
               /\ \A d \in Items(b) : KindOf[d] \in {"retag", "hello"}
            THEN "retag" ELSE "respond"
       [] ~greeting /\ ~asks ->
            IF \E d \in Items(b) : AsksPA(r, d) THEN "pa" ELSE "skip"

\* The claim loop and the checks behind it, for batch b with record r: nothing
\* granted, membership changed, or on to the ask.
ClaimItems(b, r, rows) ==
  \E S \in Grants(b, rows) :
    \/ /\ S = {}
       /\ row' = rows
       /\ LeaveChain(b)
       /\ batch' = [batch EXCEPT ![b] = [r EXCEPT !.pc = "done"]]
    \/ /\ S # {} /\ ~Available(b)
       /\ row' = Written(rows, S, "failed")
       /\ LeaveChain(b)
       /\ batch' = [batch EXCEPT ![b] = [r EXCEPT !.pc = "done"]]
    \/ /\ S # {} /\ Available(b)
       /\ row' = Written(rows, S, "pending")
       /\ batch' = [batch EXCEPT ![b] = [r EXCEPT
            !.pc = "grounding", !.claims = S, !.mode = ModeOf(b, r)]]
       /\ UNCHANGED chain

\* Mutant of Upserted: the pause is cleared by every accepted post.
UpsertedUnpaused(c, owner) ==
  LET old == bot[c]
      fresh == old.thread = 0 \/ (old.owner = NoOne /\ owner # NoOne)
  IN [old EXCEPT !.thread = IF fresh THEN @ + 1 ELSE @,
                 !.owner = IF fresh THEN owner ELSE @, !.paused = FALSE]

\* submit() and remember(): a chat without a bot, or with a common bot that now
\* has an owner, gets a new thread; the pause follows membership.
Upserted(c, owner) ==
  LET old == bot[c]
      fresh == old.thread = 0 \/ (old.owner = NoOne /\ owner # NoOne)
  IN [old EXCEPT !.thread = IF fresh THEN @ + 1 ELSE @,
                 !.owner = IF fresh THEN owner ELSE @,
                 !.paused = c \in Groups /\ present[c] = "out"]

Posted(c, b, thread, as, response) ==
  posts' = [posts EXCEPT ![c] =
    Append(@, [by |-> b, thread |-> thread, as |-> as, response |-> response])]

-------------------------------------------------------------------------------
(***************************************************************************)
(* processBatch()                                                          *)
(***************************************************************************)

\* Its first checks; then the group's metadata is awaited.
Start(b) ==
  /\ batch[b].pc = "queued" /\ Turn(b)
  /\ \/ /\ Available(b)
        /\ batch' = [batch EXCEPT ![b].pc = "resolving"]
        /\ UNCHANGED chain
     \/ ~Available(b) /\ End(b)
  /\ UNCHANGED <<inVars, worldVars, bot, row, inFlight, welcomed, posts>>

\* Mutant of MustRecover: the pending post waits while a bot is replaced.
MustRecoverUnlessPromoting(c, owner) ==
  bot[c].pending # NoOne /\ ~(bot[c].owner = NoOne /\ owner # NoOne)

\* retryPending() has something to post first.
MustRecover(c, owner) == bot[c].pending # NoOne

\* destination(), identity() and, with nothing to recover, the claims.
Resolve(b) ==
  LET c == ChatOf[b]
      candidates == registered \cap MembersOf[c]
  IN
  /\ batch[b].pc = "resolving"
  /\ \/ \* no metadata, not a member, not allowed, or membership changed
        /\ \/ c \in Groups
           \/ bot[c].owner = NoOne /\ candidates = {} /\ ~Unregistered
        /\ End(b)
        /\ UNCHANGED row
     \/ \E candidate \in IF candidates = {} THEN {NoOne} ELSE candidates :
          LET owner == IF bot[c].owner # NoOne THEN bot[c].owner ELSE candidate
              qualified == c \in Groups /\ candidate # NoOne
              r == [batch[b] EXCEPT !.owner = owner, !.qualified = qualified,
                                    !.role = RoleOf(b, owner, qualified)]
          IN /\ Available(b)
             /\ owner # NoOne \/ Unregistered
             /\ IF MustRecover(c, owner)
                THEN /\ batch' = [batch EXCEPT ![b] = [r EXCEPT !.pc = "recovering"]]
                     /\ UNCHANGED <<chain, row>>
                ELSE ClaimItems(b, r, row)
  /\ UNCHANGED <<inVars, worldVars, bot, inFlight, welcomed, posts>>

\* setPendingPost(null).
Cleared(bt) == [bt EXCEPT !.pending = NoOne, !.prompt = FALSE]

\* The pending post is accepted by the bot it was meant for.  The message that
\* gave it its id counts as answered; then the batch claims its own.
Recover(b) ==
  LET c == ChatOf[b]
      lost == bot[c].pending
      m == MsgOf[lost]
  IN
  /\ batch[b].pc = "recovering"
  /\ bot' = [bot EXCEPT ![c] = Cleared(Upserted(c, bot[c].owner))]
  /\ Posted(c, lost, bot[c].thread, IF bot[c].prompt THEN "prompt" ELSE "recovery",
            "force_skip")
  /\ ClaimItems(b, batch[b],
       IF bot[c].prompt \/ row[m].status \notin {"none", "failed"} THEN row
       ELSE [row EXCEPT ![m] = [status |-> "sent", token |-> NoOne]])
  /\ UNCHANGED <<inVars, worldVars, inFlight, welcomed>>

\* The recovery fails.  The batch ends before it has claimed anything.
RecoverFails(b) ==
  LET c == ChatOf[b] IN
  /\ batch[b].pc = "recovering"
  /\ bot' \in {bot, [bot EXCEPT ![c] = Upserted(c, bot[c].owner)]}
  /\ End(b)
  /\ UNCHANGED <<inVars, worldVars, row, inFlight, welcomed, posts>>

\* The in-flight wait and the transcription are over, and the ask is sent.
\* available() is not asked again.
Ask(b) ==
  /\ batch[b].pc = "grounding"
  /\ batch' = [batch EXCEPT ![b].pc = "asking"]
  /\ UNCHANGED <<inVars, chain, worldVars, bot, row, inFlight, welcomed, posts>>

\* The claim the reply will settle: the last tagged message's, if it was
\* granted, else the last granted one's.
ReplyTo(b) ==
  LET items == batch[b].items
      tagged == SelectSeq(items, LAMBDA d : d \in Tagged)
      wanted == IF tagged = <<>> THEN Last(items) ELSE Last(tagged)
      granted == SelectSeq(items, LAMBDA d : d \in batch[b].claims)
  IN IF wanted \in batch[b].claims THEN wanted ELSE Last(granted)

\* The end of an accepted turn: relay only, or hand over to the dispatcher.
Conclude(b) ==
  LET c == ChatOf[b]
      S == batch[b].claims
      answer == Available(b) /\ batch[b].mode \in {"greet", "respond", "pa"}
  IN
  /\ \/ /\ ~answer
        /\ row' = Written(row, Held(S), "sent")
        /\ batch' = [batch EXCEPT ![b].pc = "done"]
        /\ UNCHANGED inFlight
     \/ /\ answer
        /\ row' = Written(row, Held(S \ {ReplyTo(b)}), "sent")
        /\ batch' = [batch EXCEPT ![b].pc = "dispatching", ![b].reply = ReplyTo(b)]
        /\ inFlight' = IF batch[b].mode = "greet" THEN inFlight
                       ELSE [inFlight EXCEPT ![c] = b]
  /\ LeaveChain(b)

\* PromptQL accepts the turn; a client's tag still needs the PA's prompt.
AskAccepted(b) ==
  LET c == ChatOf[b] IN
  /\ batch[b].pc = "asking"
  /\ bot' = [bot EXCEPT ![c] = Cleared(Upserted(c, batch[b].owner))]
  /\ Posted(c, b, bot'[c].thread, "turn",
            IF batch[b].mode = "respond" THEN "force_respond" ELSE "force_skip")
  /\ IF batch[b].mode = "pa" /\ Available(b)
     THEN /\ batch' = [batch EXCEPT ![b].pc = "prompting"]
          /\ UNCHANGED <<chain, row, inFlight>>
     ELSE Conclude(b)
  /\ UNCHANGED <<inVars, worldVars, welcomed>>

\* PromptQL accepts the prompt "respond on behalf of".
PromptAccepted(b) ==
  LET c == ChatOf[b] IN
  /\ batch[b].pc = "prompting"
  /\ bot' = [bot EXCEPT ![c] = Upserted(c, batch[b].owner)]
  /\ Posted(c, b, bot'[c].thread, "prompt", "force_respond")
  /\ Conclude(b)
  /\ UNCHANGED <<inVars, worldVars, welcomed>>

\* Mutant of Abandon: the claims of a failed batch are forgotten.
AbandonSilently(b) ==
  /\ End(b)
  /\ UNCHANGED row

\* The catch of processBatch(): every claim of the batch fails.
Abandon(b) ==
  /\ row' = Written(row, Held(batch[b].claims), "failed")
  /\ End(b)

\* submitMediaAsk(): a rejected image has another try.
MayRetry(b) ==
  batch[b].tries < Ladder /\ \E d \in Items(b) : KindOf[d] = "image"

\* AskSubmissionError: the handle is remembered and the text is kept for the next
\* batch.  An image is tried again, a few times, without another look at
\* membership.
AskRejected(b) ==
  LET c == ChatOf[b] IN
  /\ batch[b].pc \in {"asking", "prompting"}
  /\ bot' = [bot EXCEPT ![c] = [Upserted(c, batch[b].owner) EXCEPT
       !.pending = b, !.prompt = batch[b].pc = "prompting"]]
  /\ \/ /\ batch[b].pc = "asking" /\ MayRetry(b)
        /\ batch' = [batch EXCEPT ![b].tries = @ + 1]
        /\ UNCHANGED <<chain, row>>
     \/ Abandon(b)
  /\ UNCHANGED <<inVars, worldVars, inFlight, welcomed, posts>>

\* Any other error of an ask.
AskFails(b) ==
  /\ batch[b].pc \in {"asking", "prompting"}
  /\ Abandon(b)
  /\ UNCHANGED <<inVars, worldVars, bot, inFlight, welcomed, posts>>

\* The dispatch settles its claim and, for a first direct message, may have put
\* the welcome on record.
DispatchEnds(b) ==
  LET c == ChatOf[b] IN
  /\ batch[b].pc = "dispatching"
  /\ \E status \in {"sent", "failed"} : row' = Written(row, Held({batch[b].reply}), status)
  /\ batch' = [batch EXCEPT ![b].pc = "done"]
  /\ inFlight' = [inFlight EXCEPT ![c] = IF @ = b THEN NoOne ELSE @]
  /\ welcomed' \in {welcomed} \cup
       (IF c \notin Groups /\ FromOf[b] \in Operators THEN {welcomed \cup {FromOf[b]}} ELSE {})
  /\ UNCHANGED <<inVars, chain, worldVars, bot, posts>>

-------------------------------------------------------------------------------
(***************************************************************************)
(* Around it                                                               *)
(***************************************************************************)

\* onSelfMembership("remove").
SelfRemoved(c) ==
  /\ c \in Groups /\ epoch[c] < MaxEpoch
  /\ epoch' = [epoch EXCEPT ![c] = @ + 1]
  /\ present' = [present EXCEPT ![c] = "out"]
  /\ bot' = [bot EXCEPT ![c].paused = @ \/ bot[c].thread # 0]
  /\ UNCHANGED <<inVars, chain, batch, registered, row, inFlight, welcomed, posts>>

\* onSelfMembership("add"); a repeated add changes nothing here.
SelfAdded(c) ==
  /\ c \in Groups /\ present[c] # "in" /\ epoch[c] < MaxEpoch
  /\ epoch' = [epoch EXCEPT ![c] = @ + 1]
  /\ present' = [present EXCEPT ![c] = "in"]
  /\ bot' = [bot EXCEPT ![c].paused = FALSE]
  /\ UNCHANGED <<inVars, chain, batch, registered, row, inFlight, welcomed, posts>>

\* An operator is registered (http/adminApi.ts).
Register(op) ==
  /\ op \notin registered
  /\ registered' = registered \cup {op}
  /\ UNCHANGED <<inVars, chain, batch, epoch, present, bot, row, inFlight, welcomed, posts>>

\* The process dies: buffers, chains, epochs and runs are gone.
Crash ==
  /\ Crashes
  /\ \E b \in Deliveries : batch[b].pc \in Working \cup {"queued", "dispatching"}
  /\ buffer' = [p \in Parties |-> <<>>]
  /\ heldEpoch' = [p \in Parties |-> 0]
  /\ chain' = [c \in Chats |-> <<>>]
  /\ batch' = [b \in Deliveries |-> [batch[b] EXCEPT
       !.pc = IF @ \in {"none", "done"} THEN @ ELSE "dead"]]
  /\ epoch' = [c \in Chats |-> 0]
  /\ inFlight' = [c \in Chats |-> NoOne]
  /\ UNCHANGED <<arrived, present, bot, registered, row, welcomed, posts>>

Process(b) ==
  \/ Start(b) \/ Resolve(b) \/ Recover(b) \/ RecoverFails(b) \/ Ask(b)
  \/ AskAccepted(b) \/ PromptAccepted(b) \/ AskRejected(b) \/ AskFails(b)

Next ==
  \/ \E d \in Deliveries : Receive(d) \/ Process(d) \/ DispatchEnds(d)
  \/ \E p \in Parties : Flush(p)
  \/ \E c \in Chats : SelfRemoved(c) \/ SelfAdded(c)
  \/ \E op \in Operators : Register(op)
  \/ Crash

Spec == Init /\ [][Next]_vars

-------------------------------------------------------------------------------
(***************************************************************************)
(* Properties                                                              *)
(***************************************************************************)

\* A group's bot is paused exactly while the membership row says "out", though
\* membership events arrive while a post that rewrites the bot is awaited.
PausedIffRemoved ==
  \A c \in Chats \cap Groups :
    bot[c].thread # 0 => (bot[c].paused <=> present[c] = "out")

\* "Pending pre-registration text is recovered on the old bot before switching;
\* failed recovery blocks the switch" (README.md:120): what waits in the slot
\* stays there, and its bot stays the chat's bot, until that bot has accepted it.
RecoveredOnItsBot ==
  [][\A c \in Chats : bot[c].pending # NoOne =>
       \/ bot'[c].pending = bot[c].pending /\ bot'[c].thread = bot[c].thread
       \/ /\ posts'[c] # posts[c]
          /\ Last(posts'[c]).by = bot[c].pending
          /\ Last(posts'[c]).thread = bot[c].thread]_<<bot, posts>>

Texts(c) == {i \in DOMAIN posts[c] : posts[c][i].as # "prompt"}
Arrival(d) == CHOOSE i \in DOMAIN arrived : arrived[i] = d

\* "Submissions are FIFO through MCP acceptance" (README.md:143), recovery
\* included: what one party wrote reaches PromptQL in the order it arrived, and
\* no delivery reaches it twice.
AcceptedInOrder ==
  \A c \in Chats : \A i, j \in Texts(c) :
    LET x == posts[c][i].by
        y == posts[c][j].by
    IN i < j /\ PartyOf[x] = PartyOf[y] =>
         \A d \in Items(x), e \in Items(y) : Arrival(d) < Arrival(e)

\* A claim is never left behind: a pending row belongs to a batch at work or is
\* the one its dispatch will settle, also when another batch took it over.
ClaimsAccounted ==
  \A m \in Msgs : row[m].status = "pending" =>
    \E b \in Deliveries :
      /\ row[m].token \in batch[b].claims
      /\ \/ batch[b].pc \in Working \cup {"dead"}
         \/ batch[b].pc = "dispatching" /\ batch[b].reply = row[m].token

\* "Manual messages never trigger. Only current-message mentions count"
\* (README.md:139): a reply is owed to somebody other than the linked phone who,
\* in a group, tagged the bot in this very batch.
OnlyTriggersAreAnswered ==
  \A b \in Deliveries : batch[b].reply # NoOne =>
    \E d \in Items(b) : FromOf[d] # "me" /\ (ChatOf[d] \in Groups => d \in Tagged)

\* A batch that fails, is dropped or is refused does not hold up its chat: the head
\* of a chain is at work or can start, and what waits is in the chain.
ChainsMove ==
  /\ \A c \in Chats : chain[c] # <<>> =>
       batch[Head(chain[c])].pc \in Working \cup {"queued"}
  /\ \A b \in Deliveries : batch[b].pc = "queued" => b \in ToSet(chain[ChatOf[b]])

===============================================================================
