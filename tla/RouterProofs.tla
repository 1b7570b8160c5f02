------------------------------ MODULE RouterProofs ------------------------------
(***************************************************************************)
(* The pause of a group's bot, the claims of batches, who is answered, the *)
(* chains, the pending slot and the order of submissions, for any chats,   *)
(* deliveries, operators and changes of membership.                        *)
(***************************************************************************)
EXTENDS InboundRouter, TLAPS

-------------------------------------------------------------------------------
(***************************************************************************)
(* The inductive invariant                                                 *)
(***************************************************************************)

\* A chat_bot row.  What its columns hold does not matter here, the pause apart.
Rows(S) == [thread : S, owner : S, paused : BOOLEAN, pending : S, prompt : S]
IsBot(r) == \E S : r \in Rows(S)

BotsTyped ==
  /\ bot = [c \in Chats |-> bot[c]] /\ \A c \in Chats : IsBot(bot[c])
  /\ present \in [Chats -> {"unknown", "in", "out"}]

PauseInv == BotsTyped /\ PausedIffRemoved

LEMMA InitOK == Init => PauseInv
  <1>1. IsBot(NoBot) /\ NoBot.thread = 0
    <2>1. NoBot \in Rows({0, NoOne, FALSE})
      BY DEF Rows, NoBot
    <2>2. QED
      BY <2>1 DEF IsBot, NoBot
  <1> HIDE DEF NoBot
  <1>2. Init => /\ bot = [c \in Chats |-> bot[c]] /\ \A c \in Chats : bot[c] = NoBot
                /\ present = [c \in Chats |-> "unknown"]
    BY DEF Init
  <1>3. QED
    BY <1>1, <1>2 DEF PauseInv, BotsTyped, PausedIffRemoved

-------------------------------------------------------------------------------
(***************************************************************************)
(* Rows                                                                    *)
(***************************************************************************)

\* The pause that membership asks for.
Paused(c) == c \in Groups /\ present[c] = "out"

\* remember() sets it whatever the row was.
LEMMA UpsertedPause ==
  ASSUME PauseInv, NEW c \in Chats, NEW owner
  PROVE  IsBot(Upserted(c, owner)) /\ Upserted(c, owner).paused = Paused(c)
  <1> DEFINE old == bot[c]
             fresh == old.thread = 0 \/ (old.owner = NoOne /\ owner # NoOne)
             thread == IF fresh THEN old.thread + 1 ELSE old.thread
             whose == IF fresh THEN owner ELSE old.owner
  <1>1. PICK S : old \in Rows(S)
    BY DEF PauseInv, BotsTyped, IsBot
  <1>2. Upserted(c, owner) = [old EXCEPT !.thread = thread, !.owner = whose,
                                         !.paused = Paused(c)]
    BY DEF Upserted, Paused
  <1>3. Paused(c) \in BOOLEAN
    BY DEF Paused
  <1> HIDE DEF thread, whose, old
  <1>4. /\ Upserted(c, owner) \in Rows(S \cup {thread, whose})
        /\ Upserted(c, owner).paused = Paused(c)
    BY <1>1, <1>2, <1>3 DEF Rows
  <1>5. QED
    BY <1>4 DEF IsBot

\* Nor do the pending columns touch it.
LEMMA PendingKeepsPause ==
  ASSUME NEW r, IsBot(r), NEW x, NEW y
  PROVE  /\ IsBot([r EXCEPT !.pending = x, !.prompt = y])
         /\ [r EXCEPT !.pending = x, !.prompt = y].paused = r.paused
  <1>1. PICK S : r \in Rows(S)
    BY DEF IsBot
  <1>2. /\ [r EXCEPT !.pending = x, !.prompt = y] \in Rows(S \cup {x, y})
        /\ [r EXCEPT !.pending = x, !.prompt = y].paused = r.paused
    BY <1>1 DEF Rows
  <1>3. QED
    BY <1>2 DEF IsBot

LEMMA ClearedPause ==
  ASSUME NEW r, IsBot(r)
  PROVE  IsBot(Cleared(r)) /\ Cleared(r).paused = r.paused
  BY PendingKeepsPause DEF Cleared

\* A step that gives one chat a row with the right pause.
LEMMA RowStep ==
  ASSUME PauseInv, NEW c \in Chats, NEW r, IsBot(r), r.paused = Paused(c),
         bot' = [bot EXCEPT ![c] = r], present' = present
  PROVE  PauseInv'
  <1> USE DEF PauseInv, BotsTyped
  <1>1. bot'[c] = r /\ \A d \in Chats \ {c} : bot'[d] = bot[d]
    OBVIOUS
  <1>2. BotsTyped'
    BY <1>1
  <1>3. PausedIffRemoved'
    BY <1>1 DEF PausedIffRemoved, Paused
  <1>4. QED
    BY <1>2, <1>3

LEMMA SameRows ==
  ASSUME PauseInv, bot' = bot, present' = present
  PROVE  PauseInv'
  BY DEF PauseInv, BotsTyped, PausedIffRemoved

-------------------------------------------------------------------------------
(***************************************************************************)
(* The actions that write rows                                             *)
(***************************************************************************)

LEMMA PostStep ==
  ASSUME PauseInv, NEW b \in Deliveries,
         Recover(b) \/ RecoverFails(b) \/ AskAccepted(b) \/ PromptAccepted(b) \/ AskRejected(b)
  PROVE  PauseInv'
  <1> DEFINE c == ChatOf[b]
  <1>1. c \in Chats /\ present' = present
    BY DEF Chats, Recover, RecoverFails, AskAccepted, PromptAccepted, AskRejected, worldVars
  <1>2. \A owner : IsBot(Upserted(c, owner)) /\ Upserted(c, owner).paused = Paused(c)
    BY <1>1, UpsertedPause
  <1>3. CASE Recover(b)
    <2>1. bot' = [bot EXCEPT ![c] = Cleared(Upserted(c, bot[c].owner))]
      BY <1>3 DEF Recover
    <2>2. QED
      BY <1>1, <1>2, <2>1, ClearedPause, RowStep
  <1>4. CASE RecoverFails(b)
    <2>1. bot' = bot \/ bot' = [bot EXCEPT ![c] = Upserted(c, bot[c].owner)]
      BY <1>4 DEF RecoverFails
    <2>2. QED
      BY <1>1, <1>2, <2>1, RowStep, SameRows
  <1>5. CASE AskAccepted(b)
    <2>1. bot' = [bot EXCEPT ![c] = Cleared(Upserted(c, batch[b].owner))]
      BY <1>5 DEF AskAccepted
    <2>2. QED
      BY <1>1, <1>2, <2>1, ClearedPause, RowStep
  <1>6. CASE PromptAccepted(b)
    <2>1. bot' = [bot EXCEPT ![c] = Upserted(c, batch[b].owner)]
      BY <1>6 DEF PromptAccepted
    <2>2. QED
      BY <1>1, <1>2, <2>1, RowStep
  <1>7. CASE AskRejected(b)
    <2> DEFINE up == Upserted(c, batch[b].owner)
               prompt == batch[b].pc = "prompting"
               r == [up EXCEPT !.pending = b, !.prompt = prompt]
    <2>1. bot' = [bot EXCEPT ![c] = r]
      BY <1>7 DEF AskRejected
    <2>2. IsBot(up) /\ up.paused = Paused(c)
      BY <1>2
    <2> HIDE DEF up, prompt
    <2>3. IsBot(r) /\ r.paused = up.paused
      BY <2>2, PendingKeepsPause
    <2>4. QED
      BY <1>1, <2>1, <2>2, <2>3, RowStep
  <1>8. QED
    BY <1>3, <1>4, <1>5, <1>6, <1>7

LEMMA MembershipStep ==
  ASSUME PauseInv, NEW c \in Chats, SelfRemoved(c) \/ SelfAdded(c)
  PROVE  PauseInv'
  <1> USE DEF PauseInv, BotsTyped
  <1>1. IsBot(bot[c]) /\ c \in Groups
    BY DEF SelfRemoved, SelfAdded
  <1>2. PICK p \in BOOLEAN :
          /\ bot' = [bot EXCEPT ![c] = [bot[c] EXCEPT !.paused = p]]
          /\ \/ present' = [present EXCEPT ![c] = "out"] /\ (bot[c].thread # 0 => p)
             \/ present' = [present EXCEPT ![c] = "in"] /\ ~p
    <2>1. CASE SelfRemoved(c)
      <3> DEFINE p == bot[c].paused \/ bot[c].thread # 0
      <3>1. p \in BOOLEAN /\ bot' = [bot EXCEPT ![c] = [bot[c] EXCEPT !.paused = p]]
        BY <1>1, <2>1 DEF SelfRemoved, IsBot
      <3>2. QED
        BY <2>1, <3>1 DEF SelfRemoved
    <2>2. CASE SelfAdded(c)
      BY <2>2 DEF SelfAdded
    <2>3. QED
      BY <2>1, <2>2
  <1> DEFINE r == [bot[c] EXCEPT !.paused = p]
  <1>3. IsBot(r) /\ r.paused = p /\ r.thread = bot[c].thread
    <2>1. PICK S : bot[c] \in Rows(S)
      BY <1>1 DEF IsBot
    <2>2. r \in Rows(S) /\ r.paused = p /\ r.thread = bot[c].thread
      BY <2>1 DEF Rows
    <2>3. QED
      BY <2>2 DEF IsBot
  <1>4. bot'[c] = r /\ \A d \in Chats \ {c} : bot'[d] = bot[d]
    BY <1>2
  <1> HIDE DEF r
  <1>5. BotsTyped'
    BY <1>2, <1>3, <1>4
  <1>6. PausedIffRemoved'
    BY <1>2, <1>3, <1>4 DEF PausedIffRemoved
  <1>7. QED
    BY <1>5, <1>6

LEMMA NextStep ==
  ASSUME PauseInv, [Next]_vars
  PROVE  PauseInv'
  <1>1. ASSUME NEW b \in Deliveries, Process(b)
        PROVE  PauseInv'
    <2>1. CASE Start(b) \/ Resolve(b) \/ Ask(b) \/ AskFails(b)
      BY <2>1, SameRows DEF Start, Resolve, Ask, AskFails, worldVars
    <2>2. QED
      BY <1>1, <2>1, PostStep DEF Process
  <1>2. ASSUME NEW d \in Deliveries, Receive(d) \/ DispatchEnds(d)
        PROVE  PauseInv'
    BY <1>2, SameRows DEF Receive, DispatchEnds, worldVars
  <1>3. ASSUME NEW p \in Parties, Flush(p)
        PROVE  PauseInv'
    BY <1>3, SameRows DEF Flush, worldVars
  <1>4. ASSUME NEW op \in Operators, Register(op)
        PROVE  PauseInv'
    BY <1>4, SameRows DEF Register
  <1>5. CASE Crash
    BY <1>5, SameRows DEF Crash
  <1>6. CASE UNCHANGED vars
    BY <1>6, SameRows DEF vars, worldVars
  <1>7. QED
    BY <1>1, <1>2, <1>3, <1>4, <1>5, <1>6, MembershipStep DEF Next

-------------------------------------------------------------------------------
(***************************************************************************)
(* Theorem                                                                 *)
(***************************************************************************)

\* The chat_bot rows and the pause that membership asks for, along every behaviour.
THEOREM PauseInvariant == Spec => []PauseInv
  <1>1. PauseInv /\ [Next]_vars => PauseInv'
    BY NextStep
  <1>2. QED
    BY InitOK, <1>1, PTL DEF Spec

\* Whichever posts are awaited while the account is removed and added again, a
\* group's bot is paused exactly while the account is out.
THEOREM PauseFollowsMembership == Spec => []PausedIffRemoved
  <1>1. PauseInv => PausedIffRemoved
    BY DEF PauseInv
  <1>2. QED
    BY <1>1, PauseInvariant, PTL

-------------------------------------------------------------------------------
(***************************************************************************)
(* Claims and triggers                                                     *)
(***************************************************************************)

\* A batch record; of its fields only some matter here.
Batches(S) == [items : S, epoch : S, pc : S, owner : S, role : S, qualified : S,
               claims : S, mode : S, tries : S, reply : S]
IsBatch(r) == \E S : r \in Batches(S)

Here(d) == \E i \in DOMAIN arrived : arrived[i] = d

\* Somebody other than the linked phone wrote in batch b to be answered.
Triggered(b) ==
  \E d \in Items(b) : FromOf[d] # "me" /\ (ChatOf[d] \in Groups => d \in Tagged)

Unclaimed == {"none", "queued", "resolving", "recovering"}
Answering == {"greet", "respond", "pa"}

BatchOK(b) ==
  /\ IsBatch(batch[b])
  /\ batch[b].pc # "none" => b \in Items(b) /\ Here(b)
  /\ batch[b].pc \in Unclaimed => batch[b].claims = {}
  /\ batch[b].mode \in Answering => Triggered(b)
  /\ batch[b].reply # NoOne => Triggered(b)

\* What waits in a buffer has arrived and begun no batch.
BuffersOK ==
  /\ arrived \in Seq(Deliveries)
  /\ buffer = [p \in Parties |-> buffer[p]]
  /\ \A p \in Parties :
       /\ buffer[p] \in Seq(Deliveries)
       /\ \A i \in DOMAIN buffer[p] :
            /\ PartyOf[buffer[p][i]] = p /\ Here(buffer[p][i])
            /\ batch[buffer[p][i]].pc = "none"

\* Batch record r answers for claim t.
Answers(r, t) ==
  /\ t \in r.claims
  /\ r.pc \in Working \cup {"dead"} \/ (r.pc = "dispatching" /\ r.reply = t)

LogRowOK(m) ==
  row[m].status = "pending" =>
    MsgOf[row[m].token] = m /\ \E b \in Deliveries : Answers(batch[b], row[m].token)

ClaimInv ==
  /\ batch = [b \in Deliveries |-> batch[b]] /\ \A b \in Deliveries : BatchOK(b)
  /\ BuffersOK
  /\ row = [m \in Msgs |-> row[m]] /\ \A m \in Msgs : LogRowOK(m)

LEMMA ClaimInit == Init => ClaimInv
  <1> SUFFICES ASSUME Init PROVE ClaimInv
    OBVIOUS
  <1>1. IsBatch(NoBatch) /\ NoBatch.pc = "none" /\ NoBatch.claims = {}
        /\ NoBatch.mode = "none" /\ NoBatch.reply = NoOne
    <2>1. NoBatch \in Batches({<<>>, 0, "none", NoOne, FALSE, {}})
      BY DEF NoBatch, Batches
    <2>2. QED
      BY <2>1 DEF IsBatch, NoBatch
  <1> HIDE DEF NoBatch
  <1>2. \A b \in Deliveries : batch[b] = NoBatch
    BY DEF Init
  <1>3. \A b \in Deliveries : BatchOK(b)
    BY <1>1, <1>2 DEF BatchOK, Answering
  <1>4. BuffersOK
    BY DEF Init, BuffersOK
  <1>5. \A m \in Msgs : LogRowOK(m)
    BY DEF Init, LogRowOK, NoRow
  <1>6. QED
    BY <1>3, <1>4, <1>5 DEF Init, ClaimInv

\* Buffers are as before, and so are the batches that have not begun.
LEMMA BuffersKept ==
  ASSUME BuffersOK, UNCHANGED <<arrived, buffer>>,
         \A d \in Deliveries : batch[d].pc = "none" => batch'[d].pc = "none"
  PROVE  BuffersOK'
  <1>1. \A d : Here(d)' <=> Here(d)
    BY DEF Here
  <1>2. ASSUME NEW p \in Parties, NEW i \in DOMAIN buffer[p]
        PROVE  /\ PartyOf[buffer[p][i]] = p /\ Here(buffer[p][i])'
               /\ batch'[buffer[p][i]].pc = "none"
    <2>1. PICK d \in Deliveries : d = buffer[p][i]
      BY DEF BuffersOK
    <2>2. PartyOf[d] = p /\ Here(d) /\ batch[d].pc = "none"
      BY <2>1 DEF BuffersOK
    <2>3. Here(d)' /\ batch'[d].pc = "none" /\ d = buffer'[p][i]
      BY <1>1, <2>1, <2>2
    <2>4. QED
      BY <2>1, <2>2, <2>3
  <1>3. QED
    BY <1>2 DEF BuffersOK

\* A step of one batch: no other batch, no buffer, and of the log only rows that
\* are settled, that the batch claims, or whose claims it answers for as before.
LEMMA OwnStep ==
  ASSUME ClaimInv, NEW b \in Deliveries, NEW r, IsBatch(r),
         batch' = [batch EXCEPT ![b] = r], UNCHANGED <<arrived, buffer>>,
         batch[b].pc # "none", r.pc # "none", r.items = batch[b].items,
         r.pc \in Unclaimed => r.claims = {},
         r.mode \in Answering => r.mode = batch[b].mode \/ Triggered(b),
         r.reply # NoOne => r.reply = batch[b].reply \/ Triggered(b),
         row' = [m \in Msgs |-> row'[m]],
         \A m \in Msgs : row'[m].status = "pending" =>
           \/ /\ row'[m] = row[m]
              /\ Answers(batch[b], row[m].token) => Answers(r, row[m].token)
           \/ MsgOf[row'[m].token] = m /\ Answers(r, row'[m].token)
  PROVE  ClaimInv'
  <1>1. batch'[b] = r /\ \A a \in Deliveries \ {b} : batch'[a] = batch[a]
    BY DEF ClaimInv
  <1>2. \A a \in Deliveries : Items(a)' = Items(a)
    BY <1>1 DEF Items
  <1>3. \A a \in Deliveries : (Triggered(a)' <=> Triggered(a)) /\ (Here(a)' <=> Here(a))
    BY <1>2 DEF Triggered, Here
  <1>4. ASSUME NEW a \in Deliveries PROVE BatchOK(a)'
    <2>1. BatchOK(a)
      BY DEF ClaimInv
    <2>2. CASE a # b
      BY <1>1, <1>2, <1>3, <2>1, <2>2 DEF BatchOK
    <2>3. CASE a = b
      BY <1>1, <1>2, <1>3, <2>1, <2>3 DEF BatchOK
    <2>4. QED
      BY <2>2, <2>3
  <1>5. BuffersOK'
    <2>1. \A d \in Deliveries : batch[d].pc = "none" => batch'[d].pc = "none"
      BY <1>1
    <2>2. QED
      BY <2>1, BuffersKept DEF ClaimInv
  <1>6. ASSUME NEW m \in Msgs, row'[m].status = "pending"
        PROVE  /\ MsgOf[row'[m].token] = m
               /\ \E a \in Deliveries : Answers(batch'[a], row'[m].token)
    <2>1. CASE /\ row'[m] = row[m]
               /\ Answers(batch[b], row[m].token) => Answers(r, row[m].token)
      <3>1. PICK a \in Deliveries : Answers(batch[a], row[m].token)
        BY <1>6, <2>1 DEF ClaimInv, LogRowOK
      <3>2. Answers(batch'[a], row'[m].token)
        BY <1>1, <2>1, <3>1
      <3>3. QED
        BY <1>6, <2>1, <3>2 DEF ClaimInv, LogRowOK
    <2>2. QED
      BY <1>1, <1>6, <2>1
  <1>7. QED
    BY <1>4, <1>5, <1>6 DEF ClaimInv, LogRowOK, Answers

\* Fields of a batch record that the steps replace.
LEMMA PcField ==
  ASSUME NEW r, IsBatch(r), NEW x, NEW n,
         n = [r EXCEPT !.pc = x]
  PROVE  /\ IsBatch(n)
         /\ n.pc = x /\ n.items = r.items /\ n.claims = r.claims
         /\ n.mode = r.mode /\ n.reply = r.reply
  <1>1. PICK S : r \in Batches(S)
    BY DEF IsBatch
  <1>2. n \in Batches(S \cup {x})
    BY <1>1 DEF Batches
  <1>3. QED
    BY <1>1, <1>2 DEF IsBatch, Batches

LEMMA TriesField ==
  ASSUME NEW r, IsBatch(r), NEW x, NEW n,
         n = [r EXCEPT !.tries = x]
  PROVE  /\ IsBatch(n)
         /\ n.items = r.items /\ n.pc = r.pc /\ n.claims = r.claims
         /\ n.mode = r.mode /\ n.reply = r.reply
  <1>1. PICK S : r \in Batches(S)
    BY DEF IsBatch
  <1>2. n \in Batches(S \cup {x})
    BY <1>1 DEF Batches
  <1>3. QED
    BY <1>1, <1>2 DEF IsBatch, Batches

LEMMA WrittenRows ==
  ASSUME NEW rows, NEW S, NEW status, NEW m \in Msgs
  PROVE  /\ Written(rows, S, status) = [k \in Msgs |-> Written(rows, S, status)[k]]
         /\ \/ /\ Written(rows, S, status)[m].status = status
               /\ Written(rows, S, status)[m].token \in S
               /\ MsgOf[Written(rows, S, status)[m].token] = m
            \/ /\ Written(rows, S, status)[m] = rows[m]
               /\ \A d \in S : MsgOf[d] # m
  BY DEF Written

\* A terminal write leaves no row pending under a token it was for.
LEMMA SettledRows ==
  ASSUME ClaimInv, NEW X, NEW status, status # "pending",
         row' = Written(row, Held(X), status)
  PROVE  /\ row' = [m \in Msgs |-> row'[m]]
         /\ \A m \in Msgs : row'[m].status = "pending" =>
              row'[m] = row[m] /\ row[m].token \notin X
  <1>1. row' = [m \in Msgs |-> row'[m]]
    BY DEF Written
  <1>2. ASSUME NEW m \in Msgs, row'[m].status = "pending"
        PROVE  row'[m] = row[m] /\ row[m].token \notin X
    <2>1. row'[m] = row[m] /\ \A d \in Held(X) : MsgOf[d] # m
      BY <1>2, WrittenRows
    <2>2. MsgOf[row[m].token] = m
      BY <1>2, <2>1 DEF ClaimInv, LogRowOK
    <2>3. QED
      BY <2>1, <2>2 DEF Held
  <1>3. QED
    BY <1>1, <1>2

\* Every mode that answers comes from a message of the batch.
LEMMA ModeIsOwed ==
  ASSUME NEW b \in Deliveries, b \in Items(b), NEW r, ModeOf(b, r) \in Answering
  PROVE  Triggered(b)
  <1> DEFINE greeting == /\ FromOf[b] # "me" /\ ChatOf[b] \notin Groups
                         /\ r.role = "shopper" /\ FromOf[b] \notin welcomed
                         /\ Len(batch[b].items) = 1
                         /\ KindOf[b] \in {"greeting", "hello"}
             asks == \E d \in Items(b) : Asks(r, d)
             asksPA == \E d \in Items(b) : AsksPA(r, d)
  <1>1. greeting => Triggered(b)
    BY DEF Triggered
  <1>2. asks => Triggered(b)
    BY DEF Triggered, Asks
  <1>3. asksPA => Triggered(b)
    BY DEF Triggered, AsksPA
  <1>4. ASSUME ~greeting, ~asks, ~asksPA PROVE ModeOf(b, r) = "skip"
    BY <1>4 DEF ModeOf
  <1>5. QED
    BY <1>1, <1>2, <1>3, <1>4 DEF Answering

\* The claim loop, over rows some of which the recovery has settled before.
LEMMA ClaimItemsStep ==
  ASSUME ClaimInv, NEW b \in Deliveries, NEW r, IsBatch(r),
         batch[b].pc # "none", batch[b].claims = {},
         r.items = batch[b].items, r.claims = batch[b].claims, r.mode = batch[b].mode,
         r.reply = batch[b].reply,
         NEW rows, rows = [m \in Msgs |-> rows[m]],
         \A m \in Msgs : rows[m] = row[m] \/ rows[m].status # "pending",
         ClaimItems(b, r, rows), UNCHANGED <<arrived, buffer>>
  PROVE  ClaimInv'
  <1>1. PICK S \in Grants(b, rows) :
          \/ /\ S = {} /\ row' = rows
             /\ batch' = [batch EXCEPT ![b] = [r EXCEPT !.pc = "done"]]
          \/ /\ S # {} /\ row' = Written(rows, S, "failed")
             /\ batch' = [batch EXCEPT ![b] = [r EXCEPT !.pc = "done"]]
          \/ /\ S # {} /\ row' = Written(rows, S, "pending")
             /\ batch' = [batch EXCEPT ![b] = [r EXCEPT
                  !.pc = "grounding", !.claims = S, !.mode = ModeOf(b, r)]]
    BY DEF ClaimItems
  <1>2. b \in Items(b)
    BY DEF ClaimInv, BatchOK
  <1>3. \A t : ~Answers(batch[b], t)
    BY DEF Answers
  <1>4. CASE /\ row' = rows \/ row' = Written(rows, S, "failed")
             /\ batch' = [batch EXCEPT ![b] = [r EXCEPT !.pc = "done"]]
    <2>1. PICK n : n = [r EXCEPT !.pc = "done"]
      OBVIOUS
    <2>2. /\ IsBatch(n) /\ n.pc = "done" /\ n.items = batch[b].items
          /\ n.mode = batch[b].mode /\ n.reply = batch[b].reply
      BY <2>1, PcField
    <2>3. \A m \in Msgs : row'[m].status = "pending" => row'[m] = row[m]
      BY <1>4, WrittenRows
    <2>4. row' = [m \in Msgs |-> row'[m]]
      BY <1>4 DEF Written
    <2>5. QED
      BY <1>3, <1>4, <2>1, <2>2, <2>3, <2>4, OwnStep DEF Unclaimed
  <1>5. CASE /\ row' = Written(rows, S, "pending")
             /\ batch' = [batch EXCEPT ![b] = [r EXCEPT
                  !.pc = "grounding", !.claims = S, !.mode = ModeOf(b, r)]]
    <2>1. PICK mode : mode = ModeOf(b, r)
      OBVIOUS
    <2>2. PICK n : n = [r EXCEPT !.pc = "grounding", !.claims = S, !.mode = mode]
      OBVIOUS
    <2>3. /\ IsBatch(n) /\ n.pc = "grounding" /\ n.claims = S /\ n.mode = mode
          /\ n.items = batch[b].items /\ n.reply = batch[b].reply
      <3>1. IsBatch(n) /\ n.pc = "grounding" /\ n.claims = S /\ n.mode = mode
            /\ n.items = r.items /\ n.reply = r.reply
        <4>1. PICK T : r \in Batches(T)
          BY DEF IsBatch
        <4>2. n \in Batches(T \cup {"grounding", S, mode})
          BY <2>2, <4>1 DEF Batches
        <4>3. QED
          BY <2>2, <4>1, <4>2 DEF IsBatch, Batches
      <3>2. QED
        BY <3>1
    <2>4. mode \in Answering => Triggered(b)
      BY <1>2, <2>1, ModeIsOwed
    <2>5. row' = [m \in Msgs |-> row'[m]]
      BY <1>5 DEF Written
    <2>6. ASSUME NEW m \in Msgs, row'[m].status = "pending"
          PROVE  row'[m] = row[m] \/ (MsgOf[row'[m].token] = m /\ row'[m].token \in S)
      BY <1>5, <2>6, WrittenRows
    <2>7. \A t \in S : Answers(n, t)
      BY <2>3 DEF Answers, Working
    <2>8. \A m \in Msgs : row'[m].status = "pending" =>
           \/ /\ row'[m] = row[m]
              /\ Answers(batch[b], row[m].token) => Answers(n, row[m].token)
           \/ MsgOf[row'[m].token] = m /\ Answers(n, row'[m].token)
      BY <1>3, <2>6, <2>7
    <2>9. batch' = [batch EXCEPT ![b] = n]
      BY <1>5, <2>1, <2>2, Zenon
    <2>10. QED
      BY <2>3, <2>4, <2>5, <2>8, <2>9, OwnStep DEF Unclaimed
  <1>6. QED
    BY <1>1, <1>4, <1>5

LEMMA StartStep ==
  ASSUME ClaimInv, NEW b \in Deliveries, Start(b) \/ Ask(b) \/ RecoverFails(b)
  PROVE  ClaimInv'
  <1>1. UNCHANGED <<arrived, buffer, row>> /\ BatchOK(b)
    BY DEF Start, Ask, RecoverFails, inVars, ClaimInv
  <1>2. PICK x \in {"resolving", "done", "asking"} :
          /\ batch' = [batch EXCEPT ![b] = [batch[b] EXCEPT !.pc = x]]
          /\ x = "asking" => batch[b].pc = "grounding"
          /\ x # "asking" => batch[b].pc \in {"queued", "recovering"}
    BY DEF Start, Ask, RecoverFails, End
  <1>3. PICK n : n = [batch[b] EXCEPT !.pc = x]
    OBVIOUS
  <1>4. /\ IsBatch(n) /\ n.pc = x /\ n.items = batch[b].items /\ n.claims = batch[b].claims
        /\ n.mode = batch[b].mode /\ n.reply = batch[b].reply
    BY <1>1, <1>3, PcField DEF BatchOK
  <1>5. \A t : Answers(batch[b], t) => Answers(n, t)
    BY <1>1, <1>2, <1>4 DEF Answers, BatchOK, Working, Unclaimed
  <1>6. row' = [m \in Msgs |-> row'[m]]
    BY <1>1 DEF ClaimInv
  <1>7. n.pc \in Unclaimed => n.claims = {}
    BY <1>1, <1>2, <1>4 DEF BatchOK, Unclaimed
  <1>8. QED
    BY <1>1, <1>2, <1>3, <1>4, <1>5, <1>6, <1>7, OwnStep

LEMMA ResolveStep ==
  ASSUME ClaimInv, NEW b \in Deliveries, Resolve(b)
  PROVE  ClaimInv'
  <1>1. /\ UNCHANGED <<arrived, buffer>> /\ BatchOK(b)
        /\ batch[b].pc = "resolving" /\ batch[b].claims = {}
    BY DEF Resolve, inVars, ClaimInv, BatchOK, Unclaimed
  <1>2. \A t : ~Answers(batch[b], t)
    BY <1>1 DEF Answers
  <1>3. CASE End(b) /\ UNCHANGED row
    <2>1. PICK n : n = [batch[b] EXCEPT !.pc = "done"]
      OBVIOUS
    <2>2. /\ IsBatch(n) /\ n.pc = "done" /\ n.items = batch[b].items
          /\ n.mode = batch[b].mode /\ n.reply = batch[b].reply
      BY <1>1, <2>1, PcField DEF BatchOK
    <2>3. batch' = [batch EXCEPT ![b] = n] /\ row' = [m \in Msgs |-> row'[m]]
      BY <1>3, <2>1 DEF End, ClaimInv
    <2>4. QED
      BY <1>1, <1>2, <1>3, <2>2, <2>3, OwnStep DEF Unclaimed
  <1>4. ASSUME NEW r, IsBatch(r), r.items = batch[b].items, r.claims = batch[b].claims,
               r.mode = batch[b].mode, r.reply = batch[b].reply,
               \/ /\ batch' = [batch EXCEPT ![b] = [r EXCEPT !.pc = "recovering"]]
                  /\ UNCHANGED row
               \/ ClaimItems(b, r, row)
        PROVE  ClaimInv'
    <2>1. CASE ClaimItems(b, r, row)
      BY <1>1, <1>4, <2>1, ClaimItemsStep DEF ClaimInv
    <2>2. CASE /\ batch' = [batch EXCEPT ![b] = [r EXCEPT !.pc = "recovering"]]
               /\ UNCHANGED row
      <3>1. PICK n : n = [r EXCEPT !.pc = "recovering"]
        OBVIOUS
      <3>2. /\ IsBatch(n) /\ n.pc = "recovering" /\ n.items = batch[b].items
            /\ n.claims = {} /\ n.mode = batch[b].mode /\ n.reply = batch[b].reply
        BY <1>1, <1>4, <3>1, PcField
      <3>3. batch' = [batch EXCEPT ![b] = n] /\ row' = [m \in Msgs |-> row'[m]]
        BY <2>2, <3>1 DEF ClaimInv
      <3>4. QED
        BY <1>1, <1>2, <2>2, <3>2, <3>3, OwnStep
    <2>3. QED
      BY <1>4, <2>1, <2>2
  <1>5. CASE ~(End(b) /\ UNCHANGED row)
    <2> DEFINE c == ChatOf[b]
               owner(d) == IF bot[c].owner # NoOne THEN bot[c].owner ELSE d
               qualified(d) == c \in Groups /\ d # NoOne
               r(d) == [batch[b] EXCEPT !.owner = owner(d), !.qualified = qualified(d),
                                        !.role = RoleOf(b, owner(d), qualified(d))]
    <2>1. PICK d : \/ /\ batch' = [batch EXCEPT ![b] = [r(d) EXCEPT !.pc = "recovering"]]
                      /\ UNCHANGED row
                   \/ ClaimItems(b, r(d), row)
      BY <1>5, Zenon DEF Resolve
    <2>2. PICK o, q, role, n :
            /\ o = owner(d) /\ q = qualified(d) /\ role = RoleOf(b, o, q)
            /\ n = r(d) /\ n = [batch[b] EXCEPT !.owner = o, !.qualified = q, !.role = role]
      BY Zenon
    <2> HIDE DEF r
    <2>3. \/ /\ batch' = [batch EXCEPT ![b] = [n EXCEPT !.pc = "recovering"]]
             /\ UNCHANGED row
          \/ ClaimItems(b, n, row)
      BY <2>1, <2>2, Zenon
    <2>4. n = [batch[b] EXCEPT !.owner = o, !.qualified = q, !.role = role]
      BY <2>2, Zenon
    <2>5. /\ IsBatch(n) /\ n.items = batch[b].items /\ n.claims = batch[b].claims
          /\ n.mode = batch[b].mode /\ n.reply = batch[b].reply
      <3>1. PICK T : batch[b] \in Batches(T)
        BY <1>1 DEF BatchOK, IsBatch
      <3>2. n \in Batches(T \cup {o, q, role})
        BY <2>4, <3>1 DEF Batches
      <3>3. QED
        BY <2>4, <3>1, <3>2 DEF IsBatch, Batches
    <2>6. QED
      BY <1>4, <2>3, <2>5, Zenon
  <1>6. QED
    BY <1>3, <1>5

LEMMA RecoverStep ==
  ASSUME ClaimInv, NEW b \in Deliveries, Recover(b)
  PROVE  ClaimInv'
  <1> DEFINE m0 == MsgOf[bot[ChatOf[b]].pending]
  <1>1. /\ UNCHANGED <<arrived, buffer>> /\ BatchOK(b)
        /\ batch[b].pc = "recovering" /\ batch[b].claims = {}
    BY DEF Recover, inVars, ClaimInv, BatchOK, Unclaimed
  <1>2. PICK rows :
          /\ rows = row \/ rows = [row EXCEPT ![m0] = [status |-> "sent", token |-> NoOne]]
          /\ ClaimItems(b, batch[b], rows)
    BY DEF Recover
  <1> HIDE DEF m0
  <1>3. rows = [m \in Msgs |-> rows[m]]
    BY <1>2 DEF ClaimInv
  <1>4. \A m \in Msgs : rows[m] = row[m] \/ rows[m].status # "pending"
    BY <1>2 DEF ClaimInv
  <1>5. QED
    BY <1>1, <1>2, <1>3, <1>4, ClaimItemsStep DEF BatchOK

\* A batch that has its claims and settles them: those it does not settle now it
\* still answers for.
LEMMA SettleStep ==
  ASSUME ClaimInv, NEW b \in Deliveries, NEW n, IsBatch(n), NEW X, NEW status,
         batch[b].pc # "none", n.pc # "none", n.pc \notin Unclaimed,
         n.items = batch[b].items, n.mode = batch[b].mode,
         n.reply # NoOne => n.reply = batch[b].reply \/ batch[b].mode \in Answering,
         status # "pending",
         \A t : Answers(batch[b], t) => t \in X \/ Answers(n, t),
         row' = Written(row, Held(X), status),
         batch' = [batch EXCEPT ![b] = n], UNCHANGED <<arrived, buffer>>
  PROVE  ClaimInv'
  <1>1. BatchOK(b)
    BY DEF ClaimInv
  <1>2. /\ row' = [m \in Msgs |-> row'[m]]
        /\ \A m \in Msgs : row'[m].status = "pending" =>
             row'[m] = row[m] /\ row[m].token \notin X
    BY SettledRows
  <1>3. /\ n.pc \in Unclaimed => n.claims = {}
        /\ n.mode \in Answering => n.mode = batch[b].mode \/ Triggered(b)
        /\ n.reply # NoOne => n.reply = batch[b].reply \/ Triggered(b)
    BY <1>1 DEF BatchOK
  <1>4. \A m \in Msgs : row'[m].status = "pending" =>
           \/ /\ row'[m] = row[m]
              /\ Answers(batch[b], row[m].token) => Answers(n, row[m].token)
           \/ MsgOf[row'[m].token] = m /\ Answers(n, row'[m].token)
    BY <1>2
  <1>5. QED
    BY <1>2, <1>3, <1>4, OwnStep

LEMMA ConcludeStep ==
  ASSUME ClaimInv, NEW b \in Deliveries, batch[b].pc \in {"asking", "prompting"},
         Conclude(b), UNCHANGED <<arrived, buffer>>
  PROVE  ClaimInv'
  <1>1. BatchOK(b)
    BY DEF ClaimInv
  <1>2. CASE /\ row' = Written(row, Held(batch[b].claims), "sent")
             /\ batch' = [batch EXCEPT ![b].pc = "done"]
    <2>1. PICK n : n = [batch[b] EXCEPT !.pc = "done"]
      OBVIOUS
    <2>2. /\ IsBatch(n) /\ n.pc = "done" /\ n.items = batch[b].items
          /\ n.mode = batch[b].mode /\ n.reply = batch[b].reply
      BY <1>1, <2>1, PcField DEF BatchOK
    <2>3. QED
      BY <1>1, <1>2, <2>1, <2>2, SettleStep DEF Answers, Unclaimed
  <1>3. CASE /\ batch[b].mode \in Answering
             /\ row' = Written(row, Held(batch[b].claims \ {ReplyTo(b)}), "sent")
             /\ batch' = [batch EXCEPT ![b].pc = "dispatching", ![b].reply = ReplyTo(b)]
    <2>1. PICK reply, n : /\ reply = ReplyTo(b)
                          /\ n = [batch[b] EXCEPT !.pc = "dispatching", !.reply = reply]
      OBVIOUS
    <2>2. batch' = [batch EXCEPT ![b] = n]
      BY <1>3, <2>1, Zenon
    <2>3. /\ IsBatch(n) /\ n.pc = "dispatching" /\ n.items = batch[b].items
          /\ n.claims = batch[b].claims /\ n.mode = batch[b].mode /\ n.reply = reply
      <3>1. PICK T : batch[b] \in Batches(T)
        BY <1>1 DEF BatchOK, IsBatch
      <3>2. n \in Batches(T \cup {"dispatching", reply})
        BY <2>1, <3>1 DEF Batches
      <3>3. IsBatch(n)
        BY <3>2 DEF IsBatch
      <3>4. /\ n.pc = "dispatching" /\ n.items = batch[b].items /\ n.claims = batch[b].claims
            /\ n.mode = batch[b].mode /\ n.reply = reply
        BY <2>1, <3>1 DEF Batches
      <3>5. QED
        BY <3>3, <3>4
    <2>4. PICK X : X = batch[b].claims \ {reply}
      OBVIOUS
    <2>5. \A t : Answers(batch[b], t) => t \in X \/ Answers(n, t)
      BY <2>3, <2>4 DEF Answers
    <2>6. row' = Written(row, Held(X), "sent")
      BY <1>3, <2>1, <2>4, Zenon
    <2>7. n.pc # "none" /\ n.pc \notin Unclaimed /\ batch[b].pc # "none"
      BY <2>3 DEF Unclaimed
    <2>8. batch[b].mode \in Answering
      BY <1>3, Zenon
    <2>9. QED
      BY <2>2, <2>3, <2>5, <2>6, <2>7, <2>8, SettleStep
  <1>4. QED
    BY <1>2, <1>3, Zenon DEF Conclude, Answering

LEMMA AbandonStep ==
  ASSUME ClaimInv, NEW b \in Deliveries, batch[b].pc \in {"asking", "prompting"},
         Abandon(b), UNCHANGED <<arrived, buffer>>
  PROVE  ClaimInv'
  <1>1. BatchOK(b)
    BY DEF ClaimInv
  <1>2. PICK n : n = [batch[b] EXCEPT !.pc = "done"]
    OBVIOUS
  <1>3. /\ IsBatch(n) /\ n.pc = "done" /\ n.items = batch[b].items
        /\ n.mode = batch[b].mode /\ n.reply = batch[b].reply
    BY <1>1, <1>2, PcField DEF BatchOK
  <1>4. /\ batch' = [batch EXCEPT ![b] = n]
        /\ row' = Written(row, Held(batch[b].claims), "failed")
    BY <1>2 DEF Abandon, End
  <1>5. QED
    BY <1>1, <1>3, <1>4, SettleStep DEF Answers, Unclaimed

LEMMA AskStep ==
  ASSUME ClaimInv, NEW b \in Deliveries,
         AskAccepted(b) \/ PromptAccepted(b) \/ AskRejected(b) \/ AskFails(b)
  PROVE  ClaimInv'
  <1>1. /\ UNCHANGED <<arrived, buffer>> /\ batch[b].pc \in {"asking", "prompting"}
        /\ BatchOK(b)
    BY DEF AskAccepted, PromptAccepted, AskRejected, AskFails, inVars, ClaimInv
  <1>2. \/ Conclude(b) \/ Abandon(b)
        \/ batch' = [batch EXCEPT ![b].pc = "prompting"] /\ UNCHANGED row
        \/ batch' = [batch EXCEPT ![b].tries = @ + 1] /\ UNCHANGED row
    BY DEF AskAccepted, PromptAccepted, AskRejected, AskFails
  <1>3. ASSUME NEW n, IsBatch(n), batch' = [batch EXCEPT ![b] = n], UNCHANGED row,
               n.pc \in {"asking", "prompting"}, n.items = batch[b].items,
               n.claims = batch[b].claims, n.mode = batch[b].mode, n.reply = batch[b].reply
        PROVE  ClaimInv'
    <2>1. row' = [m \in Msgs |-> row'[m]]
      BY <1>3 DEF ClaimInv
    <2>2. \A t : Answers(batch[b], t) => Answers(n, t)
      BY <1>3 DEF Answers, Working
    <2>3. QED
      BY <1>1, <1>3, <2>1, <2>2, OwnStep DEF Unclaimed
  <1>4. CASE batch' = [batch EXCEPT ![b].pc = "prompting"] /\ UNCHANGED row
    <2>1. PICK n : n = [batch[b] EXCEPT !.pc = "prompting"]
      OBVIOUS
    <2>2. /\ IsBatch(n) /\ n.pc = "prompting" /\ n.items = batch[b].items
          /\ n.claims = batch[b].claims /\ n.mode = batch[b].mode
          /\ n.reply = batch[b].reply
      BY <1>1, <2>1, PcField DEF BatchOK
    <2>3. QED
      BY <1>3, <1>4, <2>1, <2>2
  <1>5. CASE batch' = [batch EXCEPT ![b].tries = @ + 1] /\ UNCHANGED row
    <2>1. PICK x, n : x = batch[b].tries + 1 /\ n = [batch[b] EXCEPT !.tries = x]
      OBVIOUS
    <2>2. IsBatch(n) /\ n.pc = batch[b].pc /\ n.items = batch[b].items
          /\ n.claims = batch[b].claims /\ n.mode = batch[b].mode
          /\ n.reply = batch[b].reply
      BY <1>1, <2>1, TriesField DEF BatchOK
    <2>3. QED
      BY <1>1, <1>3, <1>5, <2>1, <2>2
  <1>6. QED
    BY <1>1, <1>2, <1>4, <1>5, ConcludeStep, AbandonStep

LEMMA DispatchStep ==
  ASSUME ClaimInv, NEW b \in Deliveries, DispatchEnds(b)
  PROVE  ClaimInv'
  <1>1. /\ UNCHANGED <<arrived, buffer>> /\ batch[b].pc = "dispatching"
        /\ BatchOK(b)
    BY DEF DispatchEnds, inVars, ClaimInv
  <1>2. PICK n : n = [batch[b] EXCEPT !.pc = "done"]
    OBVIOUS
  <1>3. /\ IsBatch(n) /\ n.pc = "done" /\ n.items = batch[b].items
        /\ n.mode = batch[b].mode /\ n.reply = batch[b].reply
    BY <1>1, <1>2, PcField DEF BatchOK
  <1>4. PICK status \in {"sent", "failed"} : row' = Written(row, Held({batch[b].reply}), status)
    BY DEF DispatchEnds
  <1>5. \A t : Answers(batch[b], t) => t \in {batch[b].reply}
    BY <1>1 DEF Answers, Working
  <1>6. batch' = [batch EXCEPT ![b] = n]
    BY <1>2 DEF DispatchEnds
  <1>7. QED
    BY <1>1, <1>3, <1>4, <1>5, <1>6, SettleStep DEF Unclaimed

LEMMA ReceiveStep ==
  ASSUME ClaimInv, NEW d \in Deliveries, Receive(d)
  PROVE  ClaimInv'
  <1> DEFINE p == PartyOf[d]
  <1>1. /\ arrived \in Seq(Deliveries) /\ ~Here(d)
        /\ arrived' = Append(arrived, d)
        /\ buffer' = [buffer EXCEPT ![p] = Append(buffer[p], d)]
        /\ UNCHANGED <<batch, row>> /\ p \in Parties /\ buffer[p] \in Seq(Deliveries)
    BY DEF Receive, ClaimInv, BuffersOK, Here, Parties
  <1>2. batch[d].pc = "none"
    BY <1>1 DEF ClaimInv, BatchOK
  <1>3. arrived' \in Seq(Deliveries) /\ Here(d)' /\ \A e \in Deliveries : Here(e) => Here(e)'
    BY <1>1 DEF Here
  <1>4. \A b \in Deliveries : BatchOK(b)'
    BY <1>1, <1>3 DEF ClaimInv, BatchOK, Triggered, Items
  <1>5. ASSUME NEW q \in Parties
        PROVE  /\ buffer'[q] \in Seq(Deliveries)
               /\ \A i \in DOMAIN buffer'[q] :
                    /\ PartyOf[buffer'[q][i]] = q /\ Here(buffer[q][i])'
                    /\ batch'[buffer'[q][i]].pc = "none"
    <2>1. buffer[q] \in Seq(Deliveries)
      BY DEF ClaimInv, BuffersOK
    <2>2. buffer'[q] = IF q = p THEN Append(buffer[q], d) ELSE buffer[q]
      BY <1>1 DEF ClaimInv, BuffersOK
    <2>3. ASSUME NEW i \in DOMAIN buffer'[q]
          PROVE  /\ PartyOf[buffer'[q][i]] = q /\ Here(buffer[q][i])'
                 /\ batch'[buffer'[q][i]].pc = "none"
      <3>1. CASE i \in DOMAIN buffer[q]
        <4>1. PICK e \in Deliveries : e = buffer[q][i] /\ e = buffer'[q][i]
          BY <2>1, <2>2, <3>1
        <4>2. PartyOf[e] = q /\ Here(e) /\ batch[e].pc = "none"
          <5>1. PartyOf[buffer[q][i]] = q /\ Here(buffer[q][i])
                /\ batch[buffer[q][i]].pc = "none"
            BY <3>1 DEF ClaimInv, BuffersOK
          <5>2. QED
            BY <4>1, <5>1
        <4>3. Here(e)'
          BY <1>3, <4>2
        <4>4. QED
          BY <1>1, <4>1, <4>2, <4>3
      <3>2. CASE i \notin DOMAIN buffer[q]
        <4>1. q = p /\ buffer'[q][i] = d
          BY <2>1, <2>2, <2>3, <3>2
        <4>2. QED
          BY <1>1, <1>2, <1>3, <4>1
      <3>3. QED
        BY <3>1, <3>2
    <2>4. QED
      BY <2>1, <2>2, <2>3
  <1>6. BuffersOK'
    BY <1>1, <1>3, <1>5 DEF BuffersOK, ClaimInv
  <1>7. QED
    BY <1>1, <1>4, <1>6 DEF ClaimInv, LogRowOK

LEMMA FlushStep ==
  ASSUME ClaimInv, NEW p \in Parties, Flush(p)
  PROVE  ClaimInv'
  <1>1. PICK b : b = Head(buffer[p])
    OBVIOUS
  <1>2. buffer[p] \in Seq(Deliveries) /\ buffer[p] # <<>>
    BY DEF Flush, ClaimInv, BuffersOK
  <1>3. b \in Deliveries /\ 1 \in DOMAIN buffer[p] /\ b = buffer[p][1]
    BY <1>1, <1>2
  <1>4. PartyOf[b] = p /\ Here(b) /\ batch[b].pc = "none" /\ b \in ToSet(buffer[p])
    <2>1. PartyOf[buffer[p][1]] = p /\ Here(buffer[p][1]) /\ batch[buffer[p][1]].pc = "none"
      BY <1>3 DEF ClaimInv, BuffersOK
    <2>2. QED
      BY <1>3, <2>1 DEF ToSet
  <1>5. PICK n : n = [NoBatch EXCEPT
          !.items = buffer[p], !.epoch = heldEpoch[p], !.pc = "queued"]
    OBVIOUS
  <1>6. /\ batch' = [batch EXCEPT ![b] = n] /\ buffer' = [buffer EXCEPT ![p] = <<>>]
        /\ UNCHANGED <<arrived, row>>
    BY <1>1, <1>5, Zenon DEF Flush
  <1>7. /\ IsBatch(n) /\ n.items = buffer[p] /\ n.pc = "queued" /\ n.claims = {}
        /\ n.mode = "none" /\ n.reply = NoOne
    <2>1. n \in Batches({<<>>, 0, "none", NoOne, FALSE, {}, buffer[p], heldEpoch[p], "queued"})
      BY <1>5 DEF NoBatch, Batches
    <2>2. QED
      BY <1>5, <2>1 DEF IsBatch, NoBatch
  <1>8. batch'[b] = n /\ \A a \in Deliveries \ {b} : batch'[a] = batch[a]
    BY <1>3, <1>6 DEF ClaimInv
  <1>9. ASSUME NEW a \in Deliveries PROVE BatchOK(a)'
    <2>1. BatchOK(a) /\ (Here(a)' <=> Here(a))
      BY <1>6 DEF ClaimInv, Here
    <2>2. CASE a = b
      BY <1>4, <1>7, <1>8, <2>1, <2>2 DEF BatchOK, Items, Answering
    <2>3. CASE a # b
      BY <1>8, <2>1, <2>3 DEF BatchOK, Triggered, Items
    <2>4. QED
      BY <2>2, <2>3
  <1>10. ASSUME NEW q \in Parties
         PROVE  /\ buffer'[q] \in Seq(Deliveries)
                /\ \A i \in DOMAIN buffer'[q] :
                     /\ PartyOf[buffer'[q][i]] = q /\ Here(buffer[q][i])'
                     /\ batch'[buffer'[q][i]].pc = "none"
    <2>1. CASE q = p
      BY <1>6, <2>1 DEF ClaimInv, BuffersOK
    <2>2. CASE q # p
      <3>1. buffer'[q] = buffer[q] /\ buffer[q] \in Seq(Deliveries)
        BY <1>6, <2>2 DEF ClaimInv, BuffersOK
      <3>2. ASSUME NEW i \in DOMAIN buffer'[q]
            PROVE  /\ PartyOf[buffer'[q][i]] = q /\ Here(buffer[q][i])'
                   /\ batch'[buffer'[q][i]].pc = "none"
        <4>1. PICK e \in Deliveries : e = buffer[q][i] /\ e = buffer'[q][i]
          BY <3>1, <3>2
        <4>2. PartyOf[e] = q /\ Here(e) /\ batch[e].pc = "none"
          <5>1. PartyOf[buffer[q][i]] = q /\ Here(buffer[q][i])
                /\ batch[buffer[q][i]].pc = "none"
            BY <3>1, <3>2 DEF ClaimInv, BuffersOK
          <5>2. QED
            BY <4>1, <5>1
        <4>3. Here(e)' /\ e # b
          BY <1>4, <1>6, <2>2, <4>2 DEF Here
        <4>4. QED
          BY <1>8, <4>1, <4>2, <4>3
      <3>3. QED
        BY <3>1, <3>2
    <2>3. QED
      BY <2>1, <2>2
  <1>11. BuffersOK'
    BY <1>6, <1>10 DEF BuffersOK, ClaimInv
  <1>12. ASSUME NEW m \in Msgs PROVE LogRowOK(m)'
    <2>1. \A t : ~Answers(batch[b], t)
      BY <1>4 DEF Answers, Working
    <2>2. ASSUME row[m].status = "pending"
          PROVE  /\ MsgOf[row[m].token] = m
                 /\ \E a \in Deliveries : Answers(batch'[a], row[m].token)
      <3>1. PICK a \in Deliveries : Answers(batch[a], row[m].token)
        BY <2>2 DEF ClaimInv, LogRowOK
      <3>2. batch'[a] = batch[a]
        BY <1>8, <2>1, <3>1
      <3>3. Answers(batch'[a], row[m].token)
        BY <3>1, <3>2
      <3>4. QED
        BY <2>2, <3>3 DEF ClaimInv, LogRowOK
    <2>3. QED
      BY <1>6, <2>2 DEF LogRowOK, Answers
  <1>13. QED
    BY <1>6, <1>9, <1>11, <1>12 DEF ClaimInv

LEMMA Died ==
  ASSUME ClaimInv, Crash, NEW b \in Deliveries
  PROVE  /\ IsBatch(batch'[b]) /\ batch'[b].items = batch[b].items
         /\ batch'[b].claims = batch[b].claims /\ batch'[b].mode = batch[b].mode
         /\ batch'[b].reply = batch[b].reply
         /\ batch'[b].pc = IF batch[b].pc \in {"none", "done"} THEN batch[b].pc
                           ELSE "dead"
  <1>1. PICK x, n : /\ x = (IF batch[b].pc \in {"none", "done"} THEN batch[b].pc
                            ELSE "dead")
                    /\ n = [batch[b] EXCEPT !.pc = x]
    OBVIOUS
  <1>2. batch'[b] = n
    BY <1>1, Zenon DEF Crash
  <1>3. IsBatch(batch[b])
    BY DEF ClaimInv, BatchOK
  <1>4. /\ IsBatch(n) /\ n.pc = x /\ n.items = batch[b].items
        /\ n.claims = batch[b].claims /\ n.mode = batch[b].mode
        /\ n.reply = batch[b].reply
    BY <1>1, <1>3, PcField
  <1>5. QED
    BY <1>1, <1>2, <1>4, Zenon

LEMMA CrashStep ==
  ASSUME ClaimInv, Crash
  PROVE  ClaimInv'
  <1>1. /\ batch' = [b \in Deliveries |-> batch'[b]]
        /\ \A b \in Deliveries : batch'[b] =
             [batch[b] EXCEPT !.pc = IF @ \in {"none", "done"} THEN @ ELSE "dead"]
        /\ buffer' = [p \in Parties |-> <<>>] /\ UNCHANGED <<arrived, row>>
    BY DEF Crash
  <1>2. ASSUME NEW b \in Deliveries
        PROVE  /\ IsBatch(batch'[b]) /\ batch'[b].items = batch[b].items
               /\ batch'[b].claims = batch[b].claims /\ batch'[b].mode = batch[b].mode
               /\ batch'[b].reply = batch[b].reply
               /\ batch'[b].pc = IF batch[b].pc \in {"none", "done"} THEN batch[b].pc
                                 ELSE "dead"
    BY Died
  <1>3. ASSUME NEW b \in Deliveries PROVE BatchOK(b)'
    <2>1. BatchOK(b)
      BY DEF ClaimInv
    <2>2. Items(b)' = Items(b) /\ (Here(b)' <=> Here(b))
      BY <1>1, <1>2 DEF Items, Here
    <2>3. QED
      BY <1>2, <2>1, <2>2 DEF BatchOK, Triggered, Unclaimed
  <1>4. BuffersOK'
    BY <1>1 DEF ClaimInv, BuffersOK
  <1>5. ASSUME NEW m \in Msgs PROVE LogRowOK(m)'
    <2>1. \A b \in Deliveries : \A t : Answers(batch[b], t) => Answers(batch'[b], t)
      BY <1>2 DEF Answers, Working
    <2>2. QED
      BY <1>1, <2>1 DEF ClaimInv, LogRowOK, Answers
  <1>6. QED
    BY <1>1, <1>3, <1>4, <1>5 DEF ClaimInv

LEMMA ClaimStep ==
  ASSUME ClaimInv, [Next]_vars
  PROVE  ClaimInv'
  <1>1. ASSUME UNCHANGED <<inVars, batch, row>> PROVE ClaimInv'
    <2>1. ASSUME NEW b \in Deliveries PROVE BatchOK(b)'
      BY <1>1 DEF inVars, ClaimInv, BatchOK, Triggered, Items, Here
    <2>2. BuffersOK'
      BY <1>1, BuffersKept DEF inVars, ClaimInv
    <2>3. ASSUME NEW m \in Msgs PROVE LogRowOK(m)'
      BY <1>1 DEF ClaimInv, LogRowOK, Answers
    <2>4. QED
      BY <1>1, <2>1, <2>2, <2>3 DEF ClaimInv
  <1>2. ASSUME NEW c \in Chats, SelfRemoved(c) \/ SelfAdded(c)
        PROVE  ClaimInv'
    BY <1>1, <1>2 DEF SelfRemoved, SelfAdded
  <1>3. ASSUME NEW op \in Operators, Register(op)
        PROVE  ClaimInv'
    BY <1>1, <1>3 DEF Register
  <1>4. CASE UNCHANGED vars
    BY <1>1, <1>4 DEF vars
  <1>5. ASSUME NEW b \in Deliveries, Process(b)
        PROVE  ClaimInv'
    BY <1>5, StartStep, ResolveStep, RecoverStep, AskStep DEF Process
  <1>6. QED
    BY <1>2, <1>3, <1>4, <1>5, ReceiveStep, DispatchStep, FlushStep, CrashStep DEF Next

\* Buffers, batches and the rows of the outbound log, along every behaviour.
THEOREM ClaimInvariant == Spec => []ClaimInv
  <1>1. ClaimInv /\ [Next]_vars => ClaimInv'
    BY ClaimStep
  <1>2. QED
    BY ClaimInit, <1>1, PTL DEF Spec

\* Through failures, stale claims taken over, crashes and redeliveries, a pending
\* row is never left without a batch that will settle it or died with it.
THEOREM ClaimsAreAccounted == Spec => []ClaimsAccounted
  <1>1. ClaimInv => ClaimsAccounted
    BY DEF ClaimInv, LogRowOK, Answers, ClaimsAccounted
  <1>2. QED
    BY <1>1, ClaimInvariant, PTL

\* However registrations, owners and runs in flight change between the awaits of a
\* batch, only one that somebody else tagged is answered.
THEOREM OnlyTriggersAlways == Spec => []OnlyTriggersAreAnswered
  <1>1. ClaimInv => OnlyTriggersAreAnswered
    BY DEF ClaimInv, BatchOK, Triggered, OnlyTriggersAreAnswered
  <1>2. QED
    BY <1>1, ClaimInvariant, PTL

-------------------------------------------------------------------------------
(***************************************************************************)
(* Chains                                                                  *)
(***************************************************************************)

AtWork(b) == batch[b].pc \in Working \cup {"queued"}

\* A chain holds batches of its chat, once each.  Only its head has begun.
ChainOK(c) ==
  /\ chain[c] \in Seq(Deliveries)
  /\ \A i \in DOMAIN chain[c] :
       /\ ChatOf[chain[c][i]] = c /\ AtWork(chain[c][i])
       /\ i > 1 => batch[chain[c][i]].pc = "queued"
  /\ \A i, j \in DOMAIN chain[c] : chain[c][i] = chain[c][j] => i = j

ChainInv ==
  /\ chain = [c \in Chats |-> chain[c]] /\ \A c \in Chats : ChainOK(c)
  /\ \A b \in Deliveries : AtWork(b) =>
       \E i \in DOMAIN chain[ChatOf[b]] : chain[ChatOf[b]][i] = b

\* Batch b goes to a state of S with its items; the others stay as they are.
Moved(b, S) ==
  /\ \A d \in Deliveries \ {b} : batch'[d] = batch[d]
  /\ batch'[b].items = batch[b].items /\ batch'[b].pc \in S

\* One batch of a chat is at work at a time: the head of its chain.
LEMMA HeadAtWork ==
  ASSUME ChainInv, NEW b \in Deliveries, batch[b].pc \in Working
  PROVE  Turn(b)
  <1>1. PICK s : s = chain[ChatOf[b]]
    OBVIOUS
  <1>2. PICK i \in DOMAIN s : s[i] = b
    BY <1>1 DEF ChainInv, AtWork
  <1>3. s \in Seq(Deliveries) /\ ~(i > 1)
    <2>1. ChainOK(ChatOf[b]) /\ batch[b].pc # "queued"
      BY DEF ChainInv, Chats, Working
    <2>2. QED
      BY <1>1, <1>2, <2>1 DEF ChainOK
  <1>4. s # <<>> /\ Head(s) = b
    BY <1>2, <1>3
  <1>5. QED
    BY <1>1, <1>4 DEF Turn

\* A chain stays as it was, and so do its batches.
LEMMA SameChain ==
  ASSUME NEW c \in Chats, ChainOK(c), chain'[c] = chain[c],
         \A d \in Deliveries : ChatOf[d] = c /\ AtWork(d) => batch'[d].pc = batch[d].pc
  PROVE  ChainOK(c)'
  <1>1. PICK s : s = chain[c] /\ s = chain'[c]
    OBVIOUS
  <1>2. s \in Seq(Deliveries) /\ \A i, j \in DOMAIN s : s[i] = s[j] => i = j
    BY <1>1 DEF ChainOK
  <1>3. ASSUME NEW i \in DOMAIN s
        PROVE  /\ ChatOf[s[i]] = c /\ AtWork(s[i])'
               /\ i > 1 => batch'[s[i]].pc = "queued"
    <2>1. PICK d \in Deliveries : d = s[i]
      BY <1>2
    <2>2. ChatOf[d] = c /\ AtWork(d) /\ (i > 1 => batch[d].pc = "queued")
      BY <1>1, <2>1 DEF ChainOK
    <2>3. QED
      BY <2>1, <2>2 DEF AtWork
  <1>4. QED
    BY <1>1, <1>2, <1>3 DEF ChainOK

\* The head goes on, or leaves to the next.
LEMMA HeadStep ==
  ASSUME ChainInv, NEW b \in Deliveries, Turn(b), NEW S, Moved(b, S),
         \/ UNCHANGED chain /\ S \subseteq Working
         \/ LeaveChain(b) /\ S \cap (Working \cup {"queued"}) = {}
  PROVE  ChainInv'
  <1> DEFINE k == ChatOf[b]
  <1>1. k \in Chats /\ ChainOK(k)
    BY DEF Chats, ChainInv
  <1>2. PICK s \in Seq(Deliveries) : s = chain[k]
    BY <1>1 DEF ChainOK
  <1>3. 1 \in DOMAIN s /\ s[1] = b
    BY <1>2 DEF Turn
  <1>4. /\ chain' = [c \in Chats |-> chain'[c]]
        /\ \A c \in Chats \ {k} : chain'[c] = chain[c]
    BY DEF ChainInv, LeaveChain
  <1>5. ASSUME NEW i \in DOMAIN s
        PROVE  /\ s[i] \in Deliveries /\ ChatOf[s[i]] = k
               /\ i > 1 => s[i] # b /\ batch'[s[i]].pc = "queued"
    <2>1. PICK d \in Deliveries : d = s[i]
      BY <1>2
    <2>2. ChatOf[d] = k /\ (i > 1 => d # b /\ batch[d].pc = "queued")
      BY <1>1, <1>2, <1>3, <2>1 DEF ChainOK
    <2>3. QED
      BY <2>1, <2>2 DEF Moved
  <1>6. ASSUME NEW i \in DOMAIN s, NEW j \in DOMAIN s, s[i] = s[j] PROVE i = j
    BY <1>1, <1>2, <1>6 DEF ChainOK
  <1>7. ASSUME NEW c \in Chats PROVE ChainOK(c)'
    <2>1. CASE c # k
      BY <1>4, <2>1, SameChain DEF ChainInv, Moved
    <2>2. CASE c = k /\ UNCHANGED chain /\ S \subseteq Working
      <3>1. AtWork(b)'
        BY <2>2 DEF Moved, AtWork
      <3>2. \A i \in DOMAIN s : i > 1 \/ i = 1
        BY <1>2
      <3>3. \A i \in DOMAIN s : AtWork(s[i])'
        BY <1>3, <1>5, <3>1, <3>2 DEF AtWork
      <3>4. s = chain'[k]
        BY <1>2, <2>2
      <3>5. QED
        BY <1>5, <1>6, <2>2, <3>3, <3>4 DEF ChainOK
    <2>3. CASE c = k /\ LeaveChain(b)
      <3>1. PICK t : t = Tail(s)
        OBVIOUS
      <3>2. t = chain'[k]
        BY <1>1, <1>2, <3>1, <2>3 DEF LeaveChain, ChainInv
      <3>3. /\ t \in Seq(Deliveries)
            /\ \A i \in DOMAIN t : i \in Nat /\ i + 1 \in DOMAIN s /\ t[i] = s[i + 1] /\ i + 1 > 1
        BY <1>3, <3>1
      <3>4. \A i, j \in DOMAIN t : t[i] = t[j] => i = j
        BY <1>6, <3>3
      <3>5. \A i \in DOMAIN t : /\ ChatOf[t[i]] = k /\ batch'[t[i]].pc = "queued"
        BY <1>5, <3>3
      <3>6. QED
        BY <2>3, <3>2, <3>3, <3>4, <3>5 DEF ChainOK, AtWork
    <2>4. QED
      BY <2>1, <2>2, <2>3
  <1>8. ASSUME NEW d \in Deliveries, AtWork(d)'
        PROVE  \E i \in DOMAIN chain'[ChatOf[d]] : chain'[ChatOf[d]][i] = d
    <2>1. CASE ChatOf[d] # k
      <3>1. AtWork(d) /\ ChatOf[d] \in Chats
        BY <1>8, <2>1 DEF Moved, AtWork, Chats
      <3>2. QED
        BY <1>4, <2>1, <3>1 DEF ChainInv
    <2>2. CASE ChatOf[d] = k /\ d = b
      <3>1. UNCHANGED chain
        BY <1>8, <2>2 DEF Moved, AtWork
      <3>2. QED
        BY <1>2, <1>3, <2>2, <3>1
    <2>3. CASE ChatOf[d] = k /\ d # b
      <3>1. AtWork(d)
        BY <1>8, <2>3 DEF Moved, AtWork
      <3>2. PICK i \in DOMAIN s : s[i] = d
        BY <1>2, <2>3, <3>1 DEF ChainInv
      <3>3. CASE UNCHANGED chain
        BY <1>2, <2>3, <3>2, <3>3
      <3>4. CASE LeaveChain(b)
        <4>1. PICK t : t = Tail(s)
          OBVIOUS
        <4>2. t = chain'[k]
          BY <1>1, <1>2, <4>1, <3>4 DEF LeaveChain, ChainInv
        <4>3. i # 1
          BY <1>3, <2>3, <3>2
        <4>4. i - 1 \in DOMAIN t /\ t[i - 1] = s[i]
          BY <1>3, <3>2, <4>1, <4>3
        <4>5. QED
          BY <2>3, <3>2, <4>2, <4>4
      <3>5. QED
        BY <3>3, <3>4
    <2>4. QED
      BY <2>1, <2>2, <2>3
  <1>9. QED
    BY <1>4, <1>7, <1>8 DEF ChainInv

\* What a step of processBatch() does to its batch and to the chain.
GoesOn(b, from, to) == batch[b].pc = from /\ Moved(b, {to}) /\ UNCHANGED chain
Leaves(b, from) ==
  batch[b].pc = from /\ Moved(b, {"done", "dispatching"}) /\ LeaveChain(b)

LEMMA PcMoves ==
  ASSUME ClaimInv, NEW b \in Deliveries, NEW x, batch' = [batch EXCEPT ![b].pc = x]
  PROVE  Moved(b, {x}) /\ batch'[b].owner = batch[b].owner
  <1>1. PICK n : n = [batch[b] EXCEPT !.pc = x]
    OBVIOUS
  <1>2. n.pc = x /\ n.items = batch[b].items /\ n.owner = batch[b].owner
    <2>1. PICK S : batch[b] \in Batches(S)
      BY DEF ClaimInv, BatchOK, IsBatch
    <2>2. QED
      BY <1>1, <2>1 DEF Batches
  <1>3. batch'[b] = n /\ \A d \in Deliveries \ {b} : batch'[d] = batch[d]
    BY <1>1 DEF ClaimInv
  <1>4. QED
    BY <1>2, <1>3 DEF Moved

LEMMA EndMoves ==
  ASSUME ClaimInv, NEW b \in Deliveries, End(b)
  PROVE  Leaves(b, batch[b].pc)
  <1>1. LeaveChain(b) /\ batch' = [batch EXCEPT ![b].pc = "done"]
    BY DEF End
  <1>2. QED
    BY <1>1, PcMoves DEF Leaves, Moved

LEMMA ClaimMoves ==
  ASSUME ClaimInv, NEW b \in Deliveries, NEW r, IsBatch(r), r.items = batch[b].items,
         NEW rows, ClaimItems(b, r, rows)
  PROVE  Leaves(b, batch[b].pc) \/ GoesOn(b, batch[b].pc, "grounding")
  <1>1. PICK S, mode :
          \/ LeaveChain(b) /\ batch' = [batch EXCEPT ![b] = [r EXCEPT !.pc = "done"]]
          \/ /\ UNCHANGED chain
             /\ batch' = [batch EXCEPT ![b] = [r EXCEPT
                  !.pc = "grounding", !.claims = S, !.mode = mode]]
    BY Zenon DEF ClaimItems
  <1>2. PICK m : m = [r EXCEPT !.pc = "done"]
    OBVIOUS
  <1>3. PICK n : n = [r EXCEPT !.pc = "grounding", !.claims = S, !.mode = mode]
    OBVIOUS
  <1>4. PICK T : r \in Batches(T)
    BY DEF IsBatch
  <1>5. m.pc = "done" /\ m.items = batch[b].items
    BY <1>2, <1>4 DEF Batches
  <1>6. n.pc = "grounding" /\ n.items = batch[b].items
    BY <1>3, <1>4 DEF Batches
  <1>7. \/ LeaveChain(b) /\ batch' = [batch EXCEPT ![b] = m]
        \/ UNCHANGED chain /\ batch' = [batch EXCEPT ![b] = n]
    BY <1>1, <1>2, <1>3, Zenon
  <1>8. QED
    BY <1>5, <1>6, <1>7 DEF ClaimInv, Leaves, GoesOn, Moved

LEMMA ResolveMoves ==
  ASSUME ClaimInv, NEW b \in Deliveries, Resolve(b)
  PROVE  \/ Leaves(b, "resolving")
         \/ GoesOn(b, "resolving", "recovering") /\ bot[ChatOf[b]].pending # NoOne
         \/ GoesOn(b, "resolving", "grounding") /\ bot[ChatOf[b]].pending = NoOne
  <1>1. batch[b].pc = "resolving" /\ IsBatch(batch[b])
    BY DEF Resolve, ClaimInv, BatchOK
  <1>2. CASE End(b)
    BY <1>1, <1>2, EndMoves
  <1>3. CASE ~End(b)
    <2> DEFINE c == ChatOf[b]
               owner(d) == IF bot[c].owner # NoOne THEN bot[c].owner ELSE d
               qualified(d) == c \in Groups /\ d # NoOne
               r(d) == [batch[b] EXCEPT !.owner = owner(d), !.qualified = qualified(d),
                                        !.role = RoleOf(b, owner(d), qualified(d))]
    <2>1. PICK d : \/ /\ batch' = [batch EXCEPT ![b] = [r(d) EXCEPT !.pc = "recovering"]]
                      /\ UNCHANGED chain /\ bot[c].pending # NoOne
                   \/ ClaimItems(b, r(d), row) /\ bot[c].pending = NoOne
      BY <1>3, Zenon DEF Resolve, MustRecover
    <2>2. PICK o, q, role, n :
            /\ o = owner(d) /\ q = qualified(d) /\ role = RoleOf(b, o, q)
            /\ n = r(d) /\ n = [batch[b] EXCEPT !.owner = o, !.qualified = q, !.role = role]
      BY Zenon
    <2> HIDE DEF r
    <2>3. \/ /\ batch' = [batch EXCEPT ![b] = [n EXCEPT !.pc = "recovering"]]
             /\ UNCHANGED chain /\ bot[c].pending # NoOne
          \/ ClaimItems(b, n, row) /\ bot[c].pending = NoOne
      BY <2>1, <2>2, Zenon
    <2>4. n = [batch[b] EXCEPT !.owner = o, !.qualified = q, !.role = role]
      BY <2>2, Zenon
    <2>5. PICK T : n \in Batches(T)
      <3>1. PICK T : batch[b] \in Batches(T)
        BY <1>1 DEF IsBatch
      <3>2. n \in Batches(T \cup {o, q, role})
        BY <2>4, <3>1 DEF Batches
      <3>3. QED
        BY <3>2
    <2>6. n.items = batch[b].items
      BY <1>1, <2>4 DEF IsBatch, Batches
    <2>7. CASE /\ batch' = [batch EXCEPT ![b] = [n EXCEPT !.pc = "recovering"]]
               /\ UNCHANGED chain /\ bot[c].pending # NoOne
      <3>1. PICK m : m = [n EXCEPT !.pc = "recovering"]
        OBVIOUS
      <3>2. m.pc = "recovering" /\ m.items = batch[b].items
        BY <2>5, <2>6, <3>1 DEF Batches
      <3>3. batch' = [batch EXCEPT ![b] = m]
        BY <2>7, <3>1, Zenon
      <3>4. QED
        BY <1>1, <2>7, <3>2, <3>3 DEF ClaimInv, GoesOn, Moved
    <2>8. CASE ClaimItems(b, n, row) /\ bot[c].pending = NoOne
      BY <1>1, <2>5, <2>6, <2>8, ClaimMoves DEF IsBatch
    <2>9. QED
      BY <2>3, <2>7, <2>8, Zenon
  <1>4. QED
    BY <1>2, <1>3

LEMMA ConcludeMoves ==
  ASSUME ClaimInv, NEW b \in Deliveries, Conclude(b)
  PROVE  Leaves(b, batch[b].pc)
  <1>1. PICK reply :
          \/ batch' = [batch EXCEPT ![b].pc = "done"]
          \/ batch' = [batch EXCEPT ![b].pc = "dispatching", ![b].reply = reply]
    BY Zenon DEF Conclude
  <1>2. PICK n : n = [batch[b] EXCEPT !.pc = "dispatching", !.reply = reply]
    OBVIOUS
  <1>3. n.pc = "dispatching" /\ n.items = batch[b].items
    <2>1. PICK S : batch[b] \in Batches(S)
      BY DEF ClaimInv, BatchOK, IsBatch
    <2>2. QED
      BY <1>2, <2>1 DEF Batches
  <1>4. batch' = [batch EXCEPT ![b].pc = "done"] \/ batch' = [batch EXCEPT ![b] = n]
    BY <1>1, <1>2, Zenon
  <1>5. Moved(b, {"done", "dispatching"})
    BY <1>3, <1>4, PcMoves DEF ClaimInv, Moved
  <1>6. QED
    BY <1>5 DEF Conclude, Leaves

LEMMA RejectedMoves ==
  ASSUME ClaimInv, NEW b \in Deliveries, AskRejected(b)
  PROVE  \/ batch[b].pc \in {"asking", "prompting"} /\ Leaves(b, batch[b].pc)
         \/ GoesOn(b, "asking", "asking") /\ batch'[b].owner = batch[b].owner
  <1>1. batch[b].pc \in {"asking", "prompting"}
    BY DEF AskRejected
  <1>2. CASE Abandon(b)
    BY <1>1, <1>2, EndMoves DEF Abandon
  <1>3. CASE /\ batch[b].pc = "asking" /\ batch' = [batch EXCEPT ![b].tries = @ + 1]
             /\ UNCHANGED chain
    <2>1. PICK x, n : x = batch[b].tries + 1 /\ n = [batch[b] EXCEPT !.tries = x]
      OBVIOUS
    <2>2. n.pc = "asking" /\ n.items = batch[b].items /\ n.owner = batch[b].owner
      <3>1. PICK S : batch[b] \in Batches(S)
        BY DEF ClaimInv, BatchOK, IsBatch
      <3>2. QED
        BY <1>3, <2>1, <3>1 DEF Batches
    <2>3. batch'[b] = n /\ \A d \in Deliveries \ {b} : batch'[d] = batch[d]
      BY <1>3, <2>1 DEF ClaimInv
    <2>4. QED
      BY <1>3, <2>2, <2>3 DEF GoesOn, Moved
  <1>4. QED
    BY <1>2, <1>3 DEF AskRejected

LEMMA AcceptedMoves ==
  ASSUME ClaimInv, NEW b \in Deliveries, AskAccepted(b)
  PROVE  GoesOn(b, "asking", "prompting") \/ Leaves(b, "asking")
  <1>1. batch[b].pc = "asking"
    BY DEF AskAccepted
  <1>2. CASE batch' = [batch EXCEPT ![b].pc = "prompting"] /\ UNCHANGED chain
    BY <1>1, <1>2, PcMoves DEF GoesOn
  <1>3. CASE Conclude(b)
    BY <1>1, <1>3, ConcludeMoves
  <1>4. QED
    BY <1>2, <1>3 DEF AskAccepted

LEMMA ProcessMoves ==
  ASSUME ClaimInv, ChainInv, NEW b \in Deliveries, Process(b)
  PROVE  /\ Turn(b)
         /\ \/ \E from, to \in Working \cup {"queued"} : to # "queued" /\ GoesOn(b, from, to)
            \/ \E from : Leaves(b, from)
  <1>1. CASE Start(b)
    <2>1. batch[b].pc = "queued" /\ Turn(b)
      BY <1>1 DEF Start
    <2>2. CASE batch' = [batch EXCEPT ![b].pc = "resolving"] /\ UNCHANGED chain
      <3>1. GoesOn(b, "queued", "resolving")
        BY <2>1, <2>2, PcMoves DEF GoesOn
      <3>2. QED
        BY <2>1, <3>1 DEF Working
    <2>3. QED
      BY <1>1, <2>1, <2>2, EndMoves DEF Start
  <1>2. CASE Resolve(b)
    <2>1. Turn(b)
      BY <1>2, HeadAtWork DEF Resolve, Working
    <2>2. QED
      BY <1>2, <2>1, ResolveMoves DEF Working
  <1>3. CASE Recover(b)
    <2>1. batch[b].pc = "recovering" /\ Turn(b) /\ IsBatch(batch[b])
      BY <1>3, HeadAtWork DEF Recover, Working, ClaimInv, BatchOK
    <2>2. \E rows : ClaimItems(b, batch[b], rows)
      BY <1>3 DEF Recover
    <2>3. QED
      BY <2>1, <2>2, ClaimMoves DEF Working
  <1>4. CASE RecoverFails(b) \/ AskFails(b)
    <2>1. batch[b].pc \in Working /\ End(b)
      BY <1>4 DEF RecoverFails, AskFails, Abandon, Working
    <2>2. QED
      BY <2>1, HeadAtWork, EndMoves
  <1>5. CASE Ask(b)
    <2>1. batch[b].pc \in Working /\ batch[b].pc = "grounding"
      BY <1>5 DEF Ask, Working
    <2>2. GoesOn(b, "grounding", "asking")
      BY <1>5, <2>1, PcMoves DEF Ask, GoesOn
    <2>3. QED
      BY <2>1, <2>2, HeadAtWork DEF Working
  <1>6. CASE AskAccepted(b)
    <2>1. batch[b].pc \in Working
      BY <1>6 DEF AskAccepted, Working
    <2>2. QED
      BY <1>6, <2>1, HeadAtWork, AcceptedMoves DEF Working
  <1>7. CASE PromptAccepted(b)
    <2>1. batch[b].pc \in Working /\ Conclude(b)
      BY <1>7 DEF PromptAccepted, Working
    <2>2. QED
      BY <2>1, HeadAtWork, ConcludeMoves
  <1>8. CASE AskRejected(b)
    <2>1. batch[b].pc \in Working
      BY <1>8 DEF AskRejected, Working
    <2>2. QED
      BY <1>8, <2>1, HeadAtWork, RejectedMoves DEF Working
  <1>9. QED
    BY <1>1, <1>2, <1>3, <1>4, <1>5, <1>6, <1>7, <1>8 DEF Process

\* No batch joins a chain, leaves one or starts to work.
LEMMA SameChains ==
  ASSUME ChainInv, UNCHANGED chain,
         \A d \in Deliveries :
           \/ batch'[d].pc = batch[d].pc
           \/ ~AtWork(d) /\ ~AtWork(d)'
  PROVE  ChainInv'
  <1>1. ASSUME NEW c \in Chats PROVE ChainOK(c)'
    BY SameChain DEF ChainInv
  <1>2. \A d \in Deliveries : AtWork(d)' => AtWork(d)
    BY DEF AtWork
  <1>3. QED
    BY <1>1, <1>2 DEF ChainInv

\* A batch joins the end of its chain.
LEMMA JoinChain ==
  ASSUME ClaimInv, ChainInv, NEW p \in Parties, Flush(p)
  PROVE  ChainInv'
  <1>1. PICK b : b = Head(buffer[p])
    OBVIOUS
  <1>2. b \in Deliveries /\ batch[b].pc = "none"
    <2>1. buffer[p] \in Seq(Deliveries) /\ buffer[p] # <<>>
      BY DEF Flush, ClaimInv, BuffersOK
    <2>2. 1 \in DOMAIN buffer[p] /\ b = buffer[p][1]
      BY <1>1, <2>1
    <2>3. b \in Deliveries
      BY <2>1, <2>2
    <2>4. batch[buffer[p][1]].pc = "none"
      BY <2>2 DEF ClaimInv, BuffersOK
    <2>5. QED
      BY <2>2, <2>3, <2>4
  <1> DEFINE k == ChatOf[b]
  <1>3. PICK s \in Seq(Deliveries) : s = chain[k]
    <2>1. k \in Chats /\ ChainOK(k)
      BY <1>2 DEF ChainInv, Chats
    <2>2. QED
      BY <2>1 DEF ChainOK
  <1>4. PICK n : n = [NoBatch EXCEPT
          !.items = buffer[p], !.epoch = heldEpoch[p], !.pc = "queued"]
    OBVIOUS
  <1>5. n.pc = "queued"
    BY <1>4 DEF NoBatch
  <1>6. batch' = [batch EXCEPT ![b] = n] /\ chain' = [chain EXCEPT ![k] = Append(@, b)]
    BY <1>1, <1>4, Zenon DEF Flush
  <1>7. batch'[b].pc = "queued" /\ \A a \in Deliveries \ {b} : batch'[a] = batch[a]
    BY <1>2, <1>5, <1>6 DEF ClaimInv
  <1>8. PICK t : t = Append(s, b)
    OBVIOUS
  <1>9. /\ chain' = [c \in Chats |-> chain'[c]] /\ chain'[k] = t /\ k \in Chats
        /\ \A c \in Chats \ {k} : chain'[c] = chain[c]
    BY <1>2, <1>3, <1>6, <1>8 DEF ChainInv, Chats
  <1>10. ASSUME NEW c \in Chats, c # k PROVE ChainOK(c)'
    BY <1>7, <1>9, <1>10, SameChain DEF ChainInv
  <1>11. ChainOK(k)'
    <2>1. /\ t \in Seq(Deliveries) /\ DOMAIN s = 1 .. Len(s) /\ Len(s) \in Nat
          /\ DOMAIN t = 1 .. Len(s) + 1
          /\ t[Len(s) + 1] = b /\ \A i \in DOMAIN s : t[i] = s[i]
      BY <1>2, <1>8
    <2>2. ASSUME NEW i \in DOMAIN s
          PROVE  /\ t[i] # b /\ ChatOf[t[i]] = k /\ AtWork(t[i])'
                 /\ i > 1 => batch'[t[i]].pc = "queued"
      <3>1. PICK d \in Deliveries : d = s[i]
        OBVIOUS
      <3>2. ChatOf[d] = k /\ AtWork(d) /\ (i > 1 => batch[d].pc = "queued")
        BY <1>3, <1>9, <3>1 DEF ChainInv, ChainOK
      <3>3. d # b
        BY <1>2, <3>2 DEF AtWork, Working
      <3>4. QED
        BY <1>7, <2>1, <3>1, <3>2, <3>3 DEF AtWork
    <2>3. AtWork(b)'
      BY <1>7 DEF AtWork
    <2>4. \A i, j \in DOMAIN s : s[i] = s[j] => i = j
      BY <1>3, <1>9 DEF ChainInv, ChainOK
    <2>5. \A i, j \in DOMAIN t : t[i] = t[j] => i = j
      BY <2>1, <2>2, <2>4
    <2>6. \A i \in DOMAIN t : i \in DOMAIN s \/ t[i] = b
      BY <2>1
    <2>7. \A i \in DOMAIN t : /\ ChatOf[t[i]] = k /\ AtWork(t[i])'
                              /\ i > 1 => batch'[t[i]].pc = "queued"
      BY <1>7, <2>2, <2>3, <2>6
    <2>8. QED
      BY <1>9, <2>1, <2>5, <2>7 DEF ChainOK
  <1>12. ASSUME NEW d \in Deliveries, AtWork(d)'
         PROVE  \E i \in DOMAIN chain'[ChatOf[d]] : chain'[ChatOf[d]][i] = d
    <2>1. CASE d = b
      BY <1>3, <1>8, <1>9, <2>1
    <2>2. CASE d # b
      <3>1. PICK i \in DOMAIN chain[ChatOf[d]] : chain[ChatOf[d]][i] = d
        BY <1>7, <1>12, <2>2 DEF ChainInv, AtWork
      <3>2. CASE ChatOf[d] # k
        BY <1>9, <3>1, <3>2 DEF Chats
      <3>3. CASE ChatOf[d] = k
        BY <1>3, <1>8, <1>9, <3>1, <3>3
      <3>4. QED
        BY <3>2, <3>3
    <2>3. QED
      BY <2>1, <2>2
  <1>13. QED
    BY <1>9, <1>10, <1>11, <1>12 DEF ChainInv

LEMMA ChainStep ==
  ASSUME ClaimInv, ChainInv, [Next]_vars
  PROVE  ChainInv'
  <1>1. ASSUME NEW b \in Deliveries, Process(b)
        PROVE  ChainInv'
    <2>1. Turn(b)
      BY <1>1, ProcessMoves
    <2>2. CASE \E from, to \in Working \cup {"queued"} : to # "queued" /\ GoesOn(b, from, to)
      <3>1. PICK to \in Working : Moved(b, {to}) /\ UNCHANGED chain
        BY <2>2 DEF GoesOn
      <3>2. QED
        BY <2>1, <3>1, HeadStep
    <2>3. CASE \E from : Leaves(b, from)
      <3>1. Moved(b, {"done", "dispatching"}) /\ LeaveChain(b)
        BY <2>3 DEF Leaves
      <3>2. {"done", "dispatching"} \cap (Working \cup {"queued"}) = {}
        BY DEF Working
      <3>3. QED
        BY <2>1, <3>1, <3>2, HeadStep
    <2>4. QED
      BY <1>1, <2>2, <2>3, ProcessMoves
  <1>2. ASSUME NEW b \in Deliveries, DispatchEnds(b)
        PROVE  ChainInv'
    <2>1. batch[b].pc = "dispatching" /\ Moved(b, {"done"}) /\ UNCHANGED chain
      BY <1>2, PcMoves DEF DispatchEnds
    <2>2. QED
      BY <2>1, SameChains DEF Moved, AtWork, Working
  <1>3. CASE Crash
    <2>1. /\ chain' = [c \in Chats |-> <<>>]
          /\ \A b \in Deliveries : batch'[b] =
               [batch[b] EXCEPT !.pc = IF @ \in {"none", "done"} THEN @ ELSE "dead"]
      BY <1>3 DEF Crash
    <2>2. ASSUME NEW b \in Deliveries PROVE ~AtWork(b)'
      <3>1. PICK x, n : /\ x = (IF batch[b].pc \in {"none", "done"} THEN batch[b].pc
                                ELSE "dead")
                        /\ n = [batch[b] EXCEPT !.pc = x]
        OBVIOUS
      <3>2. batch'[b] = n /\ IsBatch(batch[b])
        BY <2>1, <3>1, Zenon DEF ClaimInv, BatchOK
      <3>3. n.pc = x
        BY <3>1, <3>2, PcField
      <3>4. batch'[b].pc = x /\ x \in {"none", "done", "dead"}
        BY <3>1, <3>2, <3>3
      <3>5. QED
        BY <3>4 DEF AtWork, Working
    <2>3. QED
      BY <2>1, <2>2 DEF ChainInv, ChainOK
  <1>4. ASSUME UNCHANGED <<chain, batch>> PROVE ChainInv'
    BY <1>4, SameChains
  <1>5. ASSUME NEW d \in Deliveries, Receive(d) PROVE ChainInv'
    BY <1>4, <1>5 DEF Receive
  <1>6. ASSUME NEW c \in Chats, SelfRemoved(c) \/ SelfAdded(c) PROVE ChainInv'
    BY <1>4, <1>6 DEF SelfRemoved, SelfAdded
  <1>7. ASSUME NEW op \in Operators, Register(op) PROVE ChainInv'
    BY <1>4, <1>7 DEF Register
  <1>8. CASE UNCHANGED vars
    BY <1>4, <1>8 DEF vars
  <1>9. QED
    BY <1>1, <1>2, <1>3, <1>5, <1>6, <1>7, <1>8, JoinChain DEF Next

LEMMA ChainInit == Init => ChainInv
  <1>1. NoBatch.pc = "none"
    BY DEF NoBatch
  <1>2. QED
    BY <1>1 DEF Init, ChainInv, ChainOK, AtWork, Working

\* Chains and the batches on them, along every behaviour: whoever works is the
\* head of its chain.
THEOREM ChainInvariant == Spec => []ChainInv
  <1>1. ClaimInv /\ ChainInv /\ [Next]_vars => ChainInv'
    BY ChainStep
  <1>2. QED
    BY ChainInit, ClaimInvariant, <1>1, PTL DEF Spec

\* Whatever fails, is refused, dropped or cut off by a crash, the head of a chain is
\* at work or can start and nothing that waits has been left out of its chain.
THEOREM ChainsAlwaysMove == Spec => []ChainsMove
  <1>1. ASSUME ChainInv PROVE ChainsMove
    <2>1. ASSUME NEW c \in Chats, chain[c] # <<>>
          PROVE  batch[Head(chain[c])].pc \in Working \cup {"queued"}
      <3>1. chain[c] \in Seq(Deliveries) /\ \A i \in DOMAIN chain[c] : AtWork(chain[c][i])
        BY <1>1 DEF ChainInv, ChainOK
      <3>2. 1 \in DOMAIN chain[c] /\ Head(chain[c]) = chain[c][1]
        BY <2>1, <3>1
      <3>3. QED
        BY <3>1, <3>2 DEF AtWork
    <2>2. ASSUME NEW b \in Deliveries, batch[b].pc = "queued"
          PROVE  b \in ToSet(chain[ChatOf[b]])
      BY <1>1, <2>2 DEF ChainInv, AtWork, ToSet
    <2>3. QED
      BY <2>1, <2>2 DEF ChainsMove
  <1>2. QED
    BY <1>1, ChainInvariant, PTL

-------------------------------------------------------------------------------
(***************************************************************************)
(* The pending slot                                                        *)
(***************************************************************************)

PostSet == [by : Deliveries, thread : Nat, as : {"turn", "recovery", "prompt"},
            response : {"force_respond", "force_skip"}]

PostsTyped ==
  posts = [c \in Chats |-> posts[c]] /\ \A c \in Chats : posts[c] \in Seq(PostSet)

\* A batch recovers what waits in its chat's slot.  Only the batch that is asking
\* can be the one in the slot, and then its owner no longer calls for another bot.
SlotFor(b) ==
  LET k == ChatOf[b] IN
  /\ batch[b].pc = "recovering" => bot[k].pending # NoOne
  /\ batch[b].pc \in {"grounding", "prompting"} => bot[k].pending = NoOne
  /\ batch[b].pc = "asking" /\ bot[k].pending # NoOne =>
       bot[k].pending = b /\ (bot[k].owner # NoOne \/ batch[b].owner = NoOne)

\* What waits was meant for a bot.
SlotOK(c) ==
  /\ bot[c].thread \in Nat
  /\ bot[c].pending # NoOne => bot[c].pending \in Deliveries /\ bot[c].thread # 0

SlotInv ==
  /\ \A c \in Chats : SlotOK(c)
  /\ \A b \in Deliveries : SlotFor(b)

\* RecoveredOnItsBot for one chat and one step.
Recovered(c) ==
  bot[c].pending # NoOne =>
    \/ bot'[c].pending = bot[c].pending /\ bot'[c].thread = bot[c].thread
    \/ /\ posts'[c] # posts[c]
       /\ Last(posts'[c]).by = bot[c].pending
       /\ Last(posts'[c]).thread = bot[c].thread

LEMMA OneAtWork ==
  ASSUME ChainInv, NEW b \in Deliveries, Turn(b), NEW a \in Deliveries \ {b},
         ChatOf[a] = ChatOf[b]
  PROVE  batch[a].pc \notin Working
  BY HeadAtWork DEF Turn

\* remember(): the chat has a thread from now on, and keeps the one it had unless a
\* common bot is given an owner.
LEMMA UpsertedSlot ==
  ASSUME PauseInv, NEW c \in Chats, bot[c].thread \in Nat, NEW owner, NEW u,
         u = Upserted(c, owner)
  PROVE  /\ IsBot(u) /\ u.thread \in Nat \ {0}
         /\ u.pending = bot[c].pending /\ u.prompt = bot[c].prompt
         /\ u.owner # NoOne \/ owner = NoOne
         /\ bot[c].thread # 0 /\ (bot[c].owner # NoOne \/ owner = NoOne) =>
              u.thread = bot[c].thread /\ u.owner = bot[c].owner
  <1> DEFINE fresh == bot[c].thread = 0 \/ (bot[c].owner = NoOne /\ owner # NoOne)
             thread == IF fresh THEN bot[c].thread + 1 ELSE bot[c].thread
             whose == IF fresh THEN owner ELSE bot[c].owner
  <1>1. PICK old, S : old = bot[c] /\ old \in Rows(S)
    BY DEF PauseInv, BotsTyped, IsBot
  <1>2. PICK t, w, p : /\ t = thread /\ w = whose
                       /\ u = [old EXCEPT !.thread = t, !.owner = w, !.paused = p]
    BY <1>1, Zenon DEF Upserted
  <1>3. /\ t \in Nat \ {0} /\ (w # NoOne \/ owner = NoOne)
        /\ bot[c].thread # 0 /\ (bot[c].owner # NoOne \/ owner = NoOne) =>
             t = bot[c].thread /\ w = bot[c].owner
    BY <1>2
  <1>4. u.thread = t /\ u.owner = w /\ u.pending = old.pending /\ u.prompt = old.prompt
    BY <1>1, <1>2 DEF Rows
  <1>5. IsBot(u)
    BY UpsertedPause
  <1>6. QED
    BY <1>1, <1>3, <1>4, <1>5

LEMMA ClearedSlot ==
  ASSUME NEW u, IsBot(u)
  PROVE  /\ Cleared(u).pending = NoOne /\ ~Cleared(u).prompt
         /\ Cleared(u).thread = u.thread
  <1>1. PICK S : u \in Rows(S)
    BY DEF IsBot
  <1>2. QED
    BY <1>1 DEF Rows, Cleared

\* A step of the head of a chain, which leaves the rows of other chats alone.
LEMMA SlotMove ==
  ASSUME ChainInv, SlotInv, NEW b \in Deliveries, Turn(b), NEW S, Moved(b, S),
         \A d \in Chats \ {ChatOf[b]} : bot'[d] = bot[d],
         SlotOK(ChatOf[b])', SlotFor(b)', Recovered(ChatOf[b])
  PROVE  SlotInv' /\ \A c \in Chats : Recovered(c)
  <1>1. ASSUME NEW c \in Chats PROVE SlotOK(c)' /\ Recovered(c)
    BY DEF SlotInv, SlotOK, Recovered
  <1>2. ASSUME NEW a \in Deliveries PROVE SlotFor(a)'
    <2>1. CASE ChatOf[a] # ChatOf[b]
      <3>1. ChatOf[a] \in Chats /\ a # b
        BY <2>1 DEF Chats
      <3>2. batch'[a] = batch[a] /\ bot'[ChatOf[a]] = bot[ChatOf[a]] /\ SlotFor(a)
        BY <2>1, <3>1 DEF Moved, SlotInv
      <3>3. QED
        BY <3>2 DEF SlotFor
    <2>2. CASE ChatOf[a] = ChatOf[b] /\ a # b
      <3>1. batch'[a] = batch[a] /\ batch[a].pc \notin Working
        BY <2>2, OneAtWork DEF Moved
      <3>2. QED
        BY <3>1 DEF SlotFor, Working
    <2>3. QED
      BY <2>1, <2>2
  <1>3. QED
    BY <1>1, <1>2 DEF SlotInv

SlotContext == PauseInv /\ ClaimInv /\ ChainInv /\ SlotInv /\ PostsTyped

LEMMA SlotAsk ==
  ASSUME SlotContext, NEW b \in Deliveries,
         Start(b) \/ Resolve(b) \/ Ask(b) \/ AskFails(b)
  PROVE  SlotInv' /\ \A c \in Chats : Recovered(c)
  <1> USE DEF SlotContext
  <1> DEFINE k == ChatOf[b]
  <1>1. k \in Chats /\ UNCHANGED bot /\ Turn(b) /\ SlotOK(k) /\ SlotFor(b)
    BY ProcessMoves DEF Start, Resolve, Ask, AskFails, Process, Chats, SlotInv
  <1>2. SlotOK(k)' /\ Recovered(k)
    BY <1>1 DEF SlotOK, Recovered
  <1>3. \E S : Moved(b, S) /\ SlotFor(b)'
    <2>1. CASE Start(b)
      <3>1. Moved(b, {"resolving", "done"})
        BY <2>1, PcMoves DEF Start, End, Moved
      <3>2. QED
        BY <3>1 DEF Moved, SlotFor
    <2>2. CASE Resolve(b)
      <3>1. CASE \/ Leaves(b, "resolving")
                 \/ GoesOn(b, "resolving", "recovering") /\ bot[k].pending # NoOne
        BY <1>1, <3>1 DEF Leaves, GoesOn, Moved, SlotFor
      <3>2. CASE GoesOn(b, "resolving", "grounding") /\ bot[k].pending = NoOne
        BY <1>1, <3>2 DEF GoesOn, Moved, SlotFor
      <3>3. QED
        BY <2>2, <3>1, <3>2, ResolveMoves
    <2>3. CASE Ask(b)
      <3>1. Moved(b, {"asking"}) /\ batch[b].pc = "grounding"
        BY <2>3, PcMoves DEF Ask
      <3>2. QED
        BY <1>1, <3>1 DEF Moved, SlotFor
    <2>4. CASE AskFails(b)
      <3>1. Moved(b, {"done"})
        BY <2>4, PcMoves DEF AskFails, Abandon, End
      <3>2. QED
        BY <3>1 DEF Moved, SlotFor
    <2>5. QED
      BY <2>1, <2>2, <2>3, <2>4
  <1>4. QED
    BY <1>1, <1>2, <1>3, SlotMove

\* Of a chat's row and posts, what an accepted post leaves behind.
LEMMA PostedOn ==
  ASSUME PostsTyped, NEW c \in Chats, NEW b, NEW thread, NEW as, NEW response,
         Posted(c, b, thread, as, response),
         b \in Deliveries, thread \in Nat, as \in {"turn", "recovery", "prompt"},
         response \in {"force_respond", "force_skip"}
  PROVE  /\ PostsTyped' /\ posts'[c] # posts[c]
         /\ Last(posts'[c]).by = b /\ Last(posts'[c]).thread = thread
         /\ posts'[c] = Append(posts[c], [by |-> b, thread |-> thread, as |-> as,
                                          response |-> response])
         /\ \A d \in Chats \ {c} : posts'[d] = posts[d]
  <1>1. PICK r : r = [by |-> b, thread |-> thread, as |-> as, response |-> response]
    OBVIOUS
  <1>2. r \in PostSet /\ r.by = b /\ r.thread = thread
    BY <1>1 DEF PostSet
  <1>3. posts' = [posts EXCEPT ![c] = Append(posts[c], r)]
    BY <1>1 DEF Posted
  <1>4. PICK s \in Seq(PostSet) : s = posts[c]
    BY DEF PostsTyped
  <1>5. /\ posts' = [d \in Chats |-> posts'[d]] /\ posts'[c] = Append(s, r)
        /\ \A d \in Chats \ {c} : posts'[d] = posts[d]
    BY <1>3, <1>4 DEF PostsTyped
  <1>6. PICK t : t = Append(s, r)
    OBVIOUS
  <1>7. t \in Seq(PostSet) /\ t # s /\ t[Len(t)] = r
    BY <1>2, <1>4, <1>6
  <1>8. PostsTyped'
    <2>1. ASSUME NEW d \in Chats PROVE posts'[d] \in Seq(PostSet)
      BY <1>5, <1>6, <1>7 DEF PostsTyped
    <2>2. QED
      BY <1>5, <2>1 DEF PostsTyped
  <1>9. QED
    BY <1>1, <1>2, <1>4, <1>5, <1>6, <1>7, <1>8 DEF Last

LEMMA SlotRecover ==
  ASSUME SlotContext, NEW b \in Deliveries, Recover(b)
  PROVE  SlotInv' /\ PostsTyped' /\ \A c \in Chats : Recovered(c)
  <1> USE DEF SlotContext
  <1> DEFINE k == ChatOf[b]
             lost == bot[k].pending
             as == IF bot[k].prompt THEN "prompt" ELSE "recovery"
  <1>1. k \in Chats /\ Turn(b) /\ SlotOK(k) /\ bot[k].pending # NoOne
    BY ProcessMoves DEF Process, Chats, SlotInv, SlotFor, Recover
  <1>2. PICK u : u = Upserted(k, bot[k].owner)
    OBVIOUS
  <1>3. bot' = [bot EXCEPT ![k] = Cleared(u)] /\ Posted(k, lost, bot[k].thread, as, "force_skip")
    BY <1>2 DEF Recover
  <1>4. IsBot(u) /\ u.thread \in Nat
    BY <1>1, <1>2, UpsertedSlot DEF SlotOK
  <1>5. lost \in Deliveries /\ bot[k].thread \in Nat
    BY <1>1 DEF SlotOK
  <1>6. PostsTyped' /\ Recovered(k)
    <2>1. PICK x \in Deliveries, t \in Nat, y \in {"turn", "recovery", "prompt"} :
            x = lost /\ t = bot[k].thread /\ y = as
      BY <1>5
    <2>2. Posted(k, x, t, y, "force_skip")
      BY <1>3, <2>1
    <2>3. PostsTyped' /\ posts'[k] # posts[k] /\ Last(posts'[k]).by = x
          /\ Last(posts'[k]).thread = t
      BY <1>1, <2>2, PostedOn
    <2>4. QED
      BY <2>1, <2>3 DEF Recovered
  <1>7. bot'[k] = Cleared(u) /\ \A d \in Chats \ {k} : bot'[d] = bot[d]
    BY <1>1, <1>3 DEF PauseInv, BotsTyped
  <1>8. SlotOK(k)' /\ bot'[k].pending = NoOne
    BY <1>4, <1>7, ClearedSlot DEF SlotOK
  <1>9. PICK S : Moved(b, S)
    <2>1. IsBatch(batch[b]) /\ \E rows : ClaimItems(b, batch[b], rows)
      BY DEF Recover, ClaimInv, BatchOK
    <2>2. QED
      BY <2>1, ClaimMoves DEF Leaves, GoesOn
  <1>10. SlotFor(b)'
    <2>1. batch'[b].pc # "recovering"
      <3>1. IsBatch(batch[b]) /\ \E rows : ClaimItems(b, batch[b], rows)
        BY DEF Recover, ClaimInv, BatchOK
      <3>2. QED
        BY <3>1, ClaimMoves DEF Leaves, GoesOn, Moved
    <2>2. QED
      BY <1>8, <2>1 DEF SlotFor
  <1>11. QED
    BY <1>1, <1>6, <1>7, <1>8, <1>9, <1>10, SlotMove

LEMMA SlotRecoverFails ==
  ASSUME SlotContext, NEW b \in Deliveries, RecoverFails(b)
  PROVE  SlotInv' /\ \A c \in Chats : Recovered(c)
  <1> USE DEF SlotContext
  <1> DEFINE k == ChatOf[b]
  <1>1. k \in Chats /\ Turn(b) /\ SlotOK(k)
    BY ProcessMoves DEF Process, Chats, SlotInv
  <1>2. PICK u : u = Upserted(k, bot[k].owner)
    OBVIOUS
  <1>3. bot' = bot \/ bot' = [bot EXCEPT ![k] = u]
    BY <1>2 DEF RecoverFails
  <1>4. /\ u.thread \in Nat \ {0} /\ u.pending = bot[k].pending
        /\ bot[k].thread # 0 => u.thread = bot[k].thread
    BY <1>1, <1>2, UpsertedSlot DEF SlotOK
  <1>5. /\ bot'[k] = bot[k] \/ bot'[k] = u
        /\ \A d \in Chats \ {k} : bot'[d] = bot[d]
    BY <1>1, <1>3 DEF PauseInv, BotsTyped
  <1>6. SlotOK(k)' /\ Recovered(k)
    BY <1>1, <1>4, <1>5 DEF SlotOK, Recovered
  <1>7. Moved(b, {"done"})
    BY PcMoves DEF RecoverFails, End
  <1>8. SlotFor(b)'
    BY <1>7 DEF Moved, SlotFor
  <1>9. QED
    BY <1>1, <1>5, <1>6, <1>7, <1>8, SlotMove

LEMMA SlotAccepted ==
  ASSUME SlotContext, NEW b \in Deliveries, AskAccepted(b)
  PROVE  SlotInv' /\ PostsTyped' /\ \A c \in Chats : Recovered(c)
  <1> USE DEF SlotContext
  <1> DEFINE k == ChatOf[b]
             response == IF batch[b].mode = "respond" THEN "force_respond" ELSE "force_skip"
  <1>1. /\ k \in Chats /\ Turn(b) /\ SlotOK(k) /\ SlotFor(b)
        /\ batch[b].pc = "asking"
    BY ProcessMoves DEF Process, Chats, SlotInv, AskAccepted
  <1>2. PICK u : u = Upserted(k, batch[b].owner)
    OBVIOUS
  <1>3. bot' = [bot EXCEPT ![k] = Cleared(u)] /\ Posted(k, b, bot'[k].thread, "turn", response)
    BY <1>2 DEF AskAccepted
  <1>4. /\ IsBot(u) /\ u.thread \in Nat
        /\ bot[k].pending # NoOne => bot[k].pending = b /\ u.thread = bot[k].thread
    BY <1>1, <1>2, UpsertedSlot DEF SlotOK, SlotFor
  <1>5. bot'[k] = Cleared(u) /\ \A d \in Chats \ {k} : bot'[d] = bot[d]
    BY <1>1, <1>3 DEF PauseInv, BotsTyped
  <1>6. bot'[k].pending = NoOne /\ bot'[k].thread = u.thread
    BY <1>4, <1>5, ClearedSlot
  <1>7. PostsTyped' /\ Recovered(k)
    <2>1. response \in {"force_respond", "force_skip"}
      OBVIOUS
    <2> HIDE DEF response
    <2>2. PICK t \in Nat : t = bot'[k].thread /\ t = u.thread
      BY <1>4, <1>6
    <2>3. Posted(k, b, t, "turn", response)
      BY <1>3, <2>2
    <2>4. PostsTyped' /\ posts'[k] # posts[k] /\ Last(posts'[k]).by = b
          /\ Last(posts'[k]).thread = t
      BY <1>1, <2>1, <2>3, PostedOn
    <2>5. QED
      BY <1>4, <2>2, <2>4 DEF Recovered
  <1>8. PICK S : Moved(b, S) /\ "recovering" \notin S
    BY AcceptedMoves DEF GoesOn, Leaves
  <1>9. SlotOK(k)' /\ SlotFor(b)'
    BY <1>4, <1>6, <1>8 DEF SlotOK, SlotFor, Moved
  <1>10. QED
    BY <1>1, <1>5, <1>7, <1>8, <1>9, SlotMove

LEMMA SlotPrompt ==
  ASSUME SlotContext, NEW b \in Deliveries, PromptAccepted(b)
  PROVE  SlotInv' /\ PostsTyped' /\ \A c \in Chats : Recovered(c)
  <1> USE DEF SlotContext
  <1> DEFINE k == ChatOf[b]
  <1>1. /\ k \in Chats /\ Turn(b) /\ SlotOK(k) /\ SlotFor(b)
        /\ batch[b].pc = "prompting"
    BY ProcessMoves DEF Process, Chats, SlotInv, PromptAccepted
  <1>2. PICK u : u = Upserted(k, batch[b].owner)
    OBVIOUS
  <1>3. /\ bot' = [bot EXCEPT ![k] = u]
        /\ Posted(k, b, bot'[k].thread, "prompt", "force_respond")
    BY <1>2 DEF PromptAccepted
  <1>4. u.thread \in Nat /\ bot[k].pending = NoOne /\ u.pending = NoOne
    BY <1>1, <1>2, UpsertedSlot DEF SlotOK, SlotFor
  <1>5. bot'[k] = u /\ \A d \in Chats \ {k} : bot'[d] = bot[d]
    BY <1>1, <1>3 DEF PauseInv, BotsTyped
  <1>6. PostsTyped'
    <2>1. PICK t \in Nat : t = bot'[k].thread
      BY <1>4, <1>5
    <2>2. Posted(k, b, t, "prompt", "force_respond")
      BY <1>3, <2>1
    <2>3. QED
      BY <1>1, <2>2, PostedOn
  <1>7. PICK S : Moved(b, S) /\ "recovering" \notin S
    BY ConcludeMoves DEF PromptAccepted, Leaves
  <1>8. SlotOK(k)' /\ SlotFor(b)' /\ Recovered(k)
    BY <1>4, <1>5, <1>7 DEF SlotOK, SlotFor, Recovered, Moved
  <1>9. QED
    BY <1>1, <1>5, <1>6, <1>7, <1>8, SlotMove

LEMMA SlotRejected ==
  ASSUME SlotContext, NEW b \in Deliveries, AskRejected(b)
  PROVE  SlotInv' /\ \A c \in Chats : Recovered(c)
  <1> USE DEF SlotContext
  <1> DEFINE k == ChatOf[b]
  <1>1. /\ k \in Chats /\ Turn(b) /\ SlotOK(k) /\ SlotFor(b)
        /\ batch[b].pc \in {"asking", "prompting"}
    BY ProcessMoves DEF Process, Chats, SlotInv, AskRejected
  <1>2. PICK u, prompt : u = Upserted(k, batch[b].owner) /\ prompt = (batch[b].pc = "prompting")
    OBVIOUS
  <1>3. PICK r : r = [u EXCEPT !.pending = b, !.prompt = prompt]
    OBVIOUS
  <1>4. bot' = [bot EXCEPT ![k] = r]
    BY <1>2, <1>3, Zenon DEF AskRejected
  <1>5. /\ IsBot(u) /\ u.thread \in Nat \ {0} /\ (u.owner # NoOne \/ batch[b].owner = NoOne)
        /\ bot[k].pending # NoOne => bot[k].pending = b /\ u.thread = bot[k].thread
    BY <1>1, <1>2, UpsertedSlot DEF SlotOK, SlotFor
  <1>6. r.pending = b /\ r.thread = u.thread /\ r.owner = u.owner
    <2>1. PICK S : u \in Rows(S)
      BY <1>5 DEF IsBot
    <2>2. QED
      BY <1>3, <2>1 DEF Rows
  <1>7. bot'[k] = r /\ \A d \in Chats \ {k} : bot'[d] = bot[d]
    BY <1>1, <1>4 DEF PauseInv, BotsTyped
  <1>8. SlotOK(k)' /\ Recovered(k)
    BY <1>5, <1>6, <1>7 DEF SlotOK, Recovered
  <1>9. PICK S : Moved(b, S) /\ SlotFor(b)'
    <2>1. CASE Leaves(b, batch[b].pc)
      BY <2>1 DEF Leaves, Moved, SlotFor
    <2>2. CASE GoesOn(b, "asking", "asking") /\ batch'[b].owner = batch[b].owner
      BY <1>5, <1>6, <1>7, <2>2 DEF GoesOn, Moved, SlotFor
    <2>3. QED
      BY <2>1, <2>2, RejectedMoves
  <1>10. QED
    BY <1>1, <1>7, <1>8, <1>9, SlotMove

LEMMA SlotStep ==
  ASSUME SlotContext, [Next]_vars
  PROVE  SlotInv' /\ PostsTyped' /\ \A c \in Chats : Recovered(c)
  <1> USE DEF SlotContext
  <1>1. ASSUME UNCHANGED posts PROVE PostsTyped'
    BY <1>1 DEF PostsTyped
  <1>2. ASSUME UNCHANGED posts,
               \A c \in Chats : /\ bot'[c].pending = bot[c].pending
                                /\ bot'[c].thread = bot[c].thread
                                /\ bot'[c].owner = bot[c].owner,
               \A b \in Deliveries :
                 batch'[b] = batch[b] \/ batch'[b].pc \in {"none", "queued", "done", "dead"}
        PROVE  SlotInv' /\ PostsTyped' /\ \A c \in Chats : Recovered(c)
    <2>1. ASSUME NEW c \in Chats PROVE SlotOK(c)' /\ Recovered(c)
      BY <1>2 DEF SlotInv, SlotOK, Recovered
    <2>2. ASSUME NEW b \in Deliveries PROVE SlotFor(b)'
      BY <1>2 DEF SlotInv, SlotFor, Chats
    <2>3. QED
      BY <1>1, <1>2, <2>1, <2>2 DEF SlotInv
  <1>3. ASSUME NEW b \in Deliveries, Process(b)
        PROVE  SlotInv' /\ PostsTyped' /\ \A c \in Chats : Recovered(c)
    <2>1. CASE \/ Start(b) \/ Resolve(b) \/ Ask(b) \/ AskFails(b)
               \/ RecoverFails(b) \/ AskRejected(b)
      <3>1. UNCHANGED posts
        BY <2>1 DEF Start, Resolve, Ask, AskFails, RecoverFails, AskRejected
      <3>2. QED
        BY <1>1, <2>1, <3>1, SlotAsk, SlotRecoverFails, SlotRejected
    <2>2. QED
      BY <1>3, <2>1, SlotRecover, SlotAccepted, SlotPrompt DEF Process
  <1>4. ASSUME NEW b \in Deliveries, DispatchEnds(b)
        PROVE  SlotInv' /\ PostsTyped' /\ \A c \in Chats : Recovered(c)
    <2>1. Moved(b, {"done"}) /\ UNCHANGED <<bot, posts>>
      BY <1>4, PcMoves DEF DispatchEnds
    <2>2. QED
      BY <1>2, <2>1 DEF Moved
  <1>5. ASSUME NEW p \in Parties, Flush(p)
        PROVE  SlotInv' /\ PostsTyped' /\ \A c \in Chats : Recovered(c)
    <2>1. PICK b, n : /\ n = [NoBatch EXCEPT
                           !.items = buffer[p], !.epoch = heldEpoch[p], !.pc = "queued"]
                      /\ batch' = [batch EXCEPT ![b] = n]
      BY <1>5, Zenon DEF Flush
    <2>2. n.pc = "queued"
      BY <2>1 DEF NoBatch
    <2>3. \A a \in Deliveries : batch'[a] = batch[a] \/ batch'[a].pc = "queued"
      BY <2>1, <2>2 DEF ClaimInv
    <2>4. UNCHANGED <<bot, posts>>
      BY <1>5 DEF Flush
    <2>5. QED
      BY <1>2, <2>3, <2>4
  <1>6. ASSUME NEW c \in Chats, SelfRemoved(c) \/ SelfAdded(c)
        PROVE  SlotInv' /\ PostsTyped' /\ \A d \in Chats : Recovered(d)
    <2>1. UNCHANGED <<batch, posts>>
      BY <1>6 DEF SelfRemoved, SelfAdded
    <2>2. PICK x, r : r = [bot[c] EXCEPT !.paused = x] /\ bot' = [bot EXCEPT ![c] = r]
      BY <1>6, Zenon DEF SelfRemoved, SelfAdded
    <2>3. r.pending = bot[c].pending /\ r.thread = bot[c].thread /\ r.owner = bot[c].owner
      <3>1. PICK S : bot[c] \in Rows(S)
        BY DEF PauseInv, BotsTyped, IsBot
      <3>2. QED
        BY <2>2, <3>1 DEF Rows
    <2>4. bot'[c] = r /\ \A d \in Chats \ {c} : bot'[d] = bot[d]
      BY <2>2 DEF PauseInv, BotsTyped
    <2>5. QED
      BY <1>2, <2>1, <2>3, <2>4
  <1>7. CASE Crash
    <2>1. /\ UNCHANGED <<bot, posts>>
          /\ \A b \in Deliveries : batch'[b] =
               [batch[b] EXCEPT !.pc = IF @ \in {"none", "done"} THEN @ ELSE "dead"]
      BY <1>7 DEF Crash
    <2>2. ASSUME NEW b \in Deliveries PROVE batch'[b].pc \in {"none", "done", "dead"}
      <3>1. PICK x, n : /\ x = (IF batch[b].pc \in {"none", "done"} THEN batch[b].pc
                                ELSE "dead")
                        /\ n = [batch[b] EXCEPT !.pc = x]
        OBVIOUS
      <3>2. batch'[b] = n /\ IsBatch(batch[b])
        BY <2>1, <3>1, Zenon DEF ClaimInv, BatchOK
      <3>3. n.pc = x
        BY <3>1, <3>2, PcField
      <3>4. QED
        BY <3>1, <3>2, <3>3
    <2>3. QED
      BY <1>2, <2>1, <2>2
  <1>8. CASE UNCHANGED <<batch, bot, posts>>
    BY <1>2, <1>8
  <1>9. ASSUME NEW d \in Deliveries, Receive(d)
        PROVE  UNCHANGED <<batch, bot, posts>>
    BY <1>9 DEF Receive
  <1>10. ASSUME NEW op \in Operators, Register(op)
         PROVE  UNCHANGED <<batch, bot, posts>>
    BY <1>10 DEF Register
  <1>11. CASE UNCHANGED vars
    BY <1>8, <1>11 DEF vars
  <1>12. QED
    BY <1>3, <1>4, <1>5, <1>6, <1>7, <1>8, <1>9, <1>10, <1>11 DEF Next

SlotsAndPosts == SlotInv /\ PostsTyped

LEMMA SlotInit == Init => SlotsAndPosts
  <1>1. /\ NoBot.thread = 0 /\ NoBot.pending = NoOne
        /\ NoBatch.pc = "none"
    BY DEF NoBot, NoBatch
  <1> HIDE DEF NoBot, NoBatch
  <1>2. ASSUME Init PROVE SlotInv
    <2>1. /\ \A c \in Chats : bot[c] = NoBot
          /\ \A b \in Deliveries : batch[b] = NoBatch
      BY <1>2 DEF Init
    <2>2. QED
      BY <1>1, <2>1 DEF SlotInv, SlotOK, SlotFor
  <1>3. Init => PostsTyped
    BY DEF Init, PostsTyped
  <1>4. QED
    BY <1>2, <1>3 DEF SlotsAndPosts

\* The slot of each chat and what PromptQL has accepted, along every behaviour.
THEOREM SlotInvariant == Spec => []SlotsAndPosts
  <1>1. PauseInv /\ ClaimInv /\ ChainInv /\ SlotsAndPosts /\ [Next]_vars => SlotsAndPosts'
    BY SlotStep DEF SlotsAndPosts, SlotContext
  <1>2. QED
    BY SlotInit, PauseInvariant, ClaimInvariant, ChainInvariant, <1>1, PTL DEF Spec

\* Whatever is registered, accepted, rejected or removed meanwhile, a text that waits
\* stays in the slot and its bot stays the chat's until that bot has accepted it.
THEOREM RecoveryBeforeSwitch == Spec => RecoveredOnItsBot
  <1>1. SlotContext /\ [Next]_vars =>
          [\A c \in Chats : bot[c].pending # NoOne =>
             \/ bot'[c].pending = bot[c].pending /\ bot'[c].thread = bot[c].thread
             \/ /\ posts'[c] # posts[c]
                /\ Last(posts'[c]).by = bot[c].pending
                /\ Last(posts'[c]).thread = bot[c].thread]_<<bot, posts>>
    BY SlotStep DEF Recovered
  <1>2. PauseInv /\ ClaimInv /\ ChainInv /\ SlotsAndPosts => SlotContext
    BY DEF SlotsAndPosts, SlotContext
  <1>3. QED
    BY PauseInvariant, ClaimInvariant, ChainInvariant, SlotInvariant, <1>1, <1>2, PTL
    DEF Spec, RecoveredOnItsBot

-------------------------------------------------------------------------------
(***************************************************************************)
(* The order of arrival                                                    *)
(***************************************************************************)

ArrivedOnce == \A i, j \in DOMAIN arrived : arrived[i] = arrived[j] => i = j

\* Delivery d arrived before e.
Before(d, e) == \E i, j \in DOMAIN arrived : i < j /\ arrived[i] = d /\ arrived[j] = e

\* If one party wrote them, batch a is older than batch b.
Precedes(a, b) ==
  PartyOf[a] = PartyOf[b] => \A d \in Items(a), e \in Items(b) : Before(d, e)

\* d waits in the buffer of p before e; a is on the chain of c before b; text by a
\* was accepted for c, and before text by b.
WaitsBefore(p, d, e) == \E i, j \in DOMAIN buffer[p] : i < j /\ buffer[p][i] = d /\ buffer[p][j] = e
QueuedBefore(c, a, b) == \E i, j \in DOMAIN chain[c] : i < j /\ chain[c][i] = a /\ chain[c][j] = b
TextsBy(c) == {posts[c][i].by : i \in Texts(c)}
PostedBefore(c, a, b) ==
  \E i, j \in Texts(c) : i < j /\ posts[c][i].by = a /\ posts[c][j].by = b

\* What a party's buffer holds is in order and younger than what it has flushed.
BufferOrdered(p) ==
  /\ \A d, e \in Deliveries : WaitsBefore(p, d, e) => Before(d, e)
  /\ \A b \in Deliveries : PartyOf[b] = p =>
       \A d \in Items(b), e \in ToSet(buffer[p]) : Before(d, e)

\* Accepted text is in order, and older than the text still to be accepted: that of
\* the batches on the chain ...
PostsOrdered(c) ==
  /\ \A a \in TextsBy(c) : batch[a].pc # "none"
  /\ \A a, b \in Deliveries : PostedBefore(c, a, b) => Precedes(a, b)

ChainOrdered(c) ==
  /\ \A a, b \in Deliveries : QueuedBefore(c, a, b) => Precedes(a, b)
  /\ \A a \in TextsBy(c), b \in ToSet(chain[c]) : batch[b].pc # "prompting" => Precedes(a, b)

\* ... and that in the slot, which in turn is older than the chain.
Unheard == Unclaimed \cup {"grounding"}
SlotOrdered(c) ==
  bot[c].pending # NoOne =>
    /\ ChatOf[bot[c].pending] = c /\ batch[bot[c].pending].pc \notin Unheard
    /\ ~bot[c].prompt =>
         /\ \A a \in TextsBy(c) : Precedes(a, bot[c].pending)
         /\ \A b \in ToSet(chain[c]) : b = bot[c].pending \/ Precedes(bot[c].pending, b)

OrderInv ==
  /\ ArrivedOnce
  /\ \A b \in Deliveries : \A d \in Items(b) : Here(d)
  /\ \A p \in Parties : BufferOrdered(p)
  /\ \A c \in Chats : PostsOrdered(c) /\ ChainOrdered(c) /\ SlotOrdered(c)

OrderContext == PauseInv /\ ClaimInv /\ ChainInv /\ SlotInv /\ PostsTyped /\ OrderInv

LEMMA TextsByDeliveries ==
  ASSUME PostsTyped, NEW c \in Chats
  PROVE  TextsBy(c) \subseteq Deliveries
  <1>1. PICK s \in Seq(PostSet) : s = posts[c]
    BY DEF PostsTyped
  <1>2. \A i \in DOMAIN s : s[i] \in PostSet
    OBVIOUS
  <1>3. QED
    BY <1>1, <1>2 DEF TextsBy, Texts, PostSet

\* One post more: its text, if it is one, comes after the others.
Added(c, r) == posts'[c] = Append(posts[c], r)

LEMMA PostedTexts ==
  ASSUME PostsTyped, NEW c \in Chats, NEW r \in PostSet, Added(c, r)
  PROVE  /\ TextsBy(c)' \subseteq TextsBy(c) \cup (IF r.as = "prompt" THEN {} ELSE {r.by})
         /\ \A a, b : PostedBefore(c, a, b)' =>
              PostedBefore(c, a, b) \/ (r.as # "prompt" /\ a \in TextsBy(c) /\ b = r.by)
  <1>1. PICK s \in Seq(PostSet) : s = posts[c]
    BY DEF PostsTyped
  <1>2. PICK t : t = Append(s, r)
    OBVIOUS
  <1>3. t = posts'[c]
    BY <1>1, <1>2 DEF Added
  <1>4. /\ Len(s) \in Nat /\ DOMAIN s = 1 .. Len(s) /\ DOMAIN t = 1 .. Len(s) + 1
        /\ t[Len(s) + 1] = r /\ \A i \in DOMAIN s : t[i] = s[i]
    <2>1. Len(s) \in Nat /\ DOMAIN s = 1 .. Len(s) /\ DOMAIN t = 1 .. Len(s) + 1
      BY <1>2
    <2>2. t[Len(s) + 1] = r
      BY <1>2
    <2>3. \A i \in DOMAIN s : t[i] = s[i]
      BY <1>2
    <2>4. QED
      BY <2>1, <2>2, <2>3
  <1>5. \A i \in Texts(c)' : i \in Texts(c) \/ (i = Len(s) + 1 /\ r.as # "prompt")
    BY <1>1, <1>3, <1>4 DEF Texts
  <1>6. \A i \in Texts(c) : i \in DOMAIN s /\ posts'[c][i].by = posts[c][i].by
    BY <1>1, <1>3, <1>4 DEF Texts
  <1>7. posts'[c][Len(s) + 1].by = r.by
    BY <1>3, <1>4
  <1>8. TextsBy(c)' \subseteq TextsBy(c) \cup (IF r.as = "prompt" THEN {} ELSE {r.by})
    BY <1>5, <1>6, <1>7 DEF TextsBy
  <1>9. ASSUME NEW a, NEW b, PostedBefore(c, a, b)'
        PROVE  PostedBefore(c, a, b) \/ (r.as # "prompt" /\ a \in TextsBy(c) /\ b = r.by)
    <2>1. PICK i \in Texts(c)', j \in Texts(c)' :
            i < j /\ posts'[c][i].by = a /\ posts'[c][j].by = b
      BY <1>9 DEF PostedBefore
    <2>2. i \in Texts(c)
      <3>1. j \in 1 .. Len(s) + 1
        BY <1>4, <1>5, <1>6
      <3>2. i # Len(s) + 1
        BY <1>4, <2>1, <3>1
      <3>3. QED
        BY <1>5, <3>2
    <2>3. CASE j \in Texts(c)
      BY <1>6, <2>1, <2>2, <2>3 DEF PostedBefore
    <2>4. CASE j = Len(s) + 1 /\ r.as # "prompt"
      BY <1>6, <1>7, <2>1, <2>2, <2>4 DEF TextsBy
    <2>5. QED
      BY <1>5, <2>3, <2>4
  <1>10. QED
    BY <1>8, <1>9

LEMMA SameTexts ==
  ASSUME NEW c, posts'[c] = posts[c]
  PROVE  /\ TextsBy(c)' = TextsBy(c)
         /\ \A a, b : PostedBefore(c, a, b)' <=> PostedBefore(c, a, b)
  BY DEF TextsBy, PostedBefore, Texts

\* A chain that stays as it is or loses its head.
LEMMA ShorterChain ==
  ASSUME ChainInv, NEW b \in Deliveries, Turn(b), UNCHANGED chain \/ LeaveChain(b)
  PROVE  /\ ToSet(chain'[ChatOf[b]]) \subseteq ToSet(chain[ChatOf[b]])
         /\ LeaveChain(b) => b \notin ToSet(chain'[ChatOf[b]])
         /\ \A a, e : QueuedBefore(ChatOf[b], a, e)' => QueuedBefore(ChatOf[b], a, e)
         /\ \A c \in Chats \ {ChatOf[b]} : chain'[c] = chain[c]
  <1> DEFINE k == ChatOf[b]
  <1>1. k \in Chats /\ ChainOK(k) /\ chain = [c \in Chats |-> chain[c]]
    BY DEF ChainInv, Chats
  <1>2. PICK s \in Seq(Deliveries) : s = chain[k]
    BY <1>1 DEF ChainOK
  <1>3. CASE LeaveChain(b)
    <2>1. PICK t : t = Tail(s) /\ t = chain'[k]
      BY <1>1, <1>2, <1>3 DEF LeaveChain
    <2>2. 1 \in DOMAIN s /\ s[1] = b /\ s # <<>>
      BY <1>2 DEF Turn
    <2>3. \A i \in DOMAIN t : i \in Nat /\ i + 1 \in DOMAIN s /\ t[i] = s[i + 1] /\ i + 1 # 1
      BY <2>1, <2>2
    <2>4. \A i, j \in DOMAIN s : s[i] = s[j] => i = j
      BY <1>1, <1>2 DEF ChainOK
    <2>5. /\ ToSet(chain'[k]) \subseteq ToSet(chain[k]) /\ b \notin ToSet(chain'[k])
      BY <1>2, <2>1, <2>2, <2>3, <2>4 DEF ToSet
    <2>6. ASSUME NEW a, NEW e, QueuedBefore(k, a, e)' PROVE QueuedBefore(k, a, e)
      <3>1. PICK i \in DOMAIN t, j \in DOMAIN t : i < j /\ t[i] = a /\ t[j] = e
        BY <2>1, <2>6 DEF QueuedBefore
      <3>2. i + 1 \in DOMAIN s /\ j + 1 \in DOMAIN s /\ i + 1 < j + 1
            /\ s[i + 1] = a /\ s[j + 1] = e
        BY <2>3, <3>1
      <3>3. QED
        BY <1>2, <3>2 DEF QueuedBefore
    <2>7. QED
      BY <1>1, <1>3, <2>5, <2>6 DEF LeaveChain
  <1>4. CASE UNCHANGED chain /\ ~LeaveChain(b)
    BY <1>4 DEF QueuedBefore
  <1>5. QED
    BY <1>3, <1>4

LEMMA SamePrecedes ==
  ASSUME UNCHANGED arrived, \A d \in Deliveries : batch'[d].items = batch[d].items
  PROVE  /\ \A d, e : Before(d, e)' <=> Before(d, e)
         /\ \A a \in Deliveries : Items(a)' = Items(a)
         /\ \A a, b \in Deliveries : Precedes(a, b)' <=> Precedes(a, b)
  <1>1. \A d, e : Before(d, e)' <=> Before(d, e)
    BY DEF Before
  <1>2. \A a \in Deliveries : Items(a)' = Items(a)
    BY DEF Items
  <1>3. QED
    BY <1>1, <1>2 DEF Precedes

\* The chain of batch b, its head.
LEMMA HeadBefore ==
  ASSUME ChainInv, NEW b \in Deliveries, Turn(b)
  PROVE  /\ b \in ToSet(chain[ChatOf[b]]) /\ AtWork(b)
         /\ \A e \in ToSet(chain[ChatOf[b]]) :
              /\ e \in Deliveries /\ ChatOf[e] = ChatOf[b]
              /\ e # b => QueuedBefore(ChatOf[b], b, e) /\ batch[e].pc = "queued"
  <1> DEFINE k == ChatOf[b]
  <1>1. ChainOK(k)
    BY DEF ChainInv, Chats
  <1>2. PICK s \in Seq(Deliveries) : s = chain[k]
    BY <1>1 DEF ChainOK
  <1>3. 1 \in DOMAIN s /\ s[1] = b
    BY <1>2 DEF Turn
  <1>4. ASSUME NEW e \in ToSet(chain[k])
        PROVE  /\ e \in Deliveries /\ ChatOf[e] = k
               /\ e # b => QueuedBefore(k, b, e) /\ batch[e].pc = "queued"
    <2>1. PICK i \in DOMAIN s : s[i] = e
      BY <1>2 DEF ToSet
    <2>2. e \in Deliveries /\ ChatOf[e] = k /\ (i > 1 => batch[e].pc = "queued")
      BY <1>1, <1>2, <2>1 DEF ChainOK
    <2>3. e # b => i > 1
      BY <1>3, <2>1
    <2>4. i > 1 => QueuedBefore(k, b, e)
      BY <1>2, <1>3, <2>1 DEF QueuedBefore
    <2>5. QED
      BY <2>2, <2>3, <2>4
  <1>5. b \in ToSet(chain[k]) /\ AtWork(b)
    <2>1. AtWork(s[1])
      BY <1>1, <1>2, <1>3 DEF ChainOK
    <2>2. QED
      BY <1>2, <1>3, <2>1 DEF ToSet
  <1>6. QED
    BY <1>4, <1>5

\* A step of the head of a chain, which may have texts by X accepted for its chat.
LEMMA OrderMove ==
  ASSUME OrderContext, NEW b \in Deliveries, Turn(b), NEW S, Moved(b, S), "none" \notin S,
         UNCHANGED <<arrived, buffer>>, UNCHANGED chain \/ LeaveChain(b),
         batch[b].pc = "prompting" => LeaveChain(b),
         \A d \in Chats \ {ChatOf[b]} : bot'[d] = bot[d] /\ posts'[d] = posts[d],
         NEW X \in SUBSET Deliveries,
         TextsBy(ChatOf[b])' \subseteq TextsBy(ChatOf[b]) \cup X,
         \A a, e : PostedBefore(ChatOf[b], a, e)' =>
           PostedBefore(ChatOf[b], a, e) \/ (a \in TextsBy(ChatOf[b]) /\ e \in X),
         \A x \in X :
           /\ batch[x].pc # "none" /\ \A a \in TextsBy(ChatOf[b]) : Precedes(a, x)
           /\ \A e \in ToSet(chain'[ChatOf[b]]) : batch'[e].pc # "prompting" => Precedes(x, e),
         SlotOrdered(ChatOf[b])'
  PROVE  OrderInv'
  <1> USE DEF OrderContext
  <1> DEFINE k == ChatOf[b]
  <1>1. k \in Chats
    BY DEF Chats
  <1>2. /\ \A d \in Deliveries : batch'[d].items = batch[d].items
        /\ \A d \in Deliveries : batch[d].pc # "none" => batch'[d].pc # "none"
    BY DEF Moved
  <1>3. /\ \A d, e : Before(d, e)' <=> Before(d, e)
        /\ \A a \in Deliveries : Items(a)' = Items(a)
        /\ \A a, e \in Deliveries : Precedes(a, e)' <=> Precedes(a, e)
    BY <1>2, SamePrecedes
  <1>4. ArrivedOnce' /\ \A a \in Deliveries : \A d \in Items(a)' : Here(d)'
    BY <1>3 DEF OrderInv, ArrivedOnce, Here
  <1>5. ASSUME NEW p \in Parties PROVE BufferOrdered(p)'
    BY <1>3 DEF OrderInv, BufferOrdered, WaitsBefore
  <1>6. ASSUME NEW c \in Chats, c # k
        PROVE  PostsOrdered(c)' /\ ChainOrdered(c)' /\ SlotOrdered(c)'
    <2>1. chain'[c] = chain[c] /\ bot'[c] = bot[c] /\ posts'[c] = posts[c]
      BY <1>6, ShorterChain
    <2>2. /\ TextsBy(c)' = TextsBy(c) /\ TextsBy(c) \subseteq Deliveries
          /\ \A a, e : PostedBefore(c, a, e)' <=> PostedBefore(c, a, e)
          /\ \A a, e : QueuedBefore(c, a, e)' <=> QueuedBefore(c, a, e)
      BY <2>1, SameTexts, TextsByDeliveries DEF QueuedBefore
    <2>3. \A e \in ToSet(chain[c]) : e \in Deliveries /\ ChatOf[e] = c
      BY DEF ChainInv, ChainOK, ToSet
    <2>4. PostsOrdered(c)'
      BY <1>2, <1>3, <2>2 DEF OrderInv, PostsOrdered
    <2>5. ChainOrdered(c)'
      <3>1. \A e \in ToSet(chain[c]) : batch'[e].pc = batch[e].pc
        BY <1>6, <2>3 DEF Moved
      <3>2. QED
        BY <1>3, <2>1, <2>2, <2>3, <3>1 DEF OrderInv, ChainOrdered
    <2>6. SlotOrdered(c)'
      <3>1. PICK x : x = bot[c].pending /\ x = bot'[c].pending
        BY <2>1
      <3>2. SlotOrdered(c) /\ (x # NoOne => x \in Deliveries)
        BY <3>1 DEF OrderInv, SlotInv, SlotOK
      <3>3. x # NoOne => batch'[x] = batch[x] /\ x \in Deliveries
        BY <1>6, <3>1, <3>2 DEF SlotOrdered, Moved
      <3>4. QED
        BY <1>3, <2>1, <2>2, <2>3, <3>1, <3>2, <3>3 DEF SlotOrdered
    <2>7. QED
      BY <2>4, <2>5, <2>6
  <1>7. TextsBy(k) \subseteq Deliveries /\ PostsOrdered(k) /\ ChainOrdered(k)
    BY <1>1, TextsByDeliveries DEF OrderInv
  <1>8. PostsOrdered(k)'
    BY <1>2, <1>3, <1>7 DEF PostsOrdered
  <1>9. ChainOrdered(k)'
    <2>1. /\ ToSet(chain'[k]) \subseteq ToSet(chain[k])
          /\ LeaveChain(b) => b \notin ToSet(chain'[k])
          /\ \A a, e : QueuedBefore(k, a, e)' => QueuedBefore(k, a, e)
      BY ShorterChain
    <2>2. \A e \in ToSet(chain'[k]) :
            /\ e \in Deliveries /\ e \in ToSet(chain[k])
            /\ batch'[e].pc # "prompting" => batch[e].pc # "prompting"
      <3>1. ASSUME NEW e \in ToSet(chain'[k])
            PROVE  /\ e \in Deliveries /\ e \in ToSet(chain[k])
                   /\ batch'[e].pc # "prompting" => batch[e].pc # "prompting"
        <4>1. e \in Deliveries /\ e \in ToSet(chain[k])
          BY <2>1, HeadBefore
        <4>2. CASE e = b
          BY <2>1, <4>1, <4>2
        <4>3. CASE e # b
          BY <4>1, <4>3 DEF Moved
        <4>4. QED
          BY <4>1, <4>2, <4>3
      <3>2. QED
        BY <3>1
    <2>3. ASSUME NEW a \in TextsBy(k)', NEW e \in ToSet(chain'[k]), batch'[e].pc # "prompting"
          PROVE  Precedes(a, e)'
      <3>1. Precedes(a, e)
        BY <1>7, <2>2, <2>3 DEF ChainOrdered
      <3>2. QED
        BY <1>3, <1>7, <2>2, <3>1
    <2>4. \A a, e \in Deliveries : QueuedBefore(k, a, e)' => Precedes(a, e)'
      BY <1>3, <1>7, <2>1 DEF ChainOrdered
    <2>5. QED
      BY <2>3, <2>4 DEF ChainOrdered
  <1>10. QED
    BY <1>4, <1>5, <1>6, <1>8, <1>9 DEF OrderInv

\* The slot stays as it is.
LEMMA SameSlot ==
  ASSUME OrderContext, NEW b \in Deliveries, Turn(b), NEW S, Moved(b, S),
         UNCHANGED arrived, UNCHANGED chain \/ LeaveChain(b),
         batch[b].pc \notin Unheard => S \cap Unheard = {},
         posts'[ChatOf[b]] = posts[ChatOf[b]],
         bot'[ChatOf[b]].pending = bot[ChatOf[b]].pending,
         bot'[ChatOf[b]].prompt = bot[ChatOf[b]].prompt
  PROVE  SlotOrdered(ChatOf[b])'
  <1> USE DEF OrderContext
  <1> DEFINE k == ChatOf[b]
  <1>1. k \in Chats /\ SlotOrdered(k) /\ SlotOK(k)
    BY DEF Chats, OrderInv, SlotInv
  <1>2. PICK x : x = bot[k].pending /\ x = bot'[k].pending
    OBVIOUS
  <1>3. CASE x # NoOne
    <2>1. x \in Deliveries /\ ChatOf[x] = k /\ batch[x].pc \notin Unheard
      BY <1>1, <1>2, <1>3 DEF SlotOrdered, SlotOK
    <2>2. batch'[x].pc \notin Unheard
      BY <2>1 DEF Moved
    <2>3. \A a, e \in Deliveries : Precedes(a, e)' <=> Precedes(a, e)
      BY SamePrecedes DEF Moved
    <2>4. TextsBy(k)' = TextsBy(k) /\ TextsBy(k) \subseteq Deliveries
      BY <1>1, SameTexts, TextsByDeliveries
    <2>5. ToSet(chain'[k]) \subseteq ToSet(chain[k]) /\ ToSet(chain[k]) \subseteq Deliveries
      BY ShorterChain, HeadBefore
    <2>6. ~bot[k].prompt => /\ \A a \in TextsBy(k) : Precedes(a, x)
                            /\ \A e \in ToSet(chain[k]) : e = x \/ Precedes(x, e)
      BY <1>1, <1>2, <1>3 DEF SlotOrdered
    <2>7. ~bot[k].prompt => /\ \A a \in TextsBy(k)' : Precedes(a, x)'
                            /\ \A e \in ToSet(chain'[k]) : e = x \/ Precedes(x, e)'
      BY <2>1, <2>3, <2>4, <2>5, <2>6
    <2>8. QED
      BY <1>2, <2>1, <2>2, <2>7 DEF SlotOrdered
  <1>4. CASE x = NoOne
    BY <1>2, <1>4 DEF SlotOrdered
  <1>5. QED
    BY <1>3, <1>4

LEMMA OrderQuiet ==
  ASSUME OrderContext, NEW b \in Deliveries,
         Start(b) \/ Resolve(b) \/ Ask(b) \/ AskFails(b) \/ RecoverFails(b)
  PROVE  OrderInv'
  <1> USE DEF OrderContext
  <1> DEFINE k == ChatOf[b]
  <1>1. k \in Chats /\ Turn(b) /\ UNCHANGED <<arrived, buffer, posts>> /\ SlotOK(k)
    BY ProcessMoves DEF Start, Resolve, Ask, AskFails, RecoverFails, Process, Chats, inVars,
      SlotInv
  <1>2. /\ bot'[k].pending = bot[k].pending /\ bot'[k].prompt = bot[k].prompt
        /\ \A d \in Chats \ {k} : bot'[d] = bot[d]
    <2>1. CASE RecoverFails(b)
      <3>1. PICK u : u = Upserted(k, bot[k].owner)
        OBVIOUS
      <3>2. bot' = bot \/ bot' = [bot EXCEPT ![k] = u]
        BY <2>1, <3>1 DEF RecoverFails
      <3>3. u.pending = bot[k].pending /\ u.prompt = bot[k].prompt
        BY <1>1, <3>1, UpsertedSlot DEF SlotOK
      <3>4. QED
        BY <1>1, <3>2, <3>3 DEF PauseInv, BotsTyped
    <2>2. CASE Start(b) \/ Resolve(b) \/ Ask(b) \/ AskFails(b)
      BY <2>2 DEF Start, Resolve, Ask, AskFails
    <2>3. QED
      BY <2>1, <2>2
  <1>3. PICK S : /\ Moved(b, S) /\ "none" \notin S /\ (UNCHANGED chain \/ LeaveChain(b))
                 /\ batch[b].pc = "prompting" => LeaveChain(b)
                 /\ batch[b].pc \notin Unheard => S \cap Unheard = {}
    <2>1. CASE Start(b)
      <3>1. batch[b].pc = "queued" /\ Moved(b, {"resolving", "done"})
        BY <2>1, PcMoves DEF Start, End, Moved
      <3>2. QED
        BY <2>1, <3>1 DEF Start, End, Unheard, Unclaimed
    <2>2. CASE Resolve(b)
      <3>1. batch[b].pc = "resolving" /\ (UNCHANGED chain \/ LeaveChain(b))
            /\ Moved(b, {"done", "dispatching", "recovering", "grounding"})
        BY <2>2, ResolveMoves DEF Leaves, GoesOn, Moved
      <3>2. QED
        BY <3>1 DEF Unheard, Unclaimed
    <2>3. CASE Ask(b)
      <3>1. batch[b].pc = "grounding" /\ UNCHANGED chain /\ Moved(b, {"asking"})
        BY <2>3, PcMoves DEF Ask
      <3>2. QED
        BY <3>1 DEF Unheard
    <2>4. CASE AskFails(b) \/ RecoverFails(b)
      <3>1. LeaveChain(b) /\ Moved(b, {"done"})
        BY <2>4, PcMoves DEF AskFails, RecoverFails, Abandon, End
      <3>2. QED
        BY <3>1 DEF Unheard, Unclaimed
    <2>5. QED
      BY <2>1, <2>2, <2>3, <2>4
  <1>4. SlotOrdered(k)'
    BY <1>1, <1>2, <1>3, SameSlot
  <1>5. PICK X \in SUBSET Deliveries : X = {}
    OBVIOUS
  <1>6. /\ TextsBy(k)' = TextsBy(k)
        /\ \A a, e : PostedBefore(k, a, e)' <=> PostedBefore(k, a, e)
    BY <1>1, SameTexts
  <1>7. QED
    BY <1>1, <1>2, <1>3, <1>4, <1>5, <1>6, OrderMove

\* What Posted() adds.
LEMMA PostAdded ==
  ASSUME PostsTyped, NEW c \in Chats, NEW b \in Deliveries, NEW t \in Nat,
         NEW as \in {"turn", "recovery", "prompt"},
         NEW response \in {"force_respond", "force_skip"}, Posted(c, b, t, as, response)
  PROVE  /\ TextsBy(c)' \subseteq TextsBy(c) \cup (IF as = "prompt" THEN {} ELSE {b})
         /\ \A a, e : PostedBefore(c, a, e)' =>
              PostedBefore(c, a, e) \/ (as # "prompt" /\ a \in TextsBy(c) /\ e = b)
         /\ \A d \in Chats \ {c} : posts'[d] = posts[d]
  <1>1. PICK r : r = [by |-> b, thread |-> t, as |-> as, response |-> response]
    OBVIOUS
  <1>2. r \in PostSet /\ r.by = b /\ r.as = as
    BY <1>1 DEF PostSet
  <1>3. Added(c, r) /\ \A d \in Chats \ {c} : posts'[d] = posts[d]
    <2>1. posts' = [posts EXCEPT ![c] = Append(@, r)]
      BY <1>1, Zenon DEF Posted
    <2>2. posts'[c] = Append(posts[c], r)
      BY <2>1, Zenon DEF PostsTyped
    <2>3. \A d \in Chats \ {c} : posts'[d] = posts[d]
      BY <2>1, Zenon DEF PostsTyped
    <2>4. QED
      BY <2>2, <2>3, Zenon DEF Added
  <1>4. QED
    BY <1>2, <1>3, PostedTexts

LEMMA OrderPrompt ==
  ASSUME OrderContext, NEW b \in Deliveries, PromptAccepted(b)
  PROVE  OrderInv'
  <1> USE DEF OrderContext
  <1> DEFINE k == ChatOf[b]
  <1>1. /\ k \in Chats /\ Turn(b) /\ UNCHANGED <<arrived, buffer>> /\ SlotOK(k)
        /\ bot[k].pending = NoOne
    BY ProcessMoves DEF PromptAccepted, Process, Chats, inVars, SlotInv, SlotFor
  <1>2. PICK u : u = Upserted(k, batch[b].owner)
    OBVIOUS
  <1>3. bot' = [bot EXCEPT ![k] = u] /\ Posted(k, b, bot'[k].thread, "prompt", "force_respond")
    BY <1>2 DEF PromptAccepted
  <1>4. u.thread \in Nat /\ u.pending = NoOne
    BY <1>1, <1>2, UpsertedSlot DEF SlotOK
  <1>5. bot'[k] = u /\ \A d \in Chats \ {k} : bot'[d] = bot[d]
    BY <1>1, <1>3 DEF PauseInv, BotsTyped
  <1>6. PICK t \in Nat : t = bot'[k].thread
    BY <1>4, <1>5
  <1>7. Posted(k, b, t, "prompt", "force_respond")
    BY <1>3, <1>6
  <1>8. /\ TextsBy(k)' \subseteq TextsBy(k)
        /\ \A a, e : PostedBefore(k, a, e)' => PostedBefore(k, a, e)
        /\ \A d \in Chats \ {k} : posts'[d] = posts[d]
    BY <1>1, <1>7, PostAdded
  <1>9. SlotOrdered(k)'
    BY <1>4, <1>5 DEF SlotOrdered
  <1>10. LeaveChain(b) /\ Moved(b, {"done", "dispatching"})
    BY ConcludeMoves DEF PromptAccepted, Leaves
  <1>11. PICK S : S = {"done", "dispatching"} /\ "none" \notin S /\ Moved(b, S)
    BY <1>10
  <1>12. PICK X \in SUBSET Deliveries : X = {}
    OBVIOUS
  <1>13. QED
    BY <1>1, <1>5, <1>8, <1>9, <1>10, <1>11, <1>12, OrderMove

LEMMA OrderRejected ==
  ASSUME OrderContext, NEW b \in Deliveries, AskRejected(b)
  PROVE  OrderInv'
  <1> USE DEF OrderContext
  <1> DEFINE k == ChatOf[b]
  <1>1. /\ k \in Chats /\ Turn(b) /\ UNCHANGED <<arrived, buffer, posts>> /\ SlotOK(k)
        /\ batch[b].pc \in {"asking", "prompting"}
    BY ProcessMoves DEF AskRejected, Process, Chats, inVars, SlotInv
  <1>2. PICK u, prompt : u = Upserted(k, batch[b].owner) /\ prompt = (batch[b].pc = "prompting")
    OBVIOUS
  <1>3. PICK r : r = [u EXCEPT !.pending = b, !.prompt = prompt]
    OBVIOUS
  <1>4. bot' = [bot EXCEPT ![k] = r]
    BY <1>2, <1>3, Zenon DEF AskRejected
  <1>5. IsBot(u)
    BY <1>1, <1>2, UpsertedSlot DEF SlotOK
  <1>6. r.pending = b /\ r.prompt = prompt
    <2>1. PICK S : u \in Rows(S)
      BY <1>5 DEF IsBot
    <2>2. QED
      BY <1>3, <2>1 DEF Rows
  <1>7. bot'[k] = r /\ \A d \in Chats \ {k} : bot'[d] = bot[d]
    BY <1>1, <1>4 DEF PauseInv, BotsTyped
  <1>8. PICK S : /\ Moved(b, S) /\ "none" \notin S /\ S \cap Unheard = {}
                 /\ UNCHANGED chain \/ LeaveChain(b)
                 /\ batch[b].pc = "prompting" => LeaveChain(b)
    BY RejectedMoves DEF Leaves, GoesOn, Unheard, Unclaimed
  <1>9. \A a, e \in Deliveries : Precedes(a, e)' <=> Precedes(a, e)
    BY <1>1, <1>8, SamePrecedes DEF Moved
  <1>10. TextsBy(k)' = TextsBy(k) /\ TextsBy(k) \subseteq Deliveries
         /\ \A a, e : PostedBefore(k, a, e)' <=> PostedBefore(k, a, e)
    BY <1>1, SameTexts, TextsByDeliveries
  <1>11. SlotOrdered(k)'
    <2>1. bot'[k].pending = b /\ (bot'[k].prompt <=> batch[b].pc = "prompting")
      BY <1>2, <1>6, <1>7
    <2>2. batch'[b].pc \notin Unheard
      BY <1>8 DEF Moved
    <2>3. ASSUME batch[b].pc = "asking"
          PROVE  /\ \A a \in TextsBy(k)' : Precedes(a, b)'
                 /\ \A e \in ToSet(chain'[k]) : e = b \/ Precedes(b, e)'
      <3>1. ChainOrdered(k)
        BY <1>1 DEF OrderInv
      <3>2. \A a \in TextsBy(k) : Precedes(a, b)
        BY <2>3, <3>1, HeadBefore, <1>1 DEF ChainOrdered
      <3>3. \A e \in ToSet(chain[k]) : e \in Deliveries /\ (e = b \/ Precedes(b, e))
        BY <3>1, <1>1, HeadBefore DEF ChainOrdered
      <3>4. ToSet(chain'[k]) \subseteq ToSet(chain[k])
        BY <1>1, <1>8, ShorterChain
      <3>5. QED
        BY <1>9, <1>10, <3>2, <3>3, <3>4
    <2>4. QED
      BY <1>1, <2>1, <2>2, <2>3 DEF SlotOrdered
  <1>12. PICK X \in SUBSET Deliveries : X = {}
    OBVIOUS
  <1>13. QED
    BY <1>1, <1>7, <1>8, <1>10, <1>11, <1>12, OrderMove

LEMMA OrderAccepted ==
  ASSUME OrderContext, NEW b \in Deliveries, AskAccepted(b)
  PROVE  OrderInv'
  <1> USE DEF OrderContext
  <1> DEFINE k == ChatOf[b]
             response == IF batch[b].mode = "respond" THEN "force_respond" ELSE "force_skip"
  <1>1. /\ k \in Chats /\ Turn(b) /\ UNCHANGED <<arrived, buffer>> /\ SlotOK(k)
        /\ batch[b].pc = "asking" /\ ChainOrdered(k)
    BY ProcessMoves DEF AskAccepted, Process, Chats, inVars, SlotInv, OrderInv
  <1>2. PICK u : u = Upserted(k, batch[b].owner)
    OBVIOUS
  <1>3. bot' = [bot EXCEPT ![k] = Cleared(u)] /\ Posted(k, b, bot'[k].thread, "turn", response)
    BY <1>2 DEF AskAccepted
  <1>4. IsBot(u) /\ u.thread \in Nat
    BY <1>1, <1>2, UpsertedSlot DEF SlotOK
  <1>5. bot'[k] = Cleared(u) /\ \A d \in Chats \ {k} : bot'[d] = bot[d]
    BY <1>1, <1>3 DEF PauseInv, BotsTyped
  <1>6. bot'[k].pending = NoOne /\ bot'[k].thread \in Nat
    BY <1>4, <1>5, ClearedSlot
  <1>7. /\ TextsBy(k)' \subseteq TextsBy(k) \cup {b}
        /\ \A a, e : PostedBefore(k, a, e)' =>
              PostedBefore(k, a, e) \/ (a \in TextsBy(k) /\ e = b)
        /\ \A d \in Chats \ {k} : posts'[d] = posts[d]
    <2>1. PICK t \in Nat, y \in {"force_respond", "force_skip"} : t = bot'[k].thread /\ y = response
      BY <1>6
    <2>2. Posted(k, b, t, "turn", y)
      BY <1>3, <2>1
    <2>3. QED
      BY <1>1, <2>2, PostAdded
  <1>8. SlotOrdered(k)'
    BY <1>6 DEF SlotOrdered
  <1>9. PICK S : /\ Moved(b, S) /\ "none" \notin S
                 /\ \/ UNCHANGED chain /\ S = {"prompting"}
                    \/ LeaveChain(b)
    BY AcceptedMoves DEF Leaves, GoesOn
  <1>10. \A a \in TextsBy(k) : Precedes(a, b)
    BY <1>1, HeadBefore DEF ChainOrdered
  <1>11. ASSUME NEW e \in ToSet(chain'[k]), batch'[e].pc # "prompting"
         PROVE  Precedes(b, e)
    <2>1. e \in ToSet(chain[k]) /\ (LeaveChain(b) => e # b)
      BY <1>1, <1>9, ShorterChain
    <2>2. e # b
      BY <1>9, <1>11, <2>1 DEF Moved
    <2>3. e \in Deliveries /\ QueuedBefore(k, b, e)
      BY <1>1, <2>1, <2>2, HeadBefore
    <2>4. QED
      BY <1>1, <2>3 DEF ChainOrdered
  <1>12. PICK X \in SUBSET Deliveries : X = {b}
    OBVIOUS
  <1>13. \A x \in X :
           /\ batch[x].pc # "none" /\ \A a \in TextsBy(k) : Precedes(a, x)
           /\ \A e \in ToSet(chain'[k]) : batch'[e].pc # "prompting" => Precedes(x, e)
    BY <1>1, <1>10, <1>11, <1>12
  <1>14. QED
    BY <1>1, <1>5, <1>7, <1>8, <1>9, <1>12, <1>13, OrderMove

LEMMA OrderRecover ==
  ASSUME OrderContext, NEW b \in Deliveries, Recover(b)
  PROVE  OrderInv'
  <1> USE DEF OrderContext
  <1> DEFINE k == ChatOf[b]
  <1>1. /\ k \in Chats /\ Turn(b) /\ UNCHANGED <<arrived, buffer>> /\ SlotOK(k)
        /\ batch[b].pc = "recovering" /\ bot[k].pending # NoOne /\ SlotOrdered(k)
    BY ProcessMoves DEF Recover, Process, Chats, inVars, SlotInv, SlotFor, OrderInv
  <1>2. PICK x \in Deliveries, t \in Nat, as \in {"recovery", "prompt"} :
          /\ x = bot[k].pending /\ t = bot[k].thread
          /\ as = (IF bot[k].prompt THEN "prompt" ELSE "recovery")
    BY <1>1 DEF SlotOK
  <1>3. PICK u : u = Upserted(k, bot[k].owner)
    OBVIOUS
  <1>4. bot' = [bot EXCEPT ![k] = Cleared(u)] /\ Posted(k, x, t, as, "force_skip")
    BY <1>2, <1>3 DEF Recover
  <1>5. bot'[k] = Cleared(u) /\ \A d \in Chats \ {k} : bot'[d] = bot[d]
    BY <1>1, <1>4 DEF PauseInv, BotsTyped
  <1>6. bot'[k].pending = NoOne
    BY <1>1, <1>3, <1>5, UpsertedSlot, ClearedSlot DEF SlotOK
  <1>7. SlotOrdered(k)'
    BY <1>6 DEF SlotOrdered
  <1>8. PICK X \in SUBSET Deliveries : X = (IF as = "prompt" THEN {} ELSE {x})
    OBVIOUS
  <1>9. /\ TextsBy(k)' \subseteq TextsBy(k) \cup X
        /\ \A a, e : PostedBefore(k, a, e)' =>
              PostedBefore(k, a, e) \/ (a \in TextsBy(k) /\ e \in X)
        /\ \A d \in Chats \ {k} : posts'[d] = posts[d]
    <2>1. PICK kind \in {"turn", "recovery", "prompt"} : kind = as
      OBVIOUS
    <2>2. Posted(k, x, t, kind, "force_skip")
      BY <1>4, <2>1
    <2>3. /\ TextsBy(k)' \subseteq TextsBy(k) \cup (IF kind = "prompt" THEN {} ELSE {x})
          /\ \A a, e : PostedBefore(k, a, e)' =>
                PostedBefore(k, a, e) \/ (kind # "prompt" /\ a \in TextsBy(k) /\ e = x)
          /\ \A d \in Chats \ {k} : posts'[d] = posts[d]
      BY <1>1, <2>2, PostAdded
    <2>4. QED
      BY <1>8, <2>1, <2>3
  <1>10. PICK S : /\ Moved(b, S) /\ "none" \notin S
                  /\ UNCHANGED chain \/ LeaveChain(b)
    <2>1. IsBatch(batch[b]) /\ \E rows : ClaimItems(b, batch[b], rows)
      BY DEF Recover, ClaimInv, BatchOK
    <2>2. QED
      BY <2>1, ClaimMoves DEF Leaves, GoesOn
  <1>11. ASSUME NEW y \in X
         PROVE  /\ batch[y].pc # "none" /\ \A a \in TextsBy(k) : Precedes(a, y)
                /\ \A e \in ToSet(chain'[k]) : batch'[e].pc # "prompting" => Precedes(y, e)
    <2>1. y = x /\ ~bot[k].prompt
      BY <1>2, <1>8
    <2>2. batch[x].pc \notin Unheard /\ x # b
      BY <1>1, <1>2 DEF SlotOrdered, Unheard, Unclaimed
    <2>3. /\ \A a \in TextsBy(k) : Precedes(a, x)
          /\ \A e \in ToSet(chain[k]) : e = x \/ Precedes(x, e)
      BY <1>1, <1>2, <2>1 DEF SlotOrdered
    <2>4. \A e \in ToSet(chain[k]) : e # x
      BY <1>1, <2>2, HeadBefore DEF Unheard, Unclaimed
    <2>5. ToSet(chain'[k]) \subseteq ToSet(chain[k])
      BY <1>1, <1>10, ShorterChain
    <2>6. QED
      BY <2>1, <2>2, <2>3, <2>4, <2>5 DEF Unheard, Unclaimed
  <1>12. QED
    BY <1>1, <1>5, <1>7, <1>8, <1>9, <1>10, <1>11, OrderMove

\* A step after which nothing new waits, is queued, accepted or in a slot.
LEMMA OrderKept ==
  ASSUME OrderContext, UNCHANGED <<arrived, posts>>,
         \A d \in Deliveries :
           /\ batch'[d].items = batch[d].items
           /\ batch[d].pc # "none" => batch'[d].pc # "none"
           /\ batch[d].pc \notin Unheard => batch'[d].pc \notin Unheard,
         \A c \in Chats : bot'[c].pending = bot[c].pending /\ bot'[c].prompt = bot[c].prompt,
         \A p \in Parties : /\ \A d, e : WaitsBefore(p, d, e)' => WaitsBefore(p, d, e)
                            /\ ToSet(buffer'[p]) \subseteq ToSet(buffer[p]),
         \A c \in Chats : /\ \A d, e : QueuedBefore(c, d, e)' => QueuedBefore(c, d, e)
                          /\ ToSet(chain'[c]) \subseteq ToSet(chain[c])
                          /\ \A b \in ToSet(chain'[c]) : batch'[b].pc = batch[b].pc
  PROVE  OrderInv'
  <1> USE DEF OrderContext
  <1>1. /\ \A d, e : Before(d, e)' <=> Before(d, e)
        /\ \A a \in Deliveries : Items(a)' = Items(a)
        /\ \A a, b \in Deliveries : Precedes(a, b)' <=> Precedes(a, b)
    BY SamePrecedes
  <1>2. ArrivedOnce' /\ \A a \in Deliveries : \A d \in Items(a)' : Here(d)'
    BY <1>1 DEF OrderInv, ArrivedOnce, Here
  <1>3. ASSUME NEW p \in Parties PROVE BufferOrdered(p)'
    <2>1. BufferOrdered(p)
      BY DEF OrderInv
    <2>2. QED
      BY <1>1, <2>1 DEF BufferOrdered
  <1>4. ASSUME NEW c \in Chats
        PROVE  PostsOrdered(c)' /\ ChainOrdered(c)' /\ SlotOrdered(c)'
    <2>1. PostsOrdered(c) /\ ChainOrdered(c) /\ SlotOrdered(c) /\ SlotOK(c)
      BY DEF OrderInv, SlotInv
    <2>2. /\ TextsBy(c)' = TextsBy(c) /\ TextsBy(c) \subseteq Deliveries
          /\ \A a, e : PostedBefore(c, a, e)' <=> PostedBefore(c, a, e)
      BY SameTexts, TextsByDeliveries
    <2>3. \A b \in ToSet(chain[c]) : b \in Deliveries
      BY DEF ChainInv, ChainOK, ToSet
    <2>4. PostsOrdered(c)'
      BY <1>1, <2>1, <2>2 DEF PostsOrdered
    <2>5. ChainOrdered(c)'
      <3>1. \A a, e \in Deliveries : QueuedBefore(c, a, e)' => Precedes(a, e)'
        BY <1>1, <2>1 DEF ChainOrdered
      <3>2. ASSUME NEW a \in TextsBy(c)', NEW e \in ToSet(chain'[c]), batch'[e].pc # "prompting"
            PROVE  Precedes(a, e)'
        <4>1. e \in ToSet(chain[c]) /\ batch[e].pc # "prompting"
          BY <3>2
        <4>2. QED
          BY <1>1, <2>1, <2>2, <2>3, <4>1 DEF ChainOrdered
      <3>3. QED
        BY <3>1, <3>2 DEF ChainOrdered
    <2>6. SlotOrdered(c)'
      <3>1. PICK x : x = bot[c].pending /\ x = bot'[c].pending
        OBVIOUS
      <3>2. CASE x = NoOne
        BY <3>1, <3>2 DEF SlotOrdered
      <3>3. CASE x # NoOne
        <4>1. x \in Deliveries /\ ChatOf[x] = c /\ batch[x].pc \notin Unheard
          BY <2>1, <3>1, <3>3 DEF SlotOrdered, SlotOK
        <4>2. batch'[x].pc \notin Unheard
          BY <4>1
        <4>3. ~bot[c].prompt => /\ \A a \in TextsBy(c) : Precedes(a, x)
                                /\ \A e \in ToSet(chain[c]) : e = x \/ Precedes(x, e)
          BY <2>1, <3>1, <3>3 DEF SlotOrdered
        <4>4. ~bot[c].prompt => /\ \A a \in TextsBy(c)' : Precedes(a, x)'
                                /\ \A e \in ToSet(chain'[c]) : e = x \/ Precedes(x, e)'
          BY <1>1, <2>2, <2>3, <4>1, <4>3
        <4>5. QED
          BY <3>1, <4>1, <4>2, <4>4 DEF SlotOrdered
      <3>4. QED
        BY <3>2, <3>3
    <2>7. QED
      BY <2>4, <2>5, <2>6
  <1>5. QED
    BY <1>2, <1>3, <1>4 DEF OrderInv

LEMMA OrderDispatch ==
  ASSUME OrderContext, NEW b \in Deliveries, DispatchEnds(b)
  PROVE  OrderInv'
  <1> USE DEF OrderContext
  <1>1. batch[b].pc = "dispatching" /\ UNCHANGED <<arrived, buffer, posts, chain, bot>>
    BY DEF DispatchEnds, inVars
  <1>2. Moved(b, {"done"})
    BY PcMoves DEF DispatchEnds
  <1>3. \A c \in Chats : \A a \in ToSet(chain[c]) : a \in Deliveries /\ a # b
    BY <1>1 DEF ChainInv, ChainOK, ToSet, AtWork, Working
  <1>4. \A c \in Chats : \A a \in ToSet(chain'[c]) : batch'[a].pc = batch[a].pc
    BY <1>1, <1>2, <1>3 DEF Moved
  <1>5. \A d \in Deliveries :
          /\ batch'[d].items = batch[d].items
          /\ batch[d].pc # "none" => batch'[d].pc # "none"
          /\ batch[d].pc \notin Unheard => batch'[d].pc \notin Unheard
    BY <1>2 DEF Moved, Unheard, Unclaimed
  <1>6. /\ \A p, d, e : WaitsBefore(p, d, e)' <=> WaitsBefore(p, d, e)
        /\ \A c, d, e : QueuedBefore(c, d, e)' <=> QueuedBefore(c, d, e)
    BY <1>1 DEF WaitsBefore, QueuedBefore
  <1>7. QED
    BY <1>1, <1>4, <1>5, <1>6, OrderKept

LEMMA OrderCrash ==
  ASSUME OrderContext, Crash
  PROVE  OrderInv'
  <1> USE DEF OrderContext
  <1>1. /\ UNCHANGED <<arrived, posts, bot>>
        /\ \A p \in Parties : buffer'[p] = <<>>
        /\ \A c \in Chats : chain'[c] = <<>>
    BY DEF Crash
  <1>2. ASSUME NEW d \in Deliveries
        PROVE  /\ batch'[d].items = batch[d].items
               /\ batch[d].pc # "none" => batch'[d].pc # "none"
               /\ batch[d].pc \notin Unheard => batch'[d].pc \notin Unheard
    BY Died DEF Unheard, Unclaimed
  <1>3. \A p \in Parties : ToSet(buffer'[p]) = {} /\ \A d, e : ~WaitsBefore(p, d, e)'
    BY <1>1 DEF ToSet, WaitsBefore
  <1>4. \A c \in Chats : ToSet(chain'[c]) = {} /\ \A d, e : ~QueuedBefore(c, d, e)'
    BY <1>1 DEF ToSet, QueuedBefore
  <1>5. QED
    BY <1>1, <1>2, <1>3, <1>4, OrderKept

LEMMA OrderAround ==
  ASSUME OrderContext, UNCHANGED <<arrived, buffer, chain, batch, posts>>,
         \A c \in Chats : bot'[c].pending = bot[c].pending /\ bot'[c].prompt = bot[c].prompt
  PROVE  OrderInv'
  <1>1. /\ \A p, d, e : WaitsBefore(p, d, e)' <=> WaitsBefore(p, d, e)
        /\ \A c, d, e : QueuedBefore(c, d, e)' <=> QueuedBefore(c, d, e)
    BY DEF WaitsBefore, QueuedBefore
  <1>2. QED
    BY <1>1, OrderKept

\* A delivery is younger than all that arrived before it.
LEMMA Younger ==
  ASSUME ClaimInv, ArrivedOnce, NEW d \in Deliveries, Receive(d)
  PROVE  /\ ArrivedOnce' /\ Here(d)' /\ \A e : Here(e) => Here(e)' /\ Before(e, d)'
         /\ \A e, f : Before(e, f) => Before(e, f)'
  <1>1. PICK s \in Seq(Deliveries) : s = arrived
    BY DEF ClaimInv, BuffersOK
  <1>2. PICK t : t = Append(s, d)
    OBVIOUS
  <1>3. t = arrived' /\ \A i \in DOMAIN s : s[i] # d
    BY <1>1, <1>2 DEF Receive
  <1>4. /\ Len(s) \in Nat /\ DOMAIN s = 1 .. Len(s) /\ DOMAIN t = 1 .. Len(s) + 1
        /\ t[Len(s) + 1] = d /\ \A i \in DOMAIN s : t[i] = s[i]
    BY <1>2
  <1>5. \A i, j \in DOMAIN s : s[i] = s[j] => i = j
    BY <1>1 DEF ArrivedOnce
  <1>6. \A i, j \in DOMAIN t : t[i] = t[j] => i = j
    BY <1>3, <1>4, <1>5
  <1>7. Here(d)'
    BY <1>3, <1>4 DEF Here
  <1>8. ASSUME NEW e, Here(e) PROVE Here(e)' /\ Before(e, d)'
    <2>1. PICK i \in DOMAIN s : s[i] = e
      BY <1>1, <1>8 DEF Here
    <2>2. i \in DOMAIN t /\ t[i] = e /\ i < Len(s) + 1 /\ Len(s) + 1 \in DOMAIN t
      BY <1>4, <2>1
    <2>3. QED
      BY <1>3, <1>4, <2>2 DEF Here, Before
  <1>9. ASSUME NEW e, NEW f, Before(e, f) PROVE Before(e, f)'
    <2>1. PICK i \in DOMAIN s, j \in DOMAIN s : i < j /\ s[i] = e /\ s[j] = f
      BY <1>1, <1>9 DEF Before
    <2>2. i \in DOMAIN t /\ j \in DOMAIN t /\ t[i] = e /\ t[j] = f
      BY <1>4, <2>1
    <2>3. QED
      BY <1>3, <2>1, <2>2 DEF Before
  <1>10. QED
    BY <1>3, <1>6, <1>7, <1>8, <1>9 DEF ArrivedOnce

\* It waits behind what its buffer holds.
LEMMA WaitsLast ==
  ASSUME ClaimInv, NEW d \in Deliveries, Receive(d), NEW p \in Parties
  PROVE  /\ ToSet(buffer'[p]) \subseteq ToSet(buffer[p]) \cup {d}
         /\ \A e, f : WaitsBefore(p, e, f)' =>
              WaitsBefore(p, e, f) \/ (e \in ToSet(buffer[p]) /\ f = d)
  <1>1. PICK s \in Seq(Deliveries) : s = buffer[p]
    BY DEF ClaimInv, BuffersOK
  <1>2. CASE PartyOf[d] # p
    <2>1. buffer'[p] = buffer[p]
      BY <1>2 DEF Receive, ClaimInv, BuffersOK
    <2>2. QED
      BY <2>1 DEF WaitsBefore
  <1>3. CASE PartyOf[d] = p
    <2>1. PICK t : t = Append(s, d)
      OBVIOUS
    <2>2. t = buffer'[p]
      BY <1>1, <1>3, <2>1 DEF Receive, ClaimInv, BuffersOK
    <2>3. /\ Len(s) \in Nat /\ DOMAIN s = 1 .. Len(s) /\ DOMAIN t = 1 .. Len(s) + 1
          /\ t[Len(s) + 1] = d /\ \A i \in DOMAIN s : t[i] = s[i]
      BY <2>1
    <2>4. ToSet(buffer'[p]) \subseteq ToSet(buffer[p]) \cup {d}
      <3>1. \A i \in DOMAIN t : i \in DOMAIN s \/ t[i] = d
        BY <2>3
      <3>2. QED
        BY <1>1, <2>2, <2>3, <3>1 DEF ToSet
    <2>5. ASSUME NEW e, NEW f, WaitsBefore(p, e, f)'
          PROVE  WaitsBefore(p, e, f) \/ (e \in ToSet(buffer[p]) /\ f = d)
      <3>1. PICK i \in DOMAIN t, j \in DOMAIN t : i < j /\ t[i] = e /\ t[j] = f
        BY <2>2, <2>5 DEF WaitsBefore
      <3>2. i \in DOMAIN s /\ s[i] = e
        BY <2>3, <3>1
      <3>3. CASE j \in DOMAIN s
        BY <1>1, <2>3, <3>1, <3>2, <3>3 DEF WaitsBefore
      <3>4. CASE j = Len(s) + 1
        BY <1>1, <2>3, <3>1, <3>2, <3>4 DEF ToSet
      <3>5. QED
        BY <2>3, <3>1, <3>3, <3>4
    <2>6. QED
      BY <2>4, <2>5
  <1>4. QED
    BY <1>2, <1>3

LEMMA OrderReceive ==
  ASSUME OrderContext, NEW d \in Deliveries, Receive(d)
  PROVE  OrderInv'
  <1> USE DEF OrderContext
  <1>1. UNCHANGED <<chain, batch, bot, posts>>
    BY DEF Receive
  <1>2. /\ ArrivedOnce' /\ Here(d)' /\ \A e : Here(e) => Here(e)' /\ Before(e, d)'
        /\ \A e, f : Before(e, f) => Before(e, f)'
    BY Younger DEF OrderInv
  <1>3. \A a \in Deliveries : Items(a)' = Items(a)
    BY <1>1 DEF Items
  <1>4. \A a, b \in Deliveries : Precedes(a, b) => Precedes(a, b)'
    BY <1>2, <1>3 DEF Precedes
  <1>5. \A a \in Deliveries : \A e \in Items(a)' : Here(e)'
    BY <1>2, <1>3 DEF OrderInv
  <1>6. ASSUME NEW p \in Parties PROVE BufferOrdered(p)'
    <2>1. BufferOrdered(p) /\ \A e \in ToSet(buffer[p]) : Here(e)
      BY DEF OrderInv, ClaimInv, BuffersOK, ToSet
    <2>2. /\ ToSet(buffer'[p]) \subseteq ToSet(buffer[p]) \cup {d}
          /\ \A e, f : WaitsBefore(p, e, f)' =>
               WaitsBefore(p, e, f) \/ (e \in ToSet(buffer[p]) /\ f = d)
      BY WaitsLast
    <2>3. \A e, f \in Deliveries : WaitsBefore(p, e, f)' => Before(e, f)'
      BY <1>2, <2>1, <2>2 DEF BufferOrdered
    <2>4. ASSUME NEW b \in Deliveries, PartyOf[b] = p,
                 NEW e \in Items(b)', NEW f \in ToSet(buffer'[p])
          PROVE  Before(e, f)'
      <3>1. e \in Items(b) /\ Here(e)
        BY <1>3, <2>4 DEF OrderInv
      <3>2. CASE f = d
        BY <1>2, <3>1, <3>2
      <3>3. CASE f \in ToSet(buffer[p])
        BY <1>2, <2>1, <2>4, <3>1, <3>3 DEF BufferOrdered
      <3>4. QED
        BY <2>2, <2>4, <3>2, <3>3
    <2>5. QED
      BY <2>3, <2>4 DEF BufferOrdered
  <1>7. ASSUME NEW c \in Chats
        PROVE  PostsOrdered(c)' /\ ChainOrdered(c)' /\ SlotOrdered(c)'
    <2>1. PostsOrdered(c) /\ ChainOrdered(c) /\ SlotOrdered(c) /\ SlotOK(c)
      BY DEF OrderInv, SlotInv
    <2>2. /\ TextsBy(c)' = TextsBy(c) /\ TextsBy(c) \subseteq Deliveries
          /\ \A a, e : PostedBefore(c, a, e)' <=> PostedBefore(c, a, e)
      BY <1>1, SameTexts, TextsByDeliveries
    <2>3. \A b \in ToSet(chain[c]) : b \in Deliveries
      BY DEF ChainInv, ChainOK, ToSet
    <2>4. PostsOrdered(c)'
      BY <1>1, <1>4, <2>1, <2>2 DEF PostsOrdered
    <2>5. ChainOrdered(c)'
      <3>1. \A a, e : QueuedBefore(c, a, e)' <=> QueuedBefore(c, a, e)
        BY <1>1 DEF QueuedBefore
      <3>2. QED
        BY <1>1, <1>4, <2>1, <2>2, <2>3, <3>1 DEF ChainOrdered
    <2>6. SlotOrdered(c)'
      <3>1. PICK x : x = bot[c].pending
        OBVIOUS
      <3>2. x # NoOne => x \in Deliveries
        BY <2>1, <3>1 DEF SlotOK
      <3>3. QED
        BY <1>1, <1>4, <2>1, <2>2, <2>3, <3>1, <3>2 DEF SlotOrdered
    <2>7. QED
      BY <2>4, <2>5, <2>6
  <1>8. QED
    BY <1>2, <1>5, <1>6, <1>7 DEF OrderInv

\* A new batch is the last of its chain, and all that is in it waited in the buffer.
LEMMA QueuedLast ==
  ASSUME ClaimInv, ChainInv, NEW p \in Parties, Flush(p)
  PROVE  \E b \in Deliveries :
           /\ PartyOf[b] = p /\ batch[b].pc = "none"
           /\ batch'[b].items = buffer[p] /\ \A a \in Deliveries \ {b} : batch'[a] = batch[a]
           /\ \A c \in Chats :
                /\ ToSet(chain'[c]) \subseteq ToSet(chain[c]) \cup {b}
                /\ \A a, e : QueuedBefore(c, a, e)' =>
                     QueuedBefore(c, a, e) \/ (a \in ToSet(chain[c]) /\ e = b)
  <1>1. PICK b : b = Head(buffer[p])
    OBVIOUS
  <1>2. buffer[p] \in Seq(Deliveries) /\ buffer[p] # <<>>
    BY DEF Flush, ClaimInv, BuffersOK
  <1>3. b \in Deliveries /\ 1 \in DOMAIN buffer[p] /\ b = buffer[p][1]
    BY <1>1, <1>2
  <1>4. PartyOf[b] = p /\ batch[b].pc = "none"
    <2>1. PartyOf[buffer[p][1]] = p /\ batch[buffer[p][1]].pc = "none"
      BY <1>3 DEF ClaimInv, BuffersOK
    <2>2. QED
      BY <1>3, <2>1
  <1> DEFINE k == ChatOf[b]
  <1>5. PICK s \in Seq(Deliveries) : s = chain[k]
    <2>1. k \in Chats /\ ChainOK(k)
      BY <1>3 DEF ChainInv, Chats
    <2>2. QED
      BY <2>1 DEF ChainOK
  <1>6. PICK n : n = [NoBatch EXCEPT
          !.items = buffer[p], !.epoch = heldEpoch[p], !.pc = "queued"]
    OBVIOUS
  <1>7. n.items = buffer[p]
    BY <1>6 DEF NoBatch
  <1>8. batch' = [batch EXCEPT ![b] = n] /\ chain' = [chain EXCEPT ![k] = Append(@, b)]
    BY <1>1, <1>6, Zenon DEF Flush
  <1>9. batch'[b].items = buffer[p] /\ \A a \in Deliveries \ {b} : batch'[a] = batch[a]
    BY <1>3, <1>7, <1>8 DEF ClaimInv
  <1>10. PICK t : t = Append(s, b)
    OBVIOUS
  <1>11. /\ chain'[k] = t /\ \A c \in Chats \ {k} : chain'[c] = chain[c]
    BY <1>3, <1>5, <1>8, <1>10 DEF ChainInv, Chats
  <1>12. /\ Len(s) \in Nat /\ DOMAIN s = 1 .. Len(s) /\ DOMAIN t = 1 .. Len(s) + 1
         /\ t[Len(s) + 1] = b /\ \A i \in DOMAIN s : t[i] = s[i]
    BY <1>3, <1>10
  <1>13. ASSUME NEW c \in Chats
         PROVE  /\ ToSet(chain'[c]) \subseteq ToSet(chain[c]) \cup {b}
                /\ \A a, e : QueuedBefore(c, a, e)' =>
                     QueuedBefore(c, a, e) \/ (a \in ToSet(chain[c]) /\ e = b)
    <2>1. CASE c # k
      BY <1>11, <2>1 DEF QueuedBefore
    <2>2. ToSet(chain'[k]) \subseteq ToSet(chain[k]) \cup {b}
      <3>1. \A i \in DOMAIN t : i \in DOMAIN s \/ t[i] = b
        BY <1>12
      <3>2. QED
        BY <1>5, <1>11, <1>12, <3>1 DEF ToSet
    <2>3. ASSUME NEW a, NEW e, QueuedBefore(k, a, e)'
          PROVE  QueuedBefore(k, a, e) \/ (a \in ToSet(chain[k]) /\ e = b)
      <3>1. PICK i \in DOMAIN t, j \in DOMAIN t : i < j /\ t[i] = a /\ t[j] = e
        BY <1>11, <2>3 DEF QueuedBefore
      <3>2. i \in DOMAIN s /\ s[i] = a
        BY <1>12, <3>1
      <3>3. CASE j \in DOMAIN s
        BY <1>5, <1>12, <3>1, <3>2, <3>3 DEF QueuedBefore
      <3>4. CASE j = Len(s) + 1
        BY <1>5, <1>12, <3>1, <3>2, <3>4 DEF ToSet
      <3>5. QED
        BY <1>12, <3>1, <3>3, <3>4
    <2>4. QED
      BY <2>1, <2>2, <2>3
  <1>14. QED
    BY <1>3, <1>4, <1>9, <1>13

LEMMA OrderFlush ==
  ASSUME OrderContext, NEW p \in Parties, Flush(p)
  PROVE  OrderInv'
  <1> USE DEF OrderContext
  <1>1. /\ UNCHANGED <<arrived, bot, posts>> /\ buffer'[p] = <<>>
        /\ \A q \in Parties \ {p} : buffer'[q] = buffer[q]
    BY DEF Flush, ClaimInv, BuffersOK
  <1>2. PICK b \in Deliveries :
          /\ PartyOf[b] = p /\ batch[b].pc = "none"
          /\ batch'[b].items = buffer[p] /\ \A a \in Deliveries \ {b} : batch'[a] = batch[a]
          /\ \A c \in Chats :
               /\ ToSet(chain'[c]) \subseteq ToSet(chain[c]) \cup {b}
               /\ \A a, e : QueuedBefore(c, a, e)' =>
                    QueuedBefore(c, a, e) \/ (a \in ToSet(chain[c]) /\ e = b)
    BY QueuedLast
  <1>3. /\ \A d, e : Before(d, e)' <=> Before(d, e)
        /\ \A a \in Deliveries \ {b} : Items(a)' = Items(a)
        /\ Items(b)' = ToSet(buffer[p])
    BY <1>1, <1>2 DEF Before, Items
  <1>4. \A a, e \in Deliveries \ {b} : Precedes(a, e)' <=> Precedes(a, e)
    BY <1>3 DEF Precedes
  <1>5. \A a \in Deliveries \ {b} : Precedes(a, b)'
    <2>1. BufferOrdered(p)
      BY DEF OrderInv
    <2>2. QED
      BY <1>2, <1>3, <2>1 DEF Precedes, BufferOrdered
  <1>6. ArrivedOnce' /\ \A a \in Deliveries : \A d \in Items(a)' : Here(d)'
    <2>1. ArrivedOnce' /\ \A d : Here(d)' <=> Here(d)
      BY <1>1 DEF ArrivedOnce, Here, OrderInv
    <2>2. \A d \in ToSet(buffer[p]) : Here(d)
      BY DEF ClaimInv, BuffersOK, ToSet
    <2>3. QED
      BY <1>3, <2>1, <2>2 DEF OrderInv
  <1>7. ASSUME NEW q \in Parties PROVE BufferOrdered(q)'
    <2>1. CASE q = p
      BY <1>1, <2>1 DEF BufferOrdered, WaitsBefore, ToSet
    <2>2. CASE q # p
      <3>1. BufferOrdered(q) /\ buffer'[q] = buffer[q]
        BY <1>1, <2>2 DEF OrderInv
      <3>2. \A d, e : WaitsBefore(q, d, e)' <=> WaitsBefore(q, d, e)
        BY <3>1 DEF WaitsBefore
      <3>3. QED
        BY <1>2, <1>3, <2>2, <3>1, <3>2 DEF BufferOrdered
    <2>3. QED
      BY <2>1, <2>2
  <1>8. ASSUME NEW c \in Chats
        PROVE  PostsOrdered(c)' /\ ChainOrdered(c)' /\ SlotOrdered(c)'
    <2>1. PostsOrdered(c) /\ ChainOrdered(c) /\ SlotOrdered(c) /\ SlotOK(c)
      BY DEF OrderInv, SlotInv
    <2>2. /\ TextsBy(c)' = TextsBy(c) /\ TextsBy(c) \subseteq Deliveries
          /\ \A a, e : PostedBefore(c, a, e)' <=> PostedBefore(c, a, e)
      BY <1>1, SameTexts, TextsByDeliveries
    <2>3. \A a \in TextsBy(c) : a \in Deliveries \ {b}
      BY <1>2, <2>1, <2>2 DEF PostsOrdered
    <2>4. \A a \in ToSet(chain[c]) : a \in Deliveries \ {b}
      BY <1>2 DEF ChainInv, ChainOK, ToSet, AtWork, Working
    <2>5. PostsOrdered(c)'
      <3>1. \A a, e : PostedBefore(c, a, e) => a \in TextsBy(c) /\ e \in TextsBy(c)
        BY DEF PostedBefore, TextsBy
      <3>2. \A a \in TextsBy(c)' : batch'[a].pc # "none"
        BY <1>2, <2>1, <2>2, <2>3 DEF PostsOrdered
      <3>3. \A a, e \in Deliveries : PostedBefore(c, a, e)' => Precedes(a, e)'
        BY <1>4, <2>1, <2>2, <2>3, <3>1 DEF PostsOrdered
      <3>4. QED
        BY <3>2, <3>3 DEF PostsOrdered
    <2>6. ChainOrdered(c)'
      <3>1. \A a, e : QueuedBefore(c, a, e) => a \in ToSet(chain[c]) /\ e \in ToSet(chain[c])
        BY DEF QueuedBefore, ToSet
      <3>2. \A a, e \in Deliveries : QueuedBefore(c, a, e)' => Precedes(a, e)'
        BY <1>2, <1>4, <1>5, <2>1, <2>4, <3>1 DEF ChainOrdered
      <3>3. ASSUME NEW a \in TextsBy(c)', NEW e \in ToSet(chain'[c]), batch'[e].pc # "prompting"
            PROVE  Precedes(a, e)'
        <4>1. a \in TextsBy(c) /\ a \in Deliveries \ {b}
          BY <2>2, <2>3
        <4>2. CASE e = b
          BY <1>5, <4>1, <4>2
        <4>3. CASE e # b
          <5>1. e \in ToSet(chain[c]) /\ e \in Deliveries \ {b} /\ batch[e].pc # "prompting"
            BY <1>2, <2>4, <3>3, <4>3
          <5>2. QED
            BY <1>4, <2>1, <4>1, <5>1 DEF ChainOrdered
        <4>4. QED
          BY <4>2, <4>3
      <3>4. QED
        BY <3>2, <3>3 DEF ChainOrdered
    <2>7. SlotOrdered(c)'
      <3>1. PICK x : x = bot[c].pending
        OBVIOUS
      <3>2. CASE x = NoOne
        BY <1>1, <3>1, <3>2 DEF SlotOrdered
      <3>3. CASE x # NoOne
        <4>1. x \in Deliveries /\ ChatOf[x] = c /\ batch[x].pc \notin Unheard
          BY <2>1, <3>1, <3>3 DEF SlotOrdered, SlotOK
        <4>2. x # b /\ batch'[x].pc \notin Unheard
          BY <1>2, <4>1 DEF Unheard, Unclaimed
        <4>3. ~bot[c].prompt => /\ \A a \in TextsBy(c) : Precedes(a, x)
                                /\ \A e \in ToSet(chain[c]) : e = x \/ Precedes(x, e)
          BY <2>1, <3>1, <3>3 DEF SlotOrdered
        <4>4. ~bot[c].prompt => \A e \in ToSet(chain'[c]) : e = x \/ Precedes(x, e)'
          BY <1>2, <1>4, <1>5, <2>4, <4>1, <4>2, <4>3
        <4>5. ~bot[c].prompt => \A a \in TextsBy(c)' : Precedes(a, x)'
          BY <1>4, <2>2, <2>3, <4>1, <4>2, <4>3
        <4>6. QED
          BY <1>1, <3>1, <4>1, <4>2, <4>4, <4>5 DEF SlotOrdered
      <3>4. QED
        BY <3>2, <3>3
    <2>8. QED
      BY <2>5, <2>6, <2>7
  <1>9. QED
    BY <1>6, <1>7, <1>8 DEF OrderInv

LEMMA OrderStep ==
  ASSUME OrderContext, [Next]_vars
  PROVE  OrderInv'
  <1>1. ASSUME NEW c \in Chats, SelfRemoved(c) \/ SelfAdded(c)
        PROVE  OrderInv'
    <2>1. UNCHANGED <<arrived, buffer, chain, batch, posts>>
      BY <1>1 DEF SelfRemoved, SelfAdded, inVars
    <2>2. PICK x : bot' = [bot EXCEPT ![c].paused = x]
      BY <1>1 DEF SelfRemoved, SelfAdded
    <2>3. \A d \in Chats : /\ bot'[d].pending = bot[d].pending
                           /\ bot'[d].prompt = bot[d].prompt
      <3>1. PICK r : r = [bot[c] EXCEPT !.paused = x]
        OBVIOUS
      <3>2. PICK S : bot[c] \in Rows(S)
        BY DEF OrderContext, PauseInv, BotsTyped, IsBot
      <3>3. r.pending = bot[c].pending /\ r.prompt = bot[c].prompt
        BY <3>1, <3>2 DEF Rows
      <3>4. bot'[c] = r /\ \A d \in Chats \ {c} : bot'[d] = bot[d]
        BY <2>2, <3>1 DEF OrderContext, PauseInv, BotsTyped
      <3>5. QED
        BY <3>3, <3>4
    <2>4. QED
      BY <2>1, <2>3, OrderAround
  <1>2. ASSUME NEW op \in Operators, Register(op)
        PROVE  OrderInv'
    BY <1>2, OrderAround DEF Register, inVars
  <1>3. CASE UNCHANGED vars
    BY <1>3, OrderAround DEF vars, inVars
  <1>4. ASSUME NEW b \in Deliveries, Process(b)
        PROVE  OrderInv'
    BY <1>4, OrderQuiet, OrderRecover, OrderAccepted, OrderPrompt, OrderRejected DEF Process
  <1>5. QED
    BY <1>1, <1>2, <1>3, <1>4, OrderReceive, OrderDispatch, OrderFlush, OrderCrash DEF Next

LEMMA OrderInit == Init => OrderInv
  <1> SUFFICES ASSUME Init PROVE OrderInv
    OBVIOUS
  <1>1. /\ arrived = <<>> /\ \A p \in Parties : buffer[p] = <<>>
        /\ \A c \in Chats : chain[c] = <<>> /\ posts[c] = <<>> /\ bot[c].pending = NoOne
        /\ \A b \in Deliveries : batch[b].items = <<>>
    BY DEF Init, NoBot, NoBatch
  <1>2. ArrivedOnce /\ \A b \in Deliveries : Items(b) = {}
    BY <1>1 DEF ArrivedOnce, Items, ToSet
  <1>3. \A p \in Parties : BufferOrdered(p)
    BY <1>1 DEF BufferOrdered, WaitsBefore, ToSet
  <1>4. \A c \in Chats : PostsOrdered(c) /\ ChainOrdered(c) /\ SlotOrdered(c)
    BY <1>1 DEF PostsOrdered, ChainOrdered, SlotOrdered, TextsBy, PostedBefore, Texts,
      QueuedBefore, ToSet
  <1>5. QED
    BY <1>2, <1>3, <1>4 DEF OrderInv

\* What arrived, waits, is queued and was accepted, along every behaviour.
THEOREM OrderInvariant == Spec => []OrderInv
  <1>1. OrderInv /\ PauseInv /\ ClaimInv /\ ChainInv /\ SlotsAndPosts /\ [Next]_vars => OrderInv'
    BY OrderStep DEF OrderContext, SlotsAndPosts
  <1>2. QED
    BY OrderInit, PauseInvariant, ClaimInvariant, ChainInvariant, SlotInvariant, <1>1, PTL
      DEF Spec

\* Through recoveries, retries, refusals, crashes and redeliveries, what one party
\* wrote reaches PromptQL in the order it arrived, and no delivery reaches it twice.
THEOREM SubmissionsInOrder == Spec => []AcceptedInOrder
  <1>1. ASSUME ClaimInv, PostsTyped, OrderInv, NEW c \in Chats, NEW i \in Texts(c), NEW j \in Texts(c),
               i < j, PartyOf[posts[c][i].by] = PartyOf[posts[c][j].by],
               NEW d \in Items(posts[c][i].by), NEW e \in Items(posts[c][j].by)
        PROVE  Arrival(d) < Arrival(e)
    <2>1. PICK a \in TextsBy(c), b \in TextsBy(c) : a = posts[c][i].by /\ b = posts[c][j].by
      BY <1>1 DEF TextsBy
    <2>2. a \in Deliveries /\ b \in Deliveries /\ PostedBefore(c, a, b)
      BY <1>1, <2>1, TextsByDeliveries DEF PostedBefore
    <2>3. Precedes(a, b)
      BY <1>1, <2>2 DEF OrderInv, PostsOrdered
    <2>4. Before(d, e)
      BY <1>1, <2>1, <2>3 DEF Precedes
    <2>5. PICK m \in DOMAIN arrived, n \in DOMAIN arrived :
            m < n /\ arrived[m] = d /\ arrived[n] = e
      BY <2>4 DEF Before
    <2>6. Arrival(d) = m /\ Arrival(e) = n
      BY <1>1, <2>5 DEF Arrival, OrderInv, ArrivedOnce
    <2>7. QED
      BY <2>5, <2>6
  <1>2. ClaimInv /\ SlotsAndPosts /\ OrderInv => AcceptedInOrder
    BY <1>1 DEF AcceptedInOrder, SlotsAndPosts
  <1>3. QED
    BY <1>2, ClaimInvariant, SlotInvariant, OrderInvariant, PTL

===============================================================================
