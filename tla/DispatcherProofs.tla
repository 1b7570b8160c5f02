--------------------------- MODULE DispatcherProofs ---------------------------
(***************************************************************************)
(* The dispatcher implements the outbound log, for any number of attempts, *)
(* chats and groups; what is proved of the log therefore holds of it.      *)
(* The last part is about what it sends for an answer (ReplyShape).        *)
(***************************************************************************)
EXTENDS Dispatcher, ReplyShape, TLAPS

\* All the refinement needs to know of the state.
PhaseOK == phase \in [Attempts -> Phases]

LEMMA PhaseStep ==
  ASSUME PhaseOK, [Next]_vars
  PROVE  PhaseOK'
  <1> USE DEF PhaseOK
  <1>1. ASSUME NEW a \in Attempts, NEW p \in Phases, Goto(a, p)
        PROVE  PhaseOK'
    BY <1>1 DEF Goto
  <1>2. ASSUME phase' = phase
        PROVE  PhaseOK'
    BY <1>2
  <1>3. ASSUME NEW a \in Attempts, Accept(a) \/ Ignore(a)
        PROVE  PhaseOK'
    BY <1>1, <1>3 DEF Accept, Ignore, Phases
  <1>4. ASSUME NEW a \in Attempts, Progress(a)
        PROVE  PhaseOK'
    BY <1>1, <1>2, <1>4
       DEF Progress, AskFails, RelayOnly, HandOver, Greet, NoReply, Reply, Empty,
           Compose, ComposePreparing, RepeatPreparing, Refuse, QueueError, ToWire,
           WireError, Deliver, RecordSent, SendExtra, SkipExtra, StopExtras, Fail,
           SendDrops, Phases
  <1>5. ASSUME NEW g \in Groups, Leave(g) \/ Rejoin(g)
        PROVE  PhaseOK'
    BY <1>5 DEF Leave, Rejoin, Phases
  <1>6. CASE Crash \/ Tick \/ UNCHANGED vars
    BY <1>6 DEF Crash, Tick, vars, Phases
  <1>7. QED
    BY <1>3, <1>4, <1>5, <1>6 DEF Next

\* The log sees an attempt move when its phase does.
LEMMA LogMove ==
  ASSUME PhaseOK, NEW a \in Attempts, NEW p, Goto(a, p)
  PROVE  LogPhase' = [LogPhase EXCEPT ![a] = IF p \in Open THEN "claimed" ELSE p]
  BY DEF PhaseOK, Goto, LogPhase

LEMMA LogAt ==
  ASSUME NEW a \in Attempts
  PROVE  /\ phase[a] \in Open => LogPhase[a] = "claimed"
         /\ phase[a] \notin Open => LogPhase[a] = phase[a]
  BY DEF LogPhase

\* A phase change inside the claim is invisible to the log.
LEMMA InsideTheClaim ==
  ASSUME PhaseOK, NEW a \in Attempts, NEW p \in Open, Goto(a, p), phase[a] \in Open
  PROVE  LogPhase' = LogPhase
  BY DEF PhaseOK, Goto, LogPhase

\* The log's own copy of the table operations is this module's.
LEMMA SameTable ==
  /\ \A r, t : Log!Claimable(r, t) <=> Claimable(r, t)
  /\ \A r, a, t : Log!ClaimedRow(r, a, t) = ClaimedRow(r, a, t)
  /\ \A r, a : Log!Owns(r, a) <=> Owns(r, a)
  BY DEF Log!Claimable, Claimable, Log!Stale, Stale, Log!ClaimedRow, ClaimedRow,
         Log!Owns, Owns

LEMMA SameSettle ==
  ASSUME NEW a, NEW s, Settle(a, s)
  PROVE  Log!Settle(a, s)
  BY DEF Settle, Log!Settle, SettledRow, Log!SettledRow, Owns, Log!Owns

LEMMA FailIsGiveUp ==
  ASSUME PhaseOK, NEW a \in Attempts, phase[a] \in Open, Fail(a)
  PROVE  Log!GiveUp(a)
  <1>1. LogPhase' = [LogPhase EXCEPT ![a] = "failed"] /\ LogPhase[a] = "claimed"
    BY LogMove, LogAt DEF Fail, Open, InBatch
  <1>2. QED
    BY <1>1, SameSettle DEF Fail, Log!GiveUp

LEMMA BatchStep ==
  ASSUME PhaseOK, NEW a \in Attempts,
         Accept(a) \/ Ignore(a) \/ AskFails(a) \/ RelayOnly(a) \/ HandOver(a) \/ Greet(a)
  PROVE  Log!Step(a) \/ UNCHANGED Log!vars
  <1> USE LogMove, LogAt DEF At, Log!Step, Log!vars
  <1>1. CASE Accept(a)
    <2>1. LogPhase' = [LogPhase EXCEPT ![a] = "claimed"] /\ LogPhase[a] = "idle"
      BY <1>1 DEF Accept, Open, InBatch
    <2>2. Log!Claim(a)
      BY <1>1, <2>1, SameTable DEF Accept, Log!Claim
    <2>3. QED
      BY <2>2
  <1>2. CASE Ignore(a)
    <2>1. LogPhase' = [LogPhase EXCEPT ![a] = "dropped"] /\ LogPhase[a] = "idle"
      BY <1>2 DEF Ignore, Open, InBatch
    <2>2. Log!Drop(a)
      BY <1>2, <2>1, SameTable DEF Ignore, Log!Drop, logVars
    <2>3. QED
      BY <2>2
  <1>3. CASE AskFails(a)
    <2>1. LogPhase' = [LogPhase EXCEPT ![a] = "failed"] /\ LogPhase[a] = "claimed"
      BY <1>3 DEF AskFails, Open, InBatch
    <2>2. Log!GiveUp(a)
      BY <1>3, <2>1, SameSettle DEF AskFails, Log!GiveUp
    <2>3. QED
      BY <2>2
  <1>4. CASE RelayOnly(a)
    <2>1. LogPhase' = [LogPhase EXCEPT ![a] = "relayed"] /\ LogPhase[a] = "claimed"
      BY <1>4 DEF RelayOnly, Open, InBatch
    <2>2. Log!Relay(a)
      BY <1>4, <2>1, SameSettle DEF RelayOnly, Log!Relay
    <2>3. QED
      BY <2>2
  <1>5. CASE HandOver(a) \/ Greet(a)
    BY <1>5, InsideTheClaim DEF HandOver, Greet, logVars, Open, InBatch
  <1>6. QED
    BY <1>1, <1>2, <1>3, <1>4, <1>5

LEMMA DispatchStep ==
  ASSUME PhaseOK, NEW a \in Attempts,
         \/ NoReply(a) \/ Reply(a) \/ Empty(a) \/ RepeatPreparing(a) \/ Refuse(a)
         \/ \E n \in 0..MaxExtras : Compose(a, n)
         \/ ComposePreparing(a) \/ ToWire(a)
  PROVE  Log!Step(a) \/ UNCHANGED Log!vars
  <1> USE DEF At, Log!Step, Log!vars
  <1>1. CASE NoReply(a) \/ Empty(a) \/ RepeatPreparing(a) \/ Refuse(a)
    BY <1>1, FailIsGiveUp DEF NoReply, Empty, RepeatPreparing, Refuse, Open
  <1>2. CASE Reply(a) \/ ComposePreparing(a) \/ ToWire(a)
    BY <1>2, InsideTheClaim DEF Reply, ComposePreparing, ToWire, logVars, Open
  <1>3. CASE \E n \in 0..MaxExtras : Compose(a, n)
    BY <1>3, InsideTheClaim DEF Compose, logVars, Open
  <1>4. QED
    BY <1>1, <1>2, <1>3

LEMMA SendStep ==
  ASSUME PhaseOK, NEW a \in Attempts,
         \/ QueueError(a) \/ WireError(a) \/ Deliver(a) \/ RecordSent(a)
         \/ SendExtra(a) \/ SkipExtra(a) \/ StopExtras(a)
  PROVE  Log!Step(a) \/ UNCHANGED Log!vars
  <1> USE LogMove, LogAt DEF At, Log!Step, Log!vars
  <1>1. CASE QueueError(a) \/ WireError(a)
    <2>1. LogPhase' = [LogPhase EXCEPT ![a] = "failed"] /\ LogPhase[a] = "claimed"
      BY <1>1 DEF QueueError, WireError, SendDrops, Open, InBatch
    <2>2. delivered' \in {delivered, delivered \cup {a}}
      BY <1>1 DEF QueueError, WireError
    <2>3. Log!SendError(a)
      BY <1>1, <2>1, <2>2, SameSettle
         DEF QueueError, WireError, SendDrops, Log!SendError
    <2>4. QED
      BY <2>3
  <1>2. CASE Deliver(a)
    <2>1. LogPhase' = [LogPhase EXCEPT ![a] = "delivered"] /\ LogPhase[a] = "claimed"
      BY <1>2 DEF Deliver, Open, InBatch
    <2>2. Log!Deliver(a)
      BY <1>2, <2>1 DEF Deliver, Log!Deliver
    <2>3. QED
      BY <2>2
  <1>3. CASE RecordSent(a)
    <2>1. /\ LogPhase' = [LogPhase EXCEPT
                ![a] = IF Owns(row[KeyOf[a]], a) THEN "sent" ELSE "lost"]
          /\ LogPhase[a] = "delivered"
      BY <1>3 DEF RecordSent, Open, InBatch
    <2>2. Log!RecordSent(a)
      BY <1>3, <2>1, SameSettle, SameTable DEF RecordSent, Log!RecordSent
    <2>3. QED
      BY <2>2
  <1>4. CASE SendExtra(a) \/ SkipExtra(a) \/ StopExtras(a)
    BY <1>4 DEF SendExtra, SkipExtra, StopExtras, logVars, LogPhase
  <1>5. QED
    BY <1>1, <1>2, <1>3, <1>4

LEMMA EnvironmentStep ==
  ASSUME PhaseOK, (\E g \in Groups : Leave(g) \/ Rejoin(g)) \/ Crash \/ Tick
  PROVE  [Log!Next]_(Log!vars)
  <1>1. CASE \E g \in Groups : Leave(g) \/ Rejoin(g)
    <2>1. LogPhase' = LogPhase
      BY <1>1 DEF Leave, Rejoin, LogPhase, At, Open, InBatch
    <2>2. QED
      BY <1>1, <2>1 DEF Leave, Rejoin, logVars, Log!vars
  <1>2. CASE Crash
    <2>1. \A a \in Attempts :
            LogPhase[a] \in Log!Live <=> phase[a] \in Open \cup {"delivered"}
      BY DEF PhaseOK, Phases, LogPhase, Log!Live, Open, InBatch
    <2>2. \E a \in Attempts : LogPhase[a] \in Log!Live
      BY <1>2, <2>1 DEF Crash
    <2>3. ASSUME NEW a \in Attempts
          PROVE  LogPhase'[a] =
                   IF LogPhase[a] \in Log!Live THEN "dead" ELSE LogPhase[a]
      <3>1. LogPhase'[a] = IF phase'[a] \in Open THEN "claimed" ELSE phase'[a]
        BY DEF LogPhase
      <3>2. phase'[a] = IF phase[a] \in Open \cup {"delivered"} THEN "dead" ELSE phase[a]
        BY <1>2 DEF Crash
      <3>3. QED
        BY <2>1, <3>1, <3>2 DEF LogPhase, Open, InBatch
    <2>4. LogPhase' = [a \in Attempts |->
            IF LogPhase[a] \in Log!Live THEN "dead" ELSE LogPhase[a]]
      BY <2>3 DEF LogPhase
    <2>5. Log!Crash
      BY <1>2, <2>2, <2>4 DEF Crash, Log!Crash, logVars
    <2>6. QED
      BY <2>5 DEF Log!Next
  <1>3. CASE Tick
    BY <1>3 DEF Tick, logVars, LogPhase, Log!Tick, Log!Next
  <1>4. QED
    BY <1>1, <1>2, <1>3

\* Every behaviour of the router and the dispatcher is, seen from the outbound
\* log, a behaviour OutboundLog allows.
THEOREM DispatcherImplementsLog == Spec => ImplementsOutboundLog
  <1>1. Init => PhaseOK /\ Log!Init
    BY DEF Init, PhaseOK, Phases, LogPhase, Log!Init, NoRow, Log!NoRow, Open, InBatch
  <1>2. PhaseOK /\ [Next]_vars => PhaseOK'
    BY PhaseStep
  <1>3. PhaseOK /\ [Next]_vars => [Log!Next]_(Log!vars)
    <2> SUFFICES ASSUME PhaseOK, [Next]_vars PROVE [Log!Next]_(Log!vars)
      OBVIOUS
    <2>1. ASSUME NEW a \in Attempts, Accept(a) \/ Ignore(a) \/ Progress(a)
          PROVE  [Log!Next]_(Log!vars)
      BY <2>1, BatchStep, DispatchStep, SendStep DEF Progress, Log!Next
    <2>2. CASE UNCHANGED vars
      BY <2>2 DEF vars, Log!vars, LogPhase
    <2>3. QED
      BY <2>1, <2>2, EnvironmentStep DEF Next
  <1>4. QED
    BY <1>1, <1>2, <1>3, PTL DEF Spec, ImplementsOutboundLog, Log!Spec

\* Hence what is proved of the log holds of the dispatcher: two attempts that
\* both reached WhatsApp for one inbound message claimed it more than
\* STALE_PENDING_MS apart, unless a send threw.
LogTheorems == INSTANCE OutboundLogProofs WITH phase <- LogPhase

THEOREM DispatcherSendsAreStaleApart == Spec => []Log!SendsAreStaleApart
  <1> USE KeyOfAssumption, AttemptsAssumption, StaleAssumption, TimesAssumption,
          SwitchesAssumption
  <1>1. LogTheorems!Spec => []LogTheorems!SendsAreStaleApart
    BY LogTheorems!DoubleSendsAreStale
  <1>2. Log!Init => LogTheorems!Init
    BY DEF Log!Init, LogTheorems!Init, Log!NoRow, LogTheorems!NoRow
  <1>3. [Log!Next]_(Log!vars) => [LogTheorems!Next]_(LogTheorems!vars)
    <2>1. ASSUME NEW a \in Attempts, NEW s, Log!Settle(a, s)
          PROVE  LogTheorems!Settle(a, s)
      BY <2>1 DEF Log!Settle, LogTheorems!Settle, Log!SettledRow,
                  LogTheorems!SettledRow, Log!Owns, LogTheorems!Owns
    <2>2. ASSUME NEW a \in Attempts, Log!Claim(a) \/ Log!Drop(a)
          PROVE  LogTheorems!Claim(a) \/ LogTheorems!Drop(a)
      BY <2>2 DEF Log!Claim, LogTheorems!Claim, Log!Drop, LogTheorems!Drop,
                  Log!Claimable, LogTheorems!Claimable, Log!Stale, LogTheorems!Stale,
                  Log!ClaimedRow, LogTheorems!ClaimedRow
    <2>3. ASSUME NEW a \in Attempts,
                 Log!Relay(a) \/ Log!GiveUp(a) \/ Log!Deliver(a) \/ Log!SendError(a)
          PROVE  LogTheorems!Step(a)
      BY <2>1, <2>3
         DEF Log!Relay, LogTheorems!Relay, Log!GiveUp, LogTheorems!GiveUp,
             Log!Deliver, LogTheorems!Deliver, Log!SendError, LogTheorems!SendError,
             LogTheorems!Step
    <2>4. ASSUME NEW a \in Attempts, Log!RecordSent(a)
          PROVE  LogTheorems!RecordSent(a)
      BY <2>1, <2>4 DEF Log!RecordSent, LogTheorems!RecordSent, Log!Owns, LogTheorems!Owns
    <2>5. Log!Crash \/ Log!Tick => LogTheorems!Crash \/ LogTheorems!Tick
      BY DEF Log!Crash, LogTheorems!Crash, Log!Tick, LogTheorems!Tick, Log!Live,
             LogTheorems!Live
    <2>6. QED
      BY <2>2, <2>3, <2>4, <2>5
         DEF Log!Next, LogTheorems!Next, Log!Step, LogTheorems!Step, Log!vars,
             LogTheorems!vars
  <1>4. LogTheorems!SendsAreStaleApart => Log!SendsAreStaleApart
    BY DEF Log!SendsAreStaleApart, LogTheorems!SendsAreStaleApart
  <1>5. QED
    BY <1>1, <1>2, <1>3, <1>4, DispatcherImplementsLog, PTL
       DEF ImplementsOutboundLog, Log!Spec, LogTheorems!Spec

-------------------------------------------------------------------------------
(***************************************************************************)
(* Removal stops relay                                                     *)
(***************************************************************************)

\* The attempts that were handed over and did not die.
HandedOver == {"waiting", "composing", "queued", "wire", "delivered", "sent", "lost"}

\* canSend() reads the bot row, so the bot row has to follow the membership row,
\* and it has to be there: a chat without one counts as not paused.
PauseInv ==
  /\ PhaseOK
  /\ wired \in [Attempts -> Nat]
  /\ removed \subseteq Groups
  /\ bot \in [Chats -> {"none", "open", "paused"}]
  /\ \A c \in Chats : bot[c] # "none" => (bot[c] = "paused" <=> c \in removed)
  /\ \A a \in Attempts : phase[a] \in HandedOver => bot[Chat(a)] # "none"

LEMMA ChatType == \A a \in Attempts : Chat(a) \in Chats
  BY KeyOfAssumption, ChatOfAssumption DEF Chat

\* remember() makes the chat's bot agree with membership.
LEMMA RememberStep ==
  ASSUME PauseInv, PhaseOK', NEW a \in Attempts, Remember(Chat(a)),
         NEW p \in Phases, Goto(a, p), UNCHANGED <<removed, wired>>
  PROVE  PauseInv'
  BY ChatType DEF PauseInv, PhaseOK, Remember, Goto, Chat

\* Steps that leave the bots alone and hand nobody over.
LEMMA QuietStep ==
  ASSUME PauseInv, PhaseOK', UNCHANGED <<bot, removed>>, wired' \in [Attempts -> Nat],
         \A a \in Attempts : phase'[a] \in HandedOver => phase[a] \in HandedOver
  PROVE  PauseInv'
  BY DEF PauseInv, Chat

LEMMA PauseStep ==
  ASSUME PauseInv, [Next]_vars
  PROVE  PauseInv'
  <1>1. PhaseOK /\ PhaseOK'
    BY PhaseStep DEF PauseInv
  <1>2. ASSUME NEW a \in Attempts, RelayOnly(a) \/ HandOver(a) \/ Greet(a)
        PROVE  PauseInv'
    BY <1>1, <1>2, RememberStep
       DEF RelayOnly, HandOver, Greet, Phases, jobVars
  <1>3. ASSUME NEW a \in Attempts, AskFails(a)
        PROVE  PauseInv'
    <2>1. CASE Remember(Chat(a))
      BY <1>1, <1>3, <2>1, RememberStep DEF AskFails, Phases, jobVars
    <2>2. CASE bot' = bot
      BY <1>1, <1>3, <2>2, QuietStep DEF AskFails, Goto, HandedOver, PhaseOK, PauseInv, jobVars
    <2>3. QED
      BY <1>3, <2>1, <2>2 DEF AskFails
  <1>4. ASSUME NEW a \in Attempts, Accept(a) \/ Ignore(a)
        PROVE  PauseInv'
    BY <1>1, <1>4, QuietStep
       DEF Accept, Ignore, Goto, HandedOver, PhaseOK, PauseInv, jobVars, chatVars
  <1>5. ASSUME NEW a \in Attempts,
               \/ NoReply(a) \/ Reply(a) \/ Empty(a) \/ RepeatPreparing(a)
               \/ \E n \in 0..MaxExtras : Compose(a, n)
               \/ ComposePreparing(a) \/ Refuse(a)
        PROVE  PauseInv'
    BY <1>1, <1>5, QuietStep
       DEF NoReply, Reply, Empty, RepeatPreparing, Compose, ComposePreparing, Refuse,
           Fail, At, Goto, HandedOver, PhaseOK, PauseInv, jobVars, chatVars
  <1>6. ASSUME NEW a \in Attempts,
               \/ QueueError(a) \/ ToWire(a) \/ WireError(a) \/ Deliver(a)
               \/ RecordSent(a)
        PROVE  PauseInv'
    BY <1>1, <1>6, QuietStep
       DEF QueueError, ToWire, WireError, Deliver, RecordSent, SendDrops,
           At, Goto, HandedOver, PhaseOK, PauseInv, jobVars, chatVars
  <1>7. ASSUME NEW a \in Attempts, SendExtra(a) \/ SkipExtra(a) \/ StopExtras(a)
        PROVE  PauseInv'
    BY <1>1, <1>7, QuietStep DEF SendExtra, SkipExtra, StopExtras, PauseInv, chatVars
  <1>8. ASSUME NEW g \in Groups, Leave(g) \/ Rejoin(g)
        PROVE  PauseInv'
    <2>1. /\ bot' \in [Chats -> {"none", "open", "paused"}]
          /\ wired' \in [Attempts -> Nat] /\ removed' \subseteq Groups
      BY <1>8, GroupsAssumption DEF Leave, Rejoin, PauseInv, jobVars
    <2>2. \A c \in Chats : bot'[c] # "none" => (bot'[c] = "paused" <=> c \in removed')
      BY <1>8, GroupsAssumption DEF Leave, Rejoin, PauseInv
    <2>3. \A c \in Chats : bot'[c] = "none" <=> bot[c] = "none"
      BY <1>8, GroupsAssumption DEF Leave, Rejoin, PauseInv
    <2>4. \A a \in Attempts : phase'[a] \in HandedOver => phase[a] \in HandedOver
      BY <1>8 DEF Leave, Rejoin, At, HandedOver
    <2>5. QED
      BY <1>1, <2>1, <2>2, <2>3, <2>4, ChatType DEF PauseInv, Chat
  <1>9. CASE Crash
    BY <1>1, <1>9, QuietStep DEF Crash, HandedOver, Open, InBatch, PhaseOK, PauseInv
  <1>10. CASE Tick \/ UNCHANGED vars
    BY <1>1, <1>10, QuietStep DEF Tick, vars, PauseInv, jobVars, chatVars
  <1>11. QED
    BY <1>2, <1>3, <1>4, <1>5, <1>6, <1>7, <1>8, <1>9, <1>10 DEF Next, Progress

\* Nothing is handed to WhatsApp for a group the account has been removed from.
THEOREM RemovalStopsRelay == Spec => SendsOnlyWhereMember
  <1>1. Init => PauseInv
    BY DEF Init, PauseInv, PhaseOK, Phases, HandedOver
  <1>2. PauseInv /\ [Next]_vars => PauseInv'
    BY PauseStep
  <1>3. ASSUME PauseInv, [Next]_vars, NEW a \in Attempts, wired'[a] # wired[a]
        PROVE  Chat(a) \notin removed
    <2>1. \E b \in Attempts : ToWire(b) \/ SendExtra(b)
      <3>1. ASSUME NEW b \in Attempts,
                   Accept(b) \/ Ignore(b) \/ AskFails(b) \/ RelayOnly(b)
                     \/ HandOver(b) \/ Greet(b)
            PROVE  wired' = wired
        BY <3>1 DEF Accept, Ignore, AskFails, RelayOnly, HandOver, Greet, jobVars
      <3>2. ASSUME NEW b \in Attempts,
                   \/ NoReply(b) \/ Reply(b) \/ Empty(b) \/ RepeatPreparing(b)
                   \/ \E n \in 0..MaxExtras : Compose(b, n)
                   \/ ComposePreparing(b) \/ Refuse(b)
            PROVE  wired' = wired
        BY <3>2 DEF NoReply, Reply, Empty, RepeatPreparing, Compose, ComposePreparing,
                    Refuse, Fail, jobVars
      <3>3. ASSUME NEW b \in Attempts,
                   \/ QueueError(b) \/ WireError(b) \/ Deliver(b) \/ RecordSent(b)
                   \/ SkipExtra(b) \/ StopExtras(b)
            PROVE  wired' = wired
        BY <3>3 DEF QueueError, WireError, Deliver, RecordSent, SkipExtra, StopExtras,
                    SendDrops, jobVars
      <3>4. (\E g \in Groups : Leave(g) \/ Rejoin(g)) \/ Crash \/ Tick \/ UNCHANGED vars
              => wired' = wired
        BY DEF Leave, Rejoin, Crash, Tick, vars, jobVars
      <3>5. QED
        BY <1>3, <3>1, <3>2, <3>3, <3>4 DEF Next, Progress
    <2>2. ToWire(a) \/ SendExtra(a)
      BY <1>3, <2>1 DEF ToWire, SendExtra, PauseInv
    <2>3. phase[a] \in HandedOver /\ CanSend(Chat(a))
      BY <2>2 DEF ToWire, SendExtra, Replied, At, HandedOver
    <2>4. bot[Chat(a)] # "none" /\ (Chat(a) \in Groups => bot[Chat(a)] # "paused")
      BY <1>3, <2>3 DEF CanSend, PauseInv
    <2>5. QED
      BY <1>3, <2>4, ChatType DEF PauseInv
  <1>4. ASSUME PauseInv, [Next]_vars
        PROVE  \A a \in Attempts : wired'[a] # wired[a] => Chat(a) \notin removed
    BY <1>3, <1>4
  <1>5. PauseInv /\ [Next]_vars =>
          [\A a \in Attempts : wired'[a] # wired[a] => Chat(a) \notin removed]_vars
    BY <1>4
  <1>6. QED
    BY <1>1, <1>2, <1>5, PTL DEF Spec, SendsOnlyWhereMember

-------------------------------------------------------------------------------
(***************************************************************************)
(* Records tell the truth                                                  *)
(***************************************************************************)

\* No message of a is with WhatsApp, and its workflow, if any, stands at s.
Unsent(a, s) == wf[a] = s /\ wired[a] = 0 /\ a \notin delivered

\* The workflow row at every await.  It is written before the send, so what the
\* send leaves behind is always "done".
TruthAt(a) ==
  /\ phase[a] \in {"idle", "dropped", "asking", "stranded", "relayed"} => Unsent(a, "none")
  /\ phase[a] \in {"waiting", "composing"} => Unsent(a, "submitted")
  /\ phase[a] = "queued" => Unsent(a, "done")
  /\ phase[a] \in {"wire", "delivered", "sent", "lost"} => wf[a] = "done"
  /\ phase[a] \in {"delivered", "sent", "lost"} => a \in delivered
  /\ phase[a] = "failed" => wf[a] # "submitted"
  /\ wired[a] > 0 \/ a \in delivered => wf[a] = "done"
  /\ welcome[a] => Chat(a) \notin Groups

TruthInv ==
  /\ PhaseOK
  /\ wf \in [Attempts -> {"none", "submitted", "done", "failed"}]
  /\ wired \in [Attempts -> Nat]
  /\ welcome \in [Attempts -> BOOLEAN]
  /\ \A a \in Attempts : TruthAt(a)
  /\ \A op \in welcomed : \E a \in delivered \cap Attempts :
       welcome[a] /\ Chat(a) \notin Groups /\ OperatorOf[Chat(a)] = op

\* A step of attempt a that leaves the others, their welcomes and what has been
\* delivered alone.
Touches(a) ==
  /\ wf' \in [Attempts -> {"none", "submitted", "done", "failed"}]
  /\ wired' \in [Attempts -> Nat]
  /\ welcome' \in [Attempts -> BOOLEAN]
  /\ \A b \in Attempts \ {a} :
       /\ phase'[b] = phase[b] /\ wf'[b] = wf[b] /\ wired'[b] = wired[b]
       /\ welcome'[b] = welcome[b]
  /\ delivered \subseteq delivered' /\ delivered' \subseteq delivered \cup {a}
  /\ a \in delivered => welcome'[a] = welcome[a]

\* The other attempts and the welcomes on record are as true as before.
LEMMA TouchStep ==
  ASSUME TruthInv, PhaseOK', NEW a \in Attempts, Touches(a), TruthAt(a)',
         \A op \in welcomed' \ welcomed :
           a \in delivered' /\ welcome'[a] /\ OperatorOf[Chat(a)] = op
  PROVE  TruthInv'
  <1>1. ASSUME NEW b \in Attempts PROVE TruthAt(b)'
    BY <1>1 DEF TruthInv, TruthAt, Touches, Unsent, Chat
  <1>2. ASSUME NEW op \in welcomed'
        PROVE  \E b \in delivered' \cap Attempts :
                 welcome'[b] /\ Chat(b) \notin Groups /\ OperatorOf[Chat(b)] = op
    <2>1. CASE op \in welcomed
      <3>1. PICK b \in delivered \cap Attempts :
              welcome[b] /\ Chat(b) \notin Groups /\ OperatorOf[Chat(b)] = op
        BY <2>1 DEF TruthInv
      <3>2. b \in delivered' /\ welcome'[b] = welcome[b]
        BY <3>1 DEF Touches
      <3>3. QED
        BY <3>1, <3>2
    <2>2. CASE op \notin welcomed
      <3>1. a \in delivered' /\ welcome'[a] /\ OperatorOf[Chat(a)] = op
        BY <1>2, <2>2
      <3>2. Chat(a) \notin Groups
        BY <3>1 DEF TruthAt, Chat
      <3>3. QED
        BY <3>1, <3>2
    <2>3. QED
      BY <2>1, <2>2
  <1>3. QED
    BY <1>1, <1>2 DEF TruthInv, Touches, Chat

LEMMA TruthStep ==
  ASSUME TruthInv, [Next]_vars
  PROVE  TruthInv'
  <1>1. PhaseOK /\ PhaseOK'
    BY PhaseStep DEF TruthInv
  <1> DEFINE OK(a) == Touches(a) /\ TruthAt(a)'
  <1>2. ASSUME NEW a \in Attempts, OK(a), welcomed' = welcomed
        PROVE  TruthInv'
    BY <1>1, <1>2, TouchStep
  <1>3. ASSUME NEW a \in Attempts,
               Accept(a) \/ Ignore(a) \/ AskFails(a) \/ RelayOnly(a)
                 \/ HandOver(a) \/ Greet(a)
        PROVE  TruthInv'
    <2>1. welcomed' = welcomed
      BY <1>3 DEF Accept, Ignore, AskFails, RelayOnly, HandOver, Greet, chatVars
    <2>2. CASE Accept(a)
      <3> DEFINE greets == Chat(a) \notin Groups /\ ~IsWelcomeSent(OperatorOf[Chat(a)])
      <3>1. greets \in BOOLEAN /\ (greets => Chat(a) \notin Groups)
        BY DEF IsWelcomeSent
      <3>2. welcome' = [welcome EXCEPT ![a] = greets]
        BY <2>2 DEF Accept
      <3> HIDE DEF greets
      <3>3. welcome' \in [Attempts -> BOOLEAN] /\ (welcome'[a] => Chat(a) \notin Groups)
            /\ \A b \in Attempts \ {a} : welcome'[b] = welcome[b]
        BY <3>1, <3>2 DEF TruthInv
      <3>4. UNCHANGED <<wf, wired, delivered>> /\ phase' = [phase EXCEPT ![a] = "asking"]
            /\ phase[a] = "idle"
        BY <2>2 DEF Accept, Goto, At
      <3>5. OK(a)
        BY <1>1, <3>3, <3>4 DEF TruthInv, TruthAt, Unsent, Touches, PhaseOK, Chat
      <3>6. QED
        BY <1>2, <2>1, <3>5
    <2>3. Ignore(a) => OK(a)
      BY <1>1
         DEF Ignore, Goto, At, TruthInv, TruthAt, Unsent, Touches, PhaseOK, Chat, jobVars,
             logVars
    <2>4. AskFails(a) \/ RelayOnly(a) => OK(a)
      BY <1>1
         DEF AskFails, RelayOnly, Goto, InBatch, TruthInv, TruthAt, Unsent, Touches,
             PhaseOK, Chat, jobVars
    <2>5. HandOver(a) \/ Greet(a) => OK(a)
      BY <1>1
         DEF HandOver, Greet, Goto, At, Workflow, TruthInv, TruthAt, Unsent, Touches,
             PhaseOK, Chat, logVars
    <2>6. QED
      BY <1>2, <1>3, <2>1, <2>2, <2>3, <2>4, <2>5
  <1>4. ASSUME NEW a \in Attempts,
               \/ NoReply(a) \/ Reply(a) \/ Empty(a) \/ RepeatPreparing(a)
               \/ \E n \in 0..MaxExtras : Compose(a, n)
               \/ ComposePreparing(a) \/ Refuse(a)
        PROVE  TruthInv'
    <2>1. welcomed' = welcomed
      BY <1>4 DEF NoReply, Reply, Empty, RepeatPreparing, Compose, ComposePreparing,
                  Refuse, chatVars
    <2>2. OK(a)
      BY <1>1, <1>4
         DEF NoReply, Reply, Empty, RepeatPreparing, Compose, ComposePreparing, Refuse,
             Fail, Goto, At, Workflow, TruthInv, TruthAt, Unsent, Touches, PhaseOK, Chat,
             jobVars, logVars
    <2>3. QED
      BY <1>2, <2>1, <2>2
  <1>5. ASSUME NEW a \in Attempts,
               QueueError(a) \/ ToWire(a) \/ WireError(a) \/ Deliver(a)
        PROVE  TruthInv'
    <2>1. welcomed' = welcomed
      BY <1>5 DEF QueueError, ToWire, WireError, Deliver, SendDrops, chatVars
    <2>2. OK(a)
      BY <1>1, <1>5
         DEF QueueError, ToWire, WireError, Deliver, SendDrops, Goto, At, TruthInv,
             TruthAt, Unsent, Touches, PhaseOK, Chat, jobVars, logVars
    <2>3. QED
      BY <1>2, <2>1, <2>2
  <1>6. ASSUME NEW a \in Attempts, RecordSent(a)
        PROVE  TruthInv'
    <2>1. OK(a)
      BY <1>1, <1>6
         DEF RecordSent, Goto, At, TruthInv, TruthAt, Unsent, Touches, PhaseOK, Chat,
             jobVars
    <2>2. \A op \in welcomed' \ welcomed :
            a \in delivered' /\ welcome'[a] /\ OperatorOf[Chat(a)] = op
      BY <1>6 DEF RecordSent, WelcomedBy, At, TruthInv, TruthAt, jobVars
    <2>3. QED
      BY <1>1, <2>1, <2>2, TouchStep
  <1>7. ASSUME NEW a \in Attempts, SendExtra(a) \/ SkipExtra(a) \/ StopExtras(a)
        PROVE  TruthInv'
    <2>1. welcomed' = welcomed
      BY <1>7 DEF SendExtra, SkipExtra, StopExtras, chatVars
    <2>2. OK(a)
      BY <1>1, <1>7
         DEF SendExtra, SkipExtra, StopExtras, Replied, TruthInv, TruthAt, Unsent,
             Touches, PhaseOK, Chat, logVars
    <2>3. QED
      BY <1>2, <2>1, <2>2
  <1>8. CASE (\E g \in Groups : Leave(g) \/ Rejoin(g)) \/ Crash \/ Tick \/ UNCHANGED vars
    <2>1. UNCHANGED <<wf, wired, welcome, delivered, welcomed>>
      BY <1>8 DEF Leave, Rejoin, Crash, Tick, vars, jobVars, logVars, chatVars
    <2>2. ASSUME NEW a \in Attempts
          PROVE  \/ phase'[a] = phase[a] \/ phase'[a] = "dead"
                 \/ phase[a] = "asking" /\ phase'[a] = "stranded"
      BY <1>8 DEF Leave, Rejoin, Crash, Tick, vars, At
    <2>3. ASSUME NEW a \in Attempts PROVE TruthAt(a)'
      BY <2>1, <2>2, <2>3 DEF TruthInv, TruthAt, Unsent, Chat
    <2>4. QED
      BY <1>1, <2>1, <2>3 DEF TruthInv, Chat
  <1>9. QED
    BY <1>3, <1>4, <1>5, <1>6, <1>7, <1>8 DEF Next, Progress

\* Whatever was claimed twice, refused, dropped by the queue or cut short by a
\* crash, the workflow and welcome rows agree with what WhatsApp has.
THEOREM RecordsAreTrue == Spec => []RecordsTellTheTruth
  <1>1. Init => TruthInv
    BY DEF Init, TruthInv, TruthAt, Unsent, PhaseOK, Phases
  <1>2. TruthInv /\ [Next]_vars => TruthInv'
    BY TruthStep
  <1>3. TruthInv => RecordsTellTheTruth
    BY DEF TruthInv, TruthAt, Unsent, PhaseOK, Phases, RecordsTellTheTruth
  <1>4. QED
    BY <1>1, <1>2, <1>3, PTL DEF Spec

-------------------------------------------------------------------------------
(***************************************************************************)
(* What is sent: ReplyShape, for any artifacts and answers                 *)
(***************************************************************************)

Pdf(ds) == \E d \in ds : d.is = "pdf"

\* What PresentedIsDelivered says of documents ds and a message m for an answer t.
Delivered(t, ds, m) ==
  /\ t.completed /\ (Presents(t.lines) \/ BarePermalink(t.lines)) =>
       Pdf(ds) \/ (ds = {} /\ \E l \in Preparing : m.lines = {l})
  /\ m.lines \cap Internal = {}
  /\ Presents(m.lines) => Pdf(ds)

\* What NoInvoiceForALookbook says of them.
Suitable(t, ds) ==
  \A d \in ds : d.from \in {"thread", "gateway"} =>
    \/ ClaimsInvoice(t.lines) \/ t.asked = "invoice"
    \/ d.file # Built /\ "invoice" \notin {TitleOf[d.file], IdOf[d.file]}

\* Between the awaits nothing is sent; what goes on is no envelope; and the guard
\* has its reason while it looks for a document.
ReplyInv ==
  /\ turn \in Turns
  /\ step = "waiting" => outcome = <<>>
  /\ step # "sent" => docs = {}
  /\ step \in {"resolving", "recovering"} => "envelope" \notin turn.lines
  /\ step = "recovering" => Guarded(turn, outcome)
  /\ step = "sent" => Delivered(turn, docs, text)
  /\ Suitable(turn, docs)

\* Taking lines out makes nothing of a text that presents nothing.
LEMMA VisiblePresents ==
  ASSUME NEW lines, NEW less, less \subseteq Visible(lines), Presents(less)
  PROVE  Presents(lines)
  <1> USE DEF Presents, ClaimsInvoice, ClaimsDocument, Words,
              Linked
  <1>1. Visible(lines) \subseteq lines
    BY DEF Visible
  <1>2. less \cap Internal = {}
    BY DEF Visible, Internal
  <1>3. {"link", "teach"} \subseteq Internal
    BY DEF Internal
  <1>4. Visible(less) \subseteq Visible(lines)
    BY DEF Visible
  <1>5. ~Linked(less)
    BY <1>2, <1>3
  <1>6. QED
    BY <1>1, <1>4, <1>5

\* The gateway's own lines present nothing, but for the captions.
LEMMA FixedLines ==
  /\ \A l \in Preparing : ~Presents({l})
  /\ Fixed \cap Internal = {}
  <1> USE DEF Preparing, Fixed, Internal, Untrue
  <1>1. Fixed \cap Internal = {}
    OBVIOUS
  <1>2. ASSUME NEW l \in Preparing
        PROVE  ~Presents({l})
    <2>1. Words({l}) \subseteq {"an invoice"} /\ ~Linked({l})
      BY DEF Words, Linked
    <2>2. Visible({l}) \subseteq {l}
      BY DEF Visible
    <2>3. Words(Visible({l})) \subseteq {"an invoice"}
      BY <2>2 DEF Words
    <2>4. QED
      BY <2>1, <2>3 DEF Presents, ClaimsInvoice, ClaimsDocument
  <1>3. QED
    BY <1>1, <1>2

\* An answer the guard has let pass presents nothing, or brings a PDF.
LEMMA UnguardedDelivers ==
  ASSUME NEW t, TurnsOK(t), NEW rs, NEW os, ~Guarded(t, os),
         NEW m, m.lines = Visible(t.lines),
         NEW n, n.lines \in {m.lines, m.lines \ {"long"}} \/
                (n.lines \in {{"invoice caption"}, {"document caption"}}
                 /\ Pdf(FromReply(rs, os)))
  PROVE  Delivered(t, FromReply(rs, os), n)
  <1> DEFINE ds == FromReply(rs, os)
  <1>1. CASE Pdf(ds)
    <2>1. n.lines \cap Internal = {}
      <3>1. {"invoice caption", "document caption"} \cap Internal = {}
        BY FixedLines DEF Fixed
      <3>2. m.lines \cap Internal = {}
        BY DEF Visible
      <3>3. QED
        BY <3>1, <3>2
    <2>2. QED
      BY <1>1, <2>1 DEF Delivered
  <1>2. CASE ~Pdf(ds)
    <2>1. n.lines \subseteq Visible(t.lines) /\ n.lines \cap Internal = {}
      BY <1>2 DEF Visible
    <2>2. ~RealPdf(os)
      <3>1. SUFFICES ASSUME "pdf" \in ToSet(os)
                     PROVE  FALSE
        BY DEF RealPdf
      <3>2. PICK i \in DOMAIN os : os[i] = "pdf"
        BY <3>1 DEF ToSet
      <3>3. [file |-> rs[i], is |-> os[i], from |-> "reply"] \in ds
        BY <3>2 DEF FromReply, Sendable
      <3>4. QED
        BY <1>2, <3>2, <3>3 DEF Pdf
    <2>3. ~(t.completed /\ (Presents(t.lines) \/ BarePermalink(t.lines)))
      BY <2>2 DEF Guarded, EnforceInvoice, EnforceDocument, Presented,
                  Presents
    <2>4. ~Presents(t.lines)
      <3>1. CASE t.completed
        BY <2>3, <3>1
      <3>2. CASE ~t.completed
        <4>1. t.lines \subseteq {"chat"}
          BY <3>2 DEF TurnsOK
        <4>2. Visible(t.lines) \subseteq {"chat"}
          BY <4>1 DEF Visible
        <4>3. Words(t.lines) = {} /\ Words(Visible(t.lines)) = {}
          BY <4>1, <4>2 DEF Words
        <4>4. QED
          BY <4>3 DEF Presents, ClaimsInvoice, ClaimsDocument
      <3>3. QED
        BY <3>1, <3>2
    <2>5. ~Presents(n.lines)
      BY <2>1, <2>4, VisiblePresents
    <2>6. QED
      BY <2>1, <2>3, <2>5 DEF Delivered
  <1>3. QED
    BY <1>1, <1>2

LEMMA UnguardedStep ==
  ASSUME NEW t \in Turns, TurnsOK(t), NEW rs, NEW os, ~Guarded(t, os),
         Unguarded(t, rs, os), docs = {}
  PROVE  /\ step' \in {"sent", "failed"} /\ (step' # "sent" => docs' = {})
         /\ step' = "sent" => Delivered(t, docs', text')
         /\ Suitable(t, docs')
  <1> DEFINE ds == FromReply(rs, os)
             m == [welcome |-> t.welcome, lines |-> Visible(t.lines),
                   note |-> Failures(os)]
             n == IF ds = {} THEN m ELSE Caption(t, ds, m)
  <1>1. Suitable(t, ds) /\ Suitable(t, {})
    BY DEF Suitable, FromReply
  <1>2. \/ step' = "sent" /\ docs' = ds /\ text' = n
        \/ step' = "failed" /\ docs' = docs
    BY DEF Unguarded, Send
  <1>3. n.lines \in {m.lines, m.lines \ {"long"}} \/
        (n.lines \in {{"invoice caption"}, {"document caption"}} /\ Pdf(ds))
    <2>1. CASE n = m
      BY <2>1
    <2>2. CASE n = [m EXCEPT !.lines = {"invoice caption"}, !.note = {}] /\ Pdf(ds)
      BY <2>2
    <2>3. CASE n = [m EXCEPT !.lines = {"document caption"}] /\ Pdf(ds)
      BY <2>3
    <2>4. CASE n = [m EXCEPT !.lines = @ \ {"long"}]
      BY <2>4
    <2>5. QED
      BY <2>1, <2>2, <2>3, <2>4 DEF Caption, InvoicePdf, Short, Pdf
  <1>4. m.lines = Visible(t.lines)
    OBVIOUS
  <1> HIDE DEF m, n
  <1>5. Delivered(t, ds, n)
    BY <1>3, <1>4, UnguardedDelivers
  <1>6. QED
    BY <1>1, <1>2, <1>5

\* What the guard finds or makes is a PDF, and an invoice only where one was wanted.
LEMMA DecisionFits ==
  ASSUME NEW t, NEW rs, NEW os, NEW stored \in Stored(t) \cup {Nothing}, NEW facts,
         EnforceInvoice(t) \/ EnforceDocument(t),
         {Built, Nothing} \cap Artifacts = {}
  PROVE  LET ds == Decision(t, rs, os, stored, facts)
         IN  Suitable(t, ds) /\ (ds = {} \/ Pdf(ds))
  <1> DEFINE ds == Decision(t, rs, os, stored, facts)
  <1>1. ds = {} \/ Pdf(ds)
    BY DEF Decision, Pdf
  <1>2. CASE EnforceInvoice(t)
    <2>1. ClaimsInvoice(t.lines) \/ t.asked = "invoice"
      BY <1>2 DEF EnforceInvoice, Presented
    <2>2. Suitable(t, ds)
      BY <2>1 DEF Suitable
    <2>3. QED
      BY <1>1, <2>2
  <1>3. CASE ~EnforceInvoice(t)
    <2>1. CASE stored # Nothing
      <3>1. stored \in Artifacts /\ ~InvoiceNamed(stored)
        BY <1>3, <2>1 DEF Stored
      <3>2. \A d \in ds : d.file = stored
        BY <1>3 DEF Decision
      <3>3. QED
        BY <1>1, <3>1, <3>2 DEF Suitable, InvoiceNamed
    <2>2. CASE stored = Nothing
      <3>1. ds = {}
        BY <1>3, <2>2 DEF Decision
      <3>2. QED
        BY <1>1, <3>1 DEF Suitable
    <2>3. QED
      BY <2>1, <2>2
  <1>4. QED
    BY <1>1, <1>2, <1>3

LEMMA RecoverStep ==
  ASSUME ReplyInv, Recover
  PROVE  ReplyInv'
  <1> USE ReplyShapeAssumption
  <1>1. /\ turn \in Turns /\ turn' = turn /\ docs = {} /\ "envelope" \notin turn.lines
        /\ step = "recovering" /\ Guarded(turn, outcome) /\ TurnsOK(turn)
    BY DEF ReplyInv, Recover
  <1>2. EnforceInvoice(turn) \/ EnforceDocument(turn)
    BY <1>1 DEF Guarded
  <1>3. PICK stored \in Stored(turn) \cup {Nothing}, facts \in Facts(turn, outcome) :
          LET ds == Decision(turn, refs, outcome, stored, facts)
          IN  IF EnforceInvoice(turn) THEN GuardedInvoice(turn, ds)
              ELSE GuardedDocument(turn, ds)
    BY DEF Recover
  <1> DEFINE ds == Decision(turn, refs, outcome, stored, facts)
  <1>4. Suitable(turn, ds) /\ (ds = {} \/ Pdf(ds))
    BY <1>1, <1>2, DecisionFits
  <1>5. GuardedInvoice(turn, ds) \/ GuardedDocument(turn, ds)
    BY <1>3
  <1> HIDE DEF ds
  <1>6. \/ step' = "failed" /\ docs' = docs
        \/ /\ step' = "sent" /\ docs' = ds
           /\ \/ ds = {} /\ \E l \in Preparing : text'.lines = {l}
              \/ ds # {} /\ text'.lines \cap Internal = {}
    <2>1. {"invoice caption", "document caption"} \cap Internal = {}
      BY FixedLines DEF Fixed
    <2>2. Visible(turn.lines) \cap Internal = {}
      BY DEF Visible
    <2>3. CASE GuardedInvoice(turn, ds)
      <3>1. PICK m : /\ Send(ds, m)
                     /\ m = [welcome |-> turn.welcome, note |-> {},
                             lines |-> IF ds = {} THEN {"preparing invoice"}
                                       ELSE {"invoice caption"}]
        BY <2>3 DEF GuardedInvoice
      <3>2. m.lines = IF ds = {} THEN {"preparing invoice"} ELSE {"invoice caption"}
        BY <3>1
      <3>3. \/ step' = "failed" /\ docs' = docs
            \/ step' = "sent" /\ docs' = ds /\ text' = m
        BY <3>1 DEF Send
      <3>4. "preparing invoice" \in Preparing
        BY DEF Preparing
      <3>5. {"invoice caption"} \cap Internal = {}
        BY <2>1
      <3>6. QED
        BY <3>2, <3>3, <3>4, <3>5
    <2>4. CASE GuardedDocument(turn, ds)
      <3> DEFINE v == [welcome |-> turn.welcome, lines |-> Visible(turn.lines), note |-> {}]
      <3>1. PICK m : /\ Send(ds, m)
                     /\ m = IF ds = {} THEN [v EXCEPT !.lines = {"preparing document"}]
                            ELSE IF Short(v) = NoText
                                 THEN [v EXCEPT !.lines = {"document caption"}]
                            ELSE Short(v)
        BY <2>4 DEF GuardedDocument
      <3>2. IF ds = {} THEN m.lines = {"preparing document"}
            ELSE m.lines \in {{"document caption"}, Visible(turn.lines) \ {"long"}}
        BY <3>1 DEF Short
      <3>3. QED
        BY <2>1, <2>2, <3>1, <3>2 DEF Send, Preparing
    <2>5. QED
      BY <1>5, <2>3, <2>4
  <1>7. step' = "sent" => Delivered(turn, docs', text')
    <2>1. CASE step' = "sent" /\ ds = {}
      <3>1. PICK l \in Preparing : text'.lines = {l}
        BY <1>6, <2>1
      <3>2. {l} \cap Internal = {} /\ ~Presents({l})
        BY FixedLines DEF Preparing, Fixed
      <3>3. QED
        BY <1>6, <2>1, <3>1, <3>2 DEF Delivered
    <2>2. CASE step' = "sent" /\ ds # {}
      BY <1>4, <1>6, <2>2 DEF Delivered
    <2>3. QED
      BY <2>1, <2>2
  <1>8. step' \in {"sent", "failed"} /\ (step' # "sent" => docs' = {})
        /\ Suitable(turn, docs')
    BY <1>1, <1>4, <1>6 DEF Suitable
  <1>9. QED
    BY <1>1, <1>7, <1>8 DEF ReplyInv

\* On from the downloads.
LEMMA ContinueStep ==
  ASSUME turn \in Turns, turn' = turn, TurnsOK(turn), "envelope" \notin turn.lines,
         docs = {}, NEW rs, NEW os, Continue(turn, rs, os), outcome' = os
  PROVE  ReplyInv'
  <1>1. CASE Guarded(turn, os)
    <2>1. step' = "recovering" /\ docs' = {}
      BY <1>1 DEF Continue
    <2>2. QED
      BY <1>1, <2>1 DEF ReplyInv, Suitable
  <1>2. CASE ~Guarded(turn, os)
    <2>1. Unguarded(turn, rs, os)
      BY <1>2 DEF Continue
    <2>2. /\ step' \in {"sent", "failed"} /\ (step' # "sent" => docs' = {})
          /\ step' = "sent" => Delivered(turn, docs', text')
          /\ Suitable(turn, docs')
      BY <1>2, <2>1, UnguardedStep
    <2>3. QED
      BY <2>2 DEF ReplyInv
  <1>3. QED
    BY <1>1, <1>2

\* What is sent fits the answer, for any answer, artifacts and downloads.
THEOREM ReplyInvariant == ReplySpec => []ReplyInv
  <1>1. ReplyInit => ReplyInv
    BY DEF ReplyInit, ReplyInv, Suitable
  <1>2. ReplyInv /\ [ReplyNext]_replyVars => ReplyInv'
    <2> SUFFICES ASSUME ReplyInv, [ReplyNext]_replyVars
                 PROVE  ReplyInv'
      OBVIOUS
    <2>1. turn \in Turns /\ TurnsOK(turn)
      BY ReplyShapeAssumption DEF ReplyInv
    <2>2. CASE Answer
      <3>1. step = "waiting" /\ docs = {} /\ turn' = turn /\ outcome' = outcome
        BY <2>2 DEF Answer, ReplyInv
      <3>2. CASE step' \in {"failed", "resolving"} /\ docs' = docs
                 /\ (step' = "resolving" => "envelope" \notin turn.lines)
        BY <2>1, <3>1, <3>2 DEF ReplyInv, Suitable
      <3>3. CASE "envelope" \notin turn.lines /\ Continue(turn, <<>>, <<>>)
        <4>1. outcome' = <<>>
          BY <3>1 DEF ReplyInv
        <4>2. QED
          BY <2>1, <3>1, <3>3, <4>1, ContinueStep
      <3>4. QED
        BY <2>2, <3>1, <3>2, <3>3 DEF Answer
    <2>3. CASE Resolve
      <3>1. step = "resolving" /\ docs = {} /\ turn' = turn /\ "envelope" \notin turn.lines
        BY <2>3 DEF Resolve, ReplyInv
      <3>2. CASE step' = step /\ docs' = docs
        BY <2>1, <3>1, <3>2 DEF ReplyInv, Suitable
      <3>3. CASE Continue(turn, refs, outcome')
        BY <2>1, <3>1, <3>3, ContinueStep
      <3>4. QED
        BY <2>3, <3>2, <3>3 DEF Resolve
    <2>4. CASE UNCHANGED replyVars
      BY <2>4 DEF replyVars, ReplyInv
    <2>5. QED
      BY <2>2, <2>3, <2>4, RecoverStep DEF ReplyNext
  <1>3. QED
    BY <1>1, <1>2, PTL DEF ReplySpec

\* What presents a document brings a PDF or says that it is being prepared, and what
\* is no PDF presents none.
THEOREM PresentedAlwaysDelivered == ReplySpec => []PresentedIsDelivered
  <1>1. ReplyInv => PresentedIsDelivered
    BY DEF ReplyInv, Delivered, Pdf, PresentedIsDelivered, HasPdf
  <1>2. QED
    BY <1>1, ReplyInvariant, PTL

\* No invoice of the thread, and none made of facts, answers anything but a reply
\* that presents one or a request for one.
THEOREM NoInvoiceForALookbookAlways == ReplySpec => []NoInvoiceForALookbook
  <1>1. ReplyInv => NoInvoiceForALookbook
    BY DEF ReplyInv, Suitable, NoInvoiceForALookbook
  <1>2. QED
    BY <1>1, ReplyInvariant, PTL

===============================================================================
