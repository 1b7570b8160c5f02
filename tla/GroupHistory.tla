----------------------------- MODULE GroupHistory -----------------------------
(***************************************************************************)
(* What a group's past and present go through when the account joins: the  *)
(* one inbound queue of the socket (whatsapp/socket.ts), on which history  *)
(* chunks, live messages and the end of the join wait take turns; the      *)
(* message store; and the replay on the router's chain for the chat        *)
(* (routing/inboundRouter.ts).                                             *)
(*                                                                         *)
(* A membership event is handled the moment it arrives, at any await of    *)
(* all of these.  Messages are numbered by their timestamps.  The debounce *)
(* of live messages is the time they spend in the buffer.                  *)
(***************************************************************************)
EXTENDS Naturals, FiniteSets, Sequences, SequencesExt

CONSTANTS
  LiveMsgs,   \* messages that arrive live
  PastMsgs,   \* those of history chunks, some of them the same
  Echoes,     \* those the gateway has sent itself
  MaxEpoch,   \* bound on membership changes
  MaxChunks,  \* bound on history chunks
  MaxQueue    \* bound on the work WhatsApp lets wait on the inbound queue

ASSUME GroupHistoryAssumption ==
  /\ LiveMsgs \subseteq Nat /\ PastMsgs \subseteq Nat /\ Echoes \subseteq LiveMsgs \cup PastMsgs
  /\ IsFiniteSet(LiveMsgs \cup PastMsgs)
  /\ MaxEpoch \in Nat /\ MaxChunks \in Nat /\ MaxQueue \in Nat

Msgs == LiveMsgs \cup PastMsgs

VARIABLES
  epoch,      \* groupEpochs of the socket
  joined,     \* selfPresent
  member,     \* the membership row, and the router's epoch
  pending,    \* pendingHistoryGroups has the group
  wait,       \* joinWaits
  queue,      \* the inbound queue: work not begun
  work,       \* the work at its head, at an await
  store,      \* whatsapp_message_store
  buffer,     \* the router's debounce buffer
  chain,      \* the router's chain: batches and replays
  job,        \* the replay at its head
  posts,      \* what PromptQL has accepted, in order
  arrived,    \* live messages: the epoch they arrived in
  missed,     \* history rows a replay has given up
  owed,       \* what was in the store when a held message was let go
  chunks      \* history chunks so far

historyVars == <<epoch, joined, member, pending, wait, queue, work, store, buffer,
                 chain, job, posts, arrived, missed, owed, chunks>>
socketVars == <<epoch, joined, pending, wait, queue, work, buffer, owed>>
routerVars == <<chain, job, posts, missed>>
worldVars == <<arrived, chunks>>

NoWait == [epoch |-> 0, held |-> <<>>, fired |-> FALSE]
NoJob == [at |-> "none", epoch |-> 0, rows |-> {}, from |-> 0]
Idle == [at |-> "idle", kind |-> "none", epoch |-> 0, msgs |-> <<>>]

Waiting == wait.epoch > 0
Unrelayed == {m \in Msgs : store[m] = "history"}
Available(e) == e = member.epoch /\ member.present # "out"

HistoryTypeOK ==
  /\ epoch \in 0..MaxEpoch
  /\ joined \in BOOLEAN /\ pending \in BOOLEAN
  /\ member \in [present : {"unknown", "in", "out"}, epoch : 0..MaxEpoch]
  /\ wait \in [epoch : 0..MaxEpoch, held : Seq(LiveMsgs), fired : BOOLEAN]
  /\ \A i \in DOMAIN queue : queue[i].kind \in {"live", "chunk", "timeout"}
  /\ work.at \in {"idle", "downloading", "replaying", "letting go", "fetching"}
  /\ store \in [Msgs -> {"none", "live", "history", "relayed"}]
  /\ \A i \in DOMAIN buffer : buffer[i].msg \in LiveMsgs
  /\ \A i \in DOMAIN chain : chain[i].kind \in {"batch", "replay"}
  /\ job.at \in {"none", "opening", "row", "sending", "closing"}
  /\ missed \in SUBSET Msgs
  /\ owed \in [LiveMsgs -> SUBSET Msgs]

HistoryInit ==
  /\ epoch = 0 /\ joined = FALSE /\ pending = FALSE
  /\ member = [present |-> "unknown", epoch |-> 0]
  /\ wait = NoWait /\ queue = <<>> /\ work = Idle
  /\ store = [m \in Msgs |-> "none"]
  /\ buffer = <<>> /\ chain = <<>> /\ job = NoJob /\ posts = <<>>
  /\ arrived = [m \in {} |-> 0] /\ missed = {} /\ owed = [m \in LiveMsgs |-> {}]
  /\ chunks = 0

-------------------------------------------------------------------------------
(***************************************************************************)
(* Events                                                                  *)
(***************************************************************************)

\* The router's epoch: another change of membership, or a repeated removal.
Counted(present) ==
  [present |-> present,
   epoch |-> IF present = "out" \/ member.present # "in" THEN member.epoch + 1 ELSE member.epoch]

\* The account is added: history is expected, and live messages wait for it.
SelfAdded ==
  /\ ~joined /\ epoch < MaxEpoch /\ member.epoch < MaxEpoch
  /\ joined' = TRUE
  /\ epoch' = epoch + 1
  /\ pending' = TRUE
  /\ wait' = [epoch |-> epoch + 1, held |-> <<>>, fired |-> FALSE]
  /\ member' = Counted("in")
  /\ UNCHANGED <<queue, work, store, buffer, owed, routerVars, worldVars>>

\* Baileys may report the same join twice.
AddedAgain ==
  /\ joined
  /\ member' = Counted("in")
  /\ UNCHANGED <<socketVars, store, routerVars, worldVars>>

\* The account is removed: what waits is dropped.
SelfRemoved ==
  /\ epoch < MaxEpoch /\ member.epoch < MaxEpoch
  /\ joined' = FALSE
  /\ epoch' = epoch + 1
  /\ pending' = FALSE
  /\ wait' = NoWait
  /\ member' = Counted("out")
  /\ UNCHANGED <<queue, work, store, buffer, owed, routerVars, worldVars>>

\* A live message; its epoch is not noted before its turn comes.
Arrive(m) ==
  /\ m \notin DOMAIN arrived /\ Len(queue) < MaxQueue
  /\ arrived' = [n \in DOMAIN arrived \cup {m} |-> IF n = m THEN epoch ELSE arrived[n]]
  /\ queue' = Append(queue, [kind |-> "live", msg |-> m])
  /\ UNCHANGED <<epoch, joined, member, pending, wait, work, store, buffer, owed, routerVars, chunks>>

\* A history chunk, with the epoch it arrived in.
ChunkArrives(S, complete) ==
  /\ chunks < MaxChunks /\ Len(queue) < MaxQueue /\ (S # {} \/ complete)
  /\ chunks' = chunks + 1
  /\ queue' = Append(queue,
       [kind |-> "chunk", epoch |-> epoch, rows |-> S, complete |-> complete])
  /\ UNCHANGED <<epoch, joined, member, pending, wait, work, store, buffer, owed, routerVars, arrived>>

\* The join wait runs out; its end takes its turn on the queue.
WaitEnds ==
  /\ Waiting /\ ~wait.fired
  /\ wait' = [wait EXCEPT !.fired = TRUE]
  /\ queue' = Append(queue, [kind |-> "timeout", epoch |-> wait.epoch])
  /\ UNCHANGED <<epoch, joined, member, pending, work, store, buffer, owed, routerVars, worldVars>>

-------------------------------------------------------------------------------
(***************************************************************************)
(* The inbound queue of the socket                                         *)
(***************************************************************************)

Next1 == work.at = "idle" /\ queue # <<>>
First == Head(queue)

\* Mutant of Inserted: a stored row is written over.
Replaced(S, as) == [m \in Msgs |-> IF m \in S THEN as ELSE store[m]]

\* INSERT OR IGNORE.
Inserted(S, as) == [m \in Msgs |-> IF m \in S /\ store[m] = "none" THEN as ELSE store[m]]

\* A live message of a group that waits is held.
Hold ==
  /\ Next1 /\ First.kind = "live" /\ Waiting
  /\ queue' = Tail(queue)
  /\ wait' = [wait EXCEPT !.held = Append(@, First.msg)]
  /\ UNCHANGED <<epoch, joined, member, pending, work, store, buffer, owed, routerVars, worldVars>>

\* Otherwise it is captured, and downloaded unless it was stored already or is
\* the gateway's own.
Take(m, e) ==
  /\ store' = Inserted({m}, "live")
  /\ work' = IF store[m] # "none" \/ m \in Echoes THEN Idle
             ELSE [at |-> "downloading", kind |-> "live", epoch |-> e, msgs |-> <<m>>]

TakeLive ==
  /\ Next1 /\ First.kind = "live" /\ ~Waiting
  /\ queue' = Tail(queue)
  /\ Take(First.msg, epoch)
  /\ UNCHANGED <<epoch, joined, member, pending, wait, buffer, owed, routerVars, worldVars>>

\* The download is over; the router gets it unless the membership has changed.
HandOver(m, e) ==
  buffer' = IF e = epoch THEN Append(buffer, [msg |-> m, epoch |-> member.epoch]) ELSE buffer

Downloaded ==
  /\ work.at = "downloading"
  /\ HandOver(work.msgs[1], work.epoch)
  /\ work' = Idle
  /\ UNCHANGED <<epoch, joined, member, pending, wait, queue, store, owed, routerVars, worldVars>>

\* The replay is asked of the router, which puts it on the chain of the chat.
AskReplay(kind, e) ==
  /\ chain' = Append(chain, [kind |-> "replay", epoch |-> member.epoch, msgs |-> <<>>])
  /\ work' = [at |-> "replaying", kind |-> kind, epoch |-> e, msgs |-> <<>>]
  /\ UNCHANGED <<job, posts, missed>>

Expected(e) == pending /\ e = epoch

\* Mutant of Calls: only the end of history is replayed.
CallsAtEndOnly(new, complete) == complete

\* The end of history is replayed, and any rows that come after the join wait.
Calls(new, complete) == complete \/ (~Waiting /\ new # {})

\* Captured rows of the gateway's own are relayed already.
CaptureChunk ==
  LET new == First.rows IN
  /\ Next1 /\ First.kind = "chunk" /\ Expected(First.epoch)
  /\ queue' = Tail(queue)
  /\ store' = [m \in Msgs |->
       IF m \in new \cap Echoes /\ store[m] = "none" THEN "relayed" ELSE Inserted(new, "history")[m]]
  /\ pending' = (pending /\ ~First.complete)
  /\ IF Calls(new, First.complete)
     THEN AskReplay(IF First.complete THEN "complete" ELSE "chunk", First.epoch)
     ELSE UNCHANGED <<work, routerVars>>
  /\ UNCHANGED <<epoch, joined, member, wait, buffer, owed, worldVars>>

IgnoreChunk ==
  /\ Next1 /\ First.kind = "chunk" /\ ~Expected(First.epoch)
  /\ queue' = Tail(queue)
  /\ UNCHANGED <<epoch, joined, member, pending, wait, work, store, buffer, owed, routerVars, worldVars>>

TimeoutTurn ==
  /\ Next1 /\ First.kind = "timeout"
  /\ queue' = Tail(queue)
  /\ IF wait.epoch = First.epoch THEN AskReplay("timeout", First.epoch) ELSE UNCHANGED <<work, routerVars>>
  /\ UNCHANGED <<epoch, joined, member, pending, wait, store, buffer, owed, worldVars>>

\* Mutant of Replaying: the router is not awaited.
NotAwaited == FALSE

Replaying == \E i \in DOMAIN chain : chain[i].kind = "replay"

\* Mutant of Closes: only the end of history lets messages go.
ClosesAtEndOnly(kind) == kind = "complete"

\* A chunk that comes late lets nothing go.
Closes(kind) == kind # "chunk"

\* The replay is over: the end of history, or of the wait, lets the held go.
Released ==
  /\ work.at = "replaying" /\ ~Replaying
  /\ IF Waiting /\ Closes(work.kind) /\ work.epoch = epoch
     THEN /\ wait' = NoWait
          /\ owed' = [m \in LiveMsgs |-> IF m \in ToSet(wait.held) THEN Unrelayed ELSE owed[m]]
          /\ work' = [work EXCEPT !.at = "letting go", !.msgs = wait.held]
     ELSE work' = Idle /\ UNCHANGED <<wait, owed>>
  /\ UNCHANGED <<epoch, joined, member, pending, queue, store, buffer, routerVars, worldVars>>

\* One after the other they are taken like live messages, with the epoch of the wait.
LetGo ==
  LET m == Head(work.msgs)
      more == Tail(work.msgs)
      fresh == ~Waiting /\ store[m] = "none"
  IN
  /\ work.at = "letting go" /\ work.msgs # <<>>
  /\ store' = IF Waiting THEN store ELSE Inserted({m}, "live")
  /\ work' = IF fresh /\ m \notin Echoes /\ work.epoch = epoch
             THEN [work EXCEPT !.at = "fetching"] ELSE [work EXCEPT !.msgs = more]
  /\ UNCHANGED <<epoch, joined, member, pending, wait, queue, buffer, owed, routerVars, worldVars>>

Fetched ==
  /\ work.at = "fetching"
  /\ HandOver(Head(work.msgs), work.epoch)
  /\ work' = [work EXCEPT !.at = "letting go", !.msgs = Tail(@)]
  /\ UNCHANGED <<epoch, joined, member, pending, wait, queue, store, owed, routerVars, worldVars>>

AllGone ==
  /\ work.at = "letting go" /\ work.msgs = <<>>
  /\ work' = Idle
  /\ UNCHANGED <<epoch, joined, member, pending, wait, queue, store, buffer, owed, routerVars, worldVars>>

-------------------------------------------------------------------------------
(***************************************************************************)
(* The router's chain of the chat                                          *)
(***************************************************************************)

ChainOnly == UNCHANGED <<epoch, joined, member, pending, wait, queue, work, owed, worldVars>>

\* The quiet window is over.
Flush ==
  /\ buffer # <<>>
  /\ buffer' = <<>>
  /\ chain' = Append(chain, [kind |-> "batch", epoch |-> Last(buffer).epoch,
                             msgs |-> [i \in DOMAIN buffer |-> buffer[i].msg]])
  /\ UNCHANGED <<store, job, posts, missed>> /\ ChainOnly

\* A batch is posted, fails, or is dropped because the account has left.
Batch(ok) ==
  /\ chain # <<>> /\ Head(chain).kind = "batch"
  /\ chain' = Tail(chain)
  /\ posts' = IF ok /\ Available(Head(chain).epoch)
              THEN posts \o [i \in DOMAIN Head(chain).msgs |->
                              [msg |-> Head(chain).msgs[i], as |-> "live", from |-> 0]]
              ELSE posts
  /\ UNCHANGED <<store, buffer, job, missed>> /\ ChainOnly

ReplayTurn == chain # <<>> /\ Head(chain).kind = "replay"

EndReplay == chain' = Tail(chain) /\ job' = NoJob

\* The rows are read; then the destination is awaited.
ReadRows ==
  /\ ReplayTurn /\ job.at = "none"
  /\ IF Unrelayed = {} \/ ~Available(Head(chain).epoch)
     THEN EndReplay
     ELSE /\ job' = [at |-> "opening", epoch |-> Head(chain).epoch, rows |-> Unrelayed,
                     from |-> Len(posts)]
          /\ UNCHANGED chain
  /\ UNCHANGED <<store, buffer, posts, missed>> /\ ChainOnly

\* The replay ends with rows left.
GiveUpRows(rows) == EndReplay /\ missed' = missed \cup rows

\* The opening line is posted, or fails.
Open(ok) ==
  /\ job.at = "opening"
  /\ IF ok /\ Available(job.epoch)
     THEN job' = [job EXCEPT !.at = "row"] /\ UNCHANGED <<chain, missed>>
     ELSE GiveUpRows(job.rows)
  /\ UNCHANGED <<store, buffer, posts>> /\ ChainOnly

\* A row is decoded and its media downloaded.
Prepare ==
  /\ job.at = "row" /\ job.rows # {}
  /\ IF Available(job.epoch)
     THEN job' = [job EXCEPT !.at = "sending"] /\ UNCHANGED <<chain, missed>>
     ELSE GiveUpRows(job.rows)
  /\ UNCHANGED <<store, buffer, posts>> /\ ChainOnly

\* "Only accepted rows are marked relayed."
Marked(m, ok) == IF ok THEN [store EXCEPT ![m] = "relayed"] ELSE store

\* Mutant of IsNext: the row of the last chunk first.
IsNewest(m, rows) == m \in rows /\ \A n \in rows : n <= m

\* Rows are read sorted by time.
IsNext(m, rows) == m \in rows /\ \A n \in rows : m <= n

\* It is posted and marked, or left for a later batch.
Relay(m, ok) ==
  LET sent == ok /\ Available(job.epoch) IN
  /\ job.at = "sending" /\ IsNext(m, job.rows)
  /\ store' = Marked(m, sent)
  /\ posts' = IF sent THEN Append(posts, [msg |-> m, as |-> "history", from |-> job.from]) ELSE posts
  /\ missed' = IF sent THEN missed ELSE missed \cup {m}
  /\ job' = [job EXCEPT !.at = "row", !.rows = @ \ {m}]
  /\ UNCHANGED <<chain, buffer>> /\ ChainOnly

\* The closing line, whatever becomes of it.
Close ==
  /\ job.at = "row" /\ job.rows = {}
  /\ EndReplay
  /\ UNCHANGED <<store, buffer, posts, missed>> /\ ChainOnly

-------------------------------------------------------------------------------

QueueStep ==
  \/ Hold \/ TakeLive \/ Downloaded \/ CaptureChunk \/ IgnoreChunk \/ TimeoutTurn
  \/ Released \/ LetGo \/ Fetched \/ AllGone

ChainStep ==
  \/ ReadRows \/ Prepare \/ Close
  \/ \E ok \in BOOLEAN : Batch(ok) \/ Open(ok) \/ (\E m \in Msgs : Relay(m, ok))

HistoryNext ==
  \/ SelfAdded \/ AddedAgain \/ SelfRemoved
  \/ \E m \in LiveMsgs : Arrive(m)
  \/ \E S \in SUBSET PastMsgs, complete \in BOOLEAN : ChunkArrives(S, complete)
  \/ WaitEnds \/ Flush
  \/ QueueStep
  \/ ChainStep

HistorySpec == HistoryInit /\ [][HistoryNext]_historyVars

\* Downloads and posts end, one way or the other; timers fire.
FairHistorySpec ==
  /\ HistorySpec
  /\ WF_historyVars(WaitEnds) /\ WF_historyVars(QueueStep)
  /\ WF_historyVars(ChainStep) /\ WF_historyVars(Flush)

-------------------------------------------------------------------------------
(***************************************************************************)
(* Properties                                                              *)
(***************************************************************************)

Posted == {posts[i].msg : i \in DOMAIN posts}

\* "Never promote an existing live row to history, even after a remove/re-add"
\* (messageStore.ts:40): a message that arrives both ways, in any order, held or
\* not, reaches PromptQL once, and the gateway's own never; and "failed rows remain
\* available for a later batch" (README.md:160): what is marked was accepted.
PostedOnce ==
  /\ \A i, j \in DOMAIN posts : posts[i].msg = posts[j].msg => i = j
  /\ Posted \cap Echoes = {}
  /\ \A m \in Msgs : store[m] = "relayed" => m \in Posted \cup Echoes

\* "Replay all partial chunks, sorted together, before releasing live input"
\* (socket.ts:477): what a held message was let go with had its turn before.
HistoryFirst == \A m \in LiveMsgs : owed[m] \subseteq missed

\* "Oldest first" (README.md:157), within one replay, whichever chunks brought the
\* rows (a replay is told from others by the posts that went before it).
OldestFirstPosted ==
  \A i, j \in DOMAIN posts :
    /\ i < j /\ posts[i].as = "history" /\ posts[j].as = "history"
    /\ posts[i].from = posts[j].from
    => posts[i].msg < posts[j].msg

\* Held messages are let go, and captured rows get their turn, unless the account
\* leaves: neither waits for a chunk that never comes.
WaitIsBounded == Waiting ~> ~Waiting

CapturedHasItsTurn ==
  \A m \in PastMsgs : store[m] = "history" ~> (store[m] = "relayed" \/ m \in missed \/ ~joined)

-------------------------------------------------------------------------------

\* "messages queued before a membership change are captured but not delivered"
\* (tests/groupSocket.test.ts:102).
QueuedIsNotDelivered ==
  [][Len(buffer') > Len(buffer) => arrived[Last(buffer').msg] = epoch]_buffer

================================================================================
