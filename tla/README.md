# Verification of sept-wa-gateway

TLA+ models of the gateway between WhatsApp (Baileys) and PromptQL (MCP over
HTTP), TLC configurations that check them on small instances, and TLAPS proofs of
the results that hold for every instance. All paths are relative to the repository,
so `src/routing/...` is the TypeScript; line numbers in comments of the modules are
those of the file they name.

    tlc -workers 2 -config Dispatch.cfg MCDispatcher.tla
    tlapm DispatcherProofs.tla

`PROJECT.json` lists components, runs, mutants (each property with a plausible bug
of the code that breaks it), the source lines behind every definition, findings,
hazards and theorems.

## The system

One Bun process, one event loop, one SQLite database, one linked WhatsApp number.
There is no preemption: code between two `await`s is atomic, and SQLite calls are
synchronous. What makes it hard is that almost everything awaits (downloads, asks
that take minutes, paced sends) while messages, membership events, administrators'
requests and timers run at every one of those awaits, and that the process may die
at any of them.

| Part | State it keeps | Operations | What makes it correct |
|---|---|---|---|
| Inbound queue of the socket (`whatsapp/socket.ts`) | promise chain, group epochs, pending history, join waits, open bursts | live messages, downloads, history chunks, end of the wait, self membership | the past is posted before the held present, an album stays one turn, nothing waits for ever |
| Inbound router (`routing/inboundRouter.ts`) | buffers, chains per chat, epochs; `chat_bot`, `shopper` rows | handle, flush, processBatch, upload ladder, recovery, registration, removal | FIFO through acceptance, one claim settled on every path, one request per turn, a rejected text is kept, removal stops relay |
| Group metadata (`whatsapp/groupMeta.ts`) | cached roster with its lifetime, membership row, version fence | lookup, participant and subject events, removal, re-add | no roster older than what was heard, none of a group that was left |
| Media (`whatsapp/media.ts`, `promptql/mediaFiles.ts`) | bytes in memory | download, stage, re-encode | bytes live as long as their turn |
| Outbound log (`storage/outboundLog.ts`) | one row per inbound message: status, token, time | claim, markSent, markRelayed, markFailed | a claim has one holder; a late holder changes nothing |
| Dispatcher (`routing/outboundDispatcher.ts`) | workflow rows, welcome log, preparing lines | wait, compose, send, record | rows agree with what WhatsApp has |
| PDF guard, sanitizer (`routing/invoicePdfGuard.ts`, `sanitizer.ts`, `outboundTruth.ts`) | none | judge, recover, build, caption | a promised document comes, and never the wrong one |
| PromptQL adapter and MCP client (`promptql/`) | sessions per posting identity, handshakes | ask, poll, decline, download | right account, no repeat without a loss, every turn ends |
| Credentials (`storage/credentialStore.ts`) | active token per identity | rotate, revoke | calls run under a token of their own identity |
| Send queue (`whatsapp/antiBan.ts`) | chain per chat, backlog, token bucket per connection | enqueue, shed, pace, send, drain | order per chat, bounded backlog, rate |
| Connection (`whatsapp/socket.ts`, `authState.ts`) | live state, sockets, timers; connection row and session | link, unlink, open, close, reboot | one socket, logged out is final, a linked session comes back |
| Media bridge, admin API, voice | requests | | not modelled, see the end |

A message takes this way: the socket's inbound queue captures it, downloads its
media and hands it to the router's buffer, which a download of the same party holds
open; a quiet window makes the buffer a batch; the batches of a chat run one after
another, look the group up, claim their messages in the outbound log, recover what an
earlier post left behind and ask PromptQL through the adapter, files on a ladder of
up to three attempts;
the accepted ask is handed to `dispatch()`, which nobody awaits; it waits for the
answer, resolves artifacts, lets the PDF guard judge, and sends through the send
queue, which asks `beforeSend()` (is the account still in the group?) when the turn
has come; claim, workflow row and welcome log are written as the send ends.

## Modules

| Module | Models | Composes / refines |
|---|---|---|
| `ClaimTable` | one row of `whatsapp_outbound_log` and what each statement does to it | used by the next and by `Dispatcher` |
| `OutboundLog` | the callers of the table: claim, send, settle, die | implements `ReplyLease` (proved) |
| `ReplyLease` | abstract: who may answer a message | |
| `Dispatcher` | `dispatch()`, `dispatchDirectText()` and the part of `processBatch()` that claims and hands over | implements `OutboundLog` (proved) |
| `InboundRouter` | `inboundRouter.ts` from arrival to acceptance | |
| `UploadLadder` | the posts of one turn with files, and the pending slot of its chat | |
| `AlbumBurst` | inbound queue with downloads, windows of the buffers, chains | drives `UploadLadder` (proved) |
| `GroupMeta` | lookups and events of one group's roster, the choice of an owner | |
| `SendLanes` | abstract: order and capacity of sends | |
| `AntiBanQueue` | `antiBan.ts` | implements `SendLanes` (proved) |
| `Connection` | pairing, sockets, closes, reboot | |
| `GroupHistory` | inbound queue, join wait, store and replay of history | |
| `McpSessions` | MCP client, adapter sessions, turns, credentials | |
| `ReplyShape` | what an answer becomes: text, documents, notes | |
| `*Proofs` | theorems of the module they extend | |
| `MC*` | the constants of the runs | |

Conventions. An action is the code between two awaits; the variable `phase`, `pc`
or `at` names the await a job stands at. Whatever an `await` can do wrong (throw,
never be answered, be answered too late) is a disjunct. Data is abstracted to what
the properties tell apart: a message is a model value with a chat, a sender and a
kind; a text in `ReplyShape` is a set of kinds of lines. An operator whose comment
starts "Mutant of" is not part of the model: it is the bug that shows that a
property can fail.

### Correspondence, module by module

**ClaimTable, OutboundLog.** `row[k]` is the row with idempotency key k (status,
`claim_token`, `updated_at`). A token is a fresh uuid per `claim()`, so the attempt
itself stands for it. `Claimable`, `ClaimedRow`, `Owns`, `SettledRow` are the WHERE
and SET clauses; an attempt's `phase` adds what the table cannot see (whether
WhatsApp has the message, whether the sender died).
`ReplyLease` keeps of it who holds a key, what became of the message and whose lease
is out; a terminal write with a token that was replaced is its `Withdraw`, which must
leave the key alone.

**Dispatcher.** `wf` is the workflow row, `welcome[a]` what `isWelcomeSent()` said
at claim time, `welcomed` the welcome log, `preparingAt` the map in memory (lost in
a crash), `bot` the pause of the chat_bot row and `removed` the membership row; the
code's `canSend()` reads `bot`, the property speaks of `removed`. `extras` are the
documents that follow the first. `LogPhase` maps an attempt to what the outbound
log sees of it.

**InboundRouter.** `chain[c]` holds batches as the promise chain does; `batch[b].pc`
walks through the awaits of `processBatch()`: the wait for a run in flight, the
destination, recovery of the pending slot, the ask, the upload ladder, the PA's
prompt, the dispatch. `epoch` is the in-memory membership epoch a batch compares
with; `bot[c]` has owner, thread, pause and pending slot; `posts[c]` is what
PromptQL accepted.

**UploadLadder.** `turn[b]` is a turn on its ladder: `rung` counts `tryFiles()`,
`next` is the file that is posted on its own (0 for all in one body), `heavy` whether
the files are over `MULTI_FILE_UPLOAD_BUDGET_BYTES` together, which staging and
re-encoding decide. `slot[c]` is `pending_post_encrypted`, `bots` the chats that have
a row to keep it in: `setPendingPost()` updates and never inserts. `told` counts the
posts with the turn's text the gateway knows accepted, `asked` those that asked for an
answer and were accepted, known or not, and `unsure` the turns in doubt.

**AlbumBurst.** Every message is a turn-to-be: a turn is known by the message that
opened its buffer. `current` is the await of `onMessagesUpsert()`, `burst` the
socket's own account of a chat (`openBursts`), `buffer` the router's, `held` the
messages whose bytes are in memory, `gone` what a crash took. `Step` composes the
front of a chain with a step of the ladder; the number of files is the number of
downloads that brought bytes.

**GroupMeta.** A roster is the number of the changes WhatsApp has seen; events carry
the number they were sent with and wait on `wire`. `look[l]` is a lookup between
`readOrFetch()` and its answer, with the version it remembers, the row it could serve
and the epoch of its message; `known` and `stay` are what the latest participant and
membership events told. Whether a row is within its lifetime is left open.

**AntiBanQueue.** `prev[s]` is the promise a send hangs on, `tail` the Map of
chains, `pending` the counter, `tokens` the bucket in units of 1/Period token,
`busy` where in the record `takes` the present bucket began (a drained connection
drops its bucket).

**Connection.** `live` is `LiveState`, `sockets` what Baileys still runs,
`opening` and `timers` the calls of `openSocket()` on their way, `creds`/`session`
the session in memory and in the database. No event is tied to a socket in the
code, so none is in the model. `hurried` remembers that a request came while an
earlier socket was still on its way.

**GroupHistory.** One group. `queue`/`work` are the inbound queue and the await its
head stands at, `wait` the join wait with the messages it holds, `store` the message
store, `chain`/`job` the router's chain with the replay on it. Self membership
events are not queued, neither in the code nor here.

**McpSessions.** `vault`/`issued` is the credential store, `cache` the adapter's
session per identity, `ready` the sessions with a handshake done, `call[t]` the post
under way with its age, `turn[t]` what the call serves. `ran` and `lost` are history
variables: what PromptQL carried out and which answers never came.

The specification is named `HistorySpec` (`FairHistorySpec` with fairness), as its
theorems share a proof module with those of `Connection`. Messages are numbered by
their time; `LiveMsgs` come live, `PastMsgs` in chunks. `job.rows` are the rows the
replay has read and not yet posted; they leave it oldest first (`IsNext`).

**ReplyShape.** One answer; `ReplySpec` is its specification, as its theorems share a
proof module with the dispatcher's. `turn` is the answer and its request, `outcome`
what each download became, `docs` the set of documents and `text` the message that were
sent. `Recover` is the guard's own await (listing and downloading stored files);
`Decision` is `ensureOutboundPdf()`.

## Runs

Type invariants are proved where they constrain something: `TypeCorrect` in
`OutboundLogProofs`, `AntiBanQueueProofs` and `ConnectionProofs`, `BurstTypesAlways` in
`AlbumProofs`, and in the other proof modules inside the inductive invariants, as far as
the arguments need them. No run is spent on them.

| Run | Question | Properties |
|---|---|---|
| `outbound_log` | May two senders answer one message, and can a late one spoil the row? | `RowTellsTheTruth`, `SendsAreStaleApart`, `ImplementsLease` |
| `dispatch` | Do claim, workflow and welcome agree with WhatsApp through ambiguous sends, redelivery and crashes? Does removal suppress replies wherever they are, and does every claim resolve? | `RecordsTellTheTruth`, `ImplementsOutboundLog`, `SendsOnlyWhereMember`, `ClaimsResolve` |
| `router` | Triggers, pause, recovery, claims, order and the chain, with two operators and a client in a group, and in a direct chat with crashes. | `OnlyTriggersAreAnswered`, `PausedIffRemoved`, `AcceptedInOrder`, `ClaimsAccounted`, `ChainsMove`, `RecoveredOnItsBot` |
| `album` | Do photos that arrive together stay one turn, keep their bytes, ask once and lose no text, and does everything come to its end? | `AlbumStaysWhole`, `BytesWithTheirAsk`, `AnsweredOnce`, `TextIsPostedOnce`, `RejectedIsKept`, `EverythingSettles` |
| `group_meta` | May a fetch bring back a roster that was superseded, or one of an earlier stay? | `CacheIsCurrent`, `AnswersAreCurrent`, `OwnerIsOfThisStay` |
| `queue_lanes` | Order, capacity, rate, isolation of accounts; do accepted sends settle? | `EldestRuns`, `PendingIsBacklog`, `RateWhileBusy`, `ImplementsLanes`, `AcceptedSettles` |
| `connection` | One socket at a time, resumption after closes and restarts. | `OneConnector`, `LinkedIsResumable`, `ComesBack` |
| `history` | Past before present, once, in order; nothing waits for ever. | `PostedOnce`, `HistoryFirst`, `OldestFirstPosted`, `WaitIsBounded`, `CapturedHasItsTurn` |
| `mcp_turns` | Accounts, repeats, rotation, end of every turn. | `AttributedToItsAccount`, `RepeatsFollowLosses`, `TurnsEnd` |
| `reply` | Promised documents and wrong invoices. | `PresentedIsDelivered`, `NoInvoiceForALookbook` |
| `history_queued` | refuted: a message queued before a membership change is not delivered | `QueuedIsNotDelivered` |
| `reply_fetched` | refuted: what a tag refers to and was fetched is delivered | `FetchedIsDelivered` |

### Bounds

* Outbound log: three attempts at one message and one at another, stale period 1,
  clock to 4. Three attempts are needed for an overtaken holder to be overtaken
  again, four ticks for two stale periods.
* Dispatcher: two attempts in one behaviour, out of five: two deliveries of one direct
  message (the claim), two direct messages of one operator (welcome and preparing
  line), two messages of a group with removals at every step. A third attempt at one
  key is in `outbound_log`, which the dispatcher implements. The stale period, the
  response wait and the clock are the smallest at which a wait outlives a claim (180 s
  against 120 s in the code); one further document.
* Router: a behaviour is either the group's (two messages of an operator, one with an
  image, one of a client who tags the bot, a second operator, one retry of an upload,
  two membership changes) or the direct chat's (a greeting, a text, its redelivery and
  the linked phone's own message, with crashes). The two chats share nothing but
  registrations, so running them together adds nothing to these properties.
* Albums: the three messages of one scene arrive: two photos of a direct chat and their
  caption; two photos and another chat's photo, which stands before, between or behind;
  a photo and a text of one sender of a group with another sender's text. So a photo
  joins, outlasts or follows the window of another, and two parties share a chain. The
  text window is one tick and the photo window two, which keeps their order apart;
  crashes at every step.
* Group metadata: three rosters, three events on the wire, a lookup of the router and
  two fetches of events, one restart: a removal and a re-add fit into one lookup, and
  a change before and after them does too.
* Queue: backlog of two and four sends, so that shedding happens with a busy and a
  dead account; bucket of one token and two ticks per token, so that it runs dry. The
  record of takes ends at tick 2; the queue itself goes on.
* Connection: two numbers, two requests, one reboot, three sockets; two rejections
  and three link attempts stand for the code's counters (`MAX_LOGGEDOUT_RETRIES`,
  `MAX_LINK_ATTEMPTS`); an extra slot lets a closed socket's late event meet its
  successor.
* History: a past message, one that comes both ways and an echo of the gateway; two
  chunks, one item waiting on the queue besides the one at work; three epochs (join,
  removal, re-join).
* MCP: both roles of a shopper, one retry, timeout and response wait of one tick,
  a token rotated once, two downloads.
* Reply: all sets of up to three of the ten kinds of lines, the empty set and the
  envelope; up to two artifacts of five; every outcome of every download.

`CHECK_DEADLOCK FALSE` stands where a system of bounded work stops when the work is
done; `mcp_turns` is checked for deadlock. The liveness properties exclude a job that
stands still.

### Fairness

The event loop runs what is ready and timers fire, which gives weak fairness to the
steps of the process itself and to the clock (`Progress` of `Dispatcher`, `Take`,
`WaitEnds`, `Flush`, `Step` and `Tick` of `AlbumBurst`, and their like). Requests end because the code bounds
them: `McpSessions` shows with `TurnsEnd` that a turn ends whatever is lost, and
`Dispatcher` and `InboundRouter` use that as the fairness of their asks and waits.
Three things are trusted that no code assures: PromptQL finishes an answer it has
begun to send (no timer runs over a body), Baileys' `sendMessage()` answers or throws,
and a download it has begun ends (`AlbumBurst`; a hung one stops the inbound queue of
every chat). `AntiBanQueue` assumes the latter for one account only and leaves a second one
hanging. `Connection` assumes that a socket told to close reports it. Nothing is
assumed of people, arrivals, removals, rotations or crashes.

## Findings

* `history_queued`: an upsert copies the epochs it is judged by when its turn on the
  inbound queue comes (`socket.ts:390`), not when it arrives, so a message that waits
  behind a download while the account is removed is delivered under the new epoch;
  `tests/groupSocket.test.ts:102` states the opposite.
* `reply_fetched`: an answer of an image tag and nothing visible but a permalink is a
  "bare permalink" for the PDF guard, which replaces the fetched image by a stored
  PDF or by "Preparing the document" (`outboundDispatcher.ts:278`);
  `README.md:72-75` says that referenced artifacts are delivered together with the
  text.

## Divergences noted

Seen while modelling; the models show the code's behaviour, no property claims
the opposite, and no run is spent on them.

* `outboundLog.ts:4` speaks of preventing a double send; a sender that is alive
  after the stale period of two minutes loses its claim, and both send.
  `SendsAreStaleApart` is the bound that does hold.
* Two messages of one operator can both carry the welcome, as the record is written
  when the first is delivered and read when the second is claimed.
* A workflow row of a process that died stays "submitted" for ever.
* A batch whose claims are partly refused posts the whole text again.
* A batch whose group is left during the in-flight wait, the transcription or the
  upload retries still asks PromptQL; only the reply is suppressed.
* A greeting on its first contact is answered by the gateway although the ask asked
  PromptQL for silence (`README.md:144`).
* A drained connection loses its bucket and starts with a full one: two bursts may
  follow each other (`RateWhileBusy` is stated between drains).
* `link()` while a socket is on its way, and `unlink()` while `openSocket()` awaits
  the web version, lead to two sockets or to a connection that comes back; the
  properties of `Connection` are stated for requests that come at rest.
* `number_e164` is not updated when a second number is linked; `pairingRequested` is
  not reset by a failed request for a code.
* `submitFilesOneByOne()` empties the pending slot after every accepted context file,
  the text of an earlier attempt included, though the text is posted with the last file
  only (`inboundRouter.ts:459`). A rejection writes it again (`RejectedIsKept`); a crash
  before the last post loses it, and a lost answer to it leaves it in doubt,
  `README.md:69-70` notwithstanding.
* On the first turn of a chat there is no row to keep a text in until PromptQL has
  returned a handle: `setPendingPost()` at `inboundRouter.ts:455` updates nothing, and
  the text is not kept when the answer about a context file is lost.
* A batch whose chat's pending post cannot be recovered is failed, and its own text is
  not kept.
* The files that preceded a failed one are posted again on each rung: a context photo
  may stand up to three times in the thread.
* `docs/deployment.md:121` promises one turn per album. The hold covers a download
  under way; when a message of another chat stands between two photos on the one
  inbound queue, its download or its wait may outlast the window, and the album is two
  turns. In a group another sender's message may take the place of the burst
  (`openBursts` knows a chat, the buffer a sender), so the next photo waits for nobody
  and holds nothing. `AlbumStaysWhole` is therefore stated for downloads that hold, and
  for all downloads of a party that is alone in its chat (`Sole`).
* A buffer of texts flushes at the text window, while the socket takes the burst for
  open until the photo window has passed; a photo that comes between the two begins a
  turn of its own.
* A participant event during a lookup's fetch makes the lookup answer null, and the batch
  that asked is dropped without a claim, where a fetch that fails serves the older row
  (`groupMeta.ts:167`).
* `applyPartialUpdate()` refreshes `updated_at`, so a new subject extends the lifetime of
  the participants; `raw_metadata` keeps the old subject.
* `groups.upsert` does not invalidate the cached roster, so a row can survive a removal
  whose event was lost over a restart (`OwnerIsOfThisStay` excepts it).
* The last poll may run for its retries past `PROMPTQL_RESPONSE_MAX_MS`
  (`docs/deployment.md:130` calls it a ceiling).
* `mcpClient.ts:215` reads a body with no timer, though `:17` and
  `docs/deployment.md:128` speak of a timeout of the request.
* Two calls that meet an expired handshake both make a new one; the token is the
  session, so the later one wins and nothing is lost.
* The fixed caption of an invoice drops the note on a failed attachment.
* A file that is labelled `application/pdf` and is not one goes out as a broken
  document when the answer makes no claim.
* In invoice mode any stored PDF of the thread may answer an invoice claim, a
  lookbook or an older deal's included, with the caption "Here is the commercial
  invoice."
* A mention of a lookbook with a "Teach SEPT" footer counts as a claim and becomes
  the preparing line.

## Proofs

All proofs are checked by TLAPS to the last leaf. Assumptions are those on the
constants (`...Assumption` in the modules), which TLC evaluates in the runs.

* `OutboundLogProofs`: `IInvHolds` proves an inductive invariant: types, that a row
  carries the token of a claimant of that very key and, while pending, the time of its
  claim (`RowBelongs`), that no claim lies in the future, and that a claimant that was
  overtaken had failed or was stale when it happened (`OvertakenWasStale`,
  `ClaimsAreSpaced`). None of these is visible in `SendsAreStaleApart`, which is not
  inductive by itself: an attempt may deliver long after it was overtaken. From it
  follow `TypeCorrect`, `RowsTellTheTruth`, `DoubleSendsAreStale`, `SentStaysSent` and
  the refinement `LogImplementsLease`.
* `DispatcherProofs`: `DispatcherImplementsLog` maps every step of the dispatcher to a
  step of the log or a stutter; `DispatcherSendsAreStaleApart` inherits the bound on
  double sends through it; `RemovalStopsRelay` proves `SendsOnlyWhereMember` from
  `PauseInv`: every bot of a chat agrees with the membership row, and whoever has
  been handed over has a bot.
  `RecordsAreTrue` proves `RecordsTellTheTruth` from `TruthInv`, which says what the
  workflow row is at every await: it is "done" before the send and not written again
  once WhatsApp may have the message, so nothing that follows can contradict WhatsApp.
  `PresentedAlwaysDelivered` and `NoInvoiceForALookbookAlways` hold of `ReplyShape` by
  `ReplyInv`: nothing is sent before the last step, what reaches the guard is no envelope,
  and while the guard looks for a stored document its reason (`Guarded`) still stands.
* `AntiBanQueueProofs`: `EldestAlwaysRuns` from `ChainInv` (every younger unsettled
  send of a lane hangs on an unsettled one that is no older than the eldest, and the
  tail is the youngest); `BacklogIsCounted` from the cardinality of the unsettled;
  `BusyRateIsCapped` from `RateInv` (tokens taken since any take, with those in the
  bucket, are at most a burst and the time gone by); `TypeCorrect` from the three.
  `QueueImplementsLanes` maps each step to one of `SendLanes` or to a stutter. The lane of
  a chat is the sequence of its unsettled sends by ticket (`Ascending`); that a new send
  is appended, and that the eldest is the head and leaves the tail, are lemmas about the
  ordering of any finite set by distinct ranks (`AscendingLast`, `AscendingFirst`), proved
  by counting (`AscendingPlaces`) where an induction is out of reach. `ChainInv` says that
  the send that begins is the eldest, `PendingIsBacklog` that one is turned away when the
  lanes of its connection are full and only then.
* `AlbumProofs`: `LadderInvariant` for any turns, chats, files and crashes. The three
  properties of a turn are not inductive: that a text is not posted twice needs to know
  that what waits in a slot belongs to that chat, has tried its files and has nothing
  accepted (`SlotIsOurs`), that one turn of a chat is under way (`Exclusive`), and
  that only a turn at its end has anything accepted (`Counted`). Every action of a turn
  at its posts is an instance of `Leaves`, for which `OwnStep` is proved once.
  `BurstsClimbTheLadder` shows that `AlbumBurst` implements `LadderSpec`, so
  `AnsweredOnceAlways`, `TextIsPostedOnceAlways` and `RejectedIsKeptAlways` hold of
  albums of any size.
  What the buffers do is in `AlbumInv`: a message is on the inbound queue, in one buffer
  or in one turn (`InboundOK`, `BufferOK`, `ItemsOK`), a turn under way has the bytes it
  began with (`BytesOK`), and a download that holds its party's buffer leaves it time,
  while one that holds nothing meets no open buffer if the party is alone in its chat
  (`WindowsOK`). From it follow `BytesAlwaysWithTheirAsk` and `AlbumsStayWhole`; the first
  is inductive only because no two turns share a message, so that dropping the bytes of
  one takes none from another.
* `GroupMetaProofs`: `CacheIsCurrentAlways` and `AnswersAreCurrentAlways`, from the
  fence: a lookup whose version is still the present one was told, or will be told, a
  roster no older than the latest event (`FenceHolds`), and a row it could fall back to
  was current when it began (`CarriesCurrent`). No bound of the run is used.
  `OwnersAreOfThisStay` needs more (`StayInv`): events on the wire come removal by add in
  turn (`WireOK`), so an add that is handled next begins a stay in which all that may be
  served lies (`AddNext`), outside the group nothing may be served (`Outside`), and a
  lookup whose epoch still counts carries a row of the present stay (`OfThisStay`); the
  last three where no event was lost over a restart, as the property says.
* `McpProofs`: `AsksAreAttributed` and `RepeatsOnlyAfterLosses` from one invariant
  (`SessionInvariant`): a cached session and the token of a call belong to the identity
  that posts (`OwnSessions`), a turn is inside a call exactly when it has one
  (`CallsOfTurns`), and whatever ran under an account was lost or is being answered by
  the call in hand (`Counted`). The last is what makes the count of repeats inductive.
  It needs that no token is the absence of one (`NoTokenAssumption`).
* `ConnectionProofs`: `OneConnectorAlways` and `LinkedIsAlwaysResumable`, with the types
  (`TypeCorrect`). Neither is inductive: that a close adds no second timer needs to know
  that a socket that was told to close belongs to a stopped connection
  (`ClosingIsStopped`), that a stopped connection opens nothing (`StoppedIsQuiet`), and
  that the live socket is the current one with the current credentials (`Single`); the
  session in the database is then the one in use (`Stored`). Both hold while requests
  come at rest, as the properties say.
  The same module proves `PostedOnceAlways`, `HistoryFirstAlways` and `OldestFirstAlways`
  of `GroupHistory`, from `HistoryInv`: socket and router count the same stays, and a
  wait is of the present one (`StayShape`); a live message is in one place (in hand, in
  the buffer, on the chain, posted), and there once (`PlaceInv`); a row is marked
  relayed when it was posted (`MarkInv`); one replay runs at a time, the queue waits for
  it, and its rows are unmarked (`ReplayInv`); the replays are told apart by the posts
  before them, and the rows a replay still has are newer than what it posted (`SortInv`);
  and a replay the present stay waits for has yet to read the store, or has among its
  rows, or has given up, all that is not relayed (`AwaitedTurn`). The last is what lets
  the held messages go only when the past is behind them.
* `RouterProofs`: `PauseFollowsMembership`: `PausedIffRemoved` is inductive once rows
  are rows (`BotsTyped`); the work lies in the posts, which write a row long after they
  were begun: each reads the membership row again when it writes. `ClaimsAreAccounted`
  and `OnlyTriggersAlways` from `ClaimInv`: a pending row carries a claim of its own
  message for which some batch answers (`Answers`), a batch that has not reached its
  claim loop has no claims, what waits in a buffer has begun no batch (so a flush
  overwrites nothing), and the mode a batch computed once is owed to one of its messages
  ever after.
  `ChainsAlwaysMove` from `ChainInv`: a chain holds each batch at work once, and only its
  head has begun. `RecoveryBeforeSwitch` proves `RecoveredOnItsBot` from `SlotInv`: what
  waits in a slot was meant for a bot with a thread, a batch that is past its recovery
  has found the slot empty, and only a batch that is asking can be the one in the slot,
  and then no longer calls for another bot. `SubmissionsInOrder` proves `AcceptedInOrder` from `OrderInv`: the places
  a text can be in are ordered one by one and against each other: arrivals, the buffer of
  a party behind what it has flushed, the chain of a chat, the slot before the chain, and
  the accepted posts before both.

Every invariant, action property and refinement of the passing runs is proved. Only
model-checked is liveness (`ClaimsResolve`, `AcceptedSettles`, `ComesBack`,
`WaitIsBounded`, `CapturedHasItsTurn`, `TurnsEnd`, `EverythingSettles`), which needs
fairness and ENABLED; and the two refuted claims are shown by TLC's counterexamples.

## Plan

In this order; what stands above is done.

1. Done: `ClaimTable`/`OutboundLog`/`ReplyLease` (what every reply rests on), then
   `Dispatcher`, `InboundRouter`, `AntiBanQueue`/`SendLanes`, `Connection`,
   `GroupHistory`, `McpSessions`, `ReplyShape`; the proofs of the first four.
2. Done: `GroupMeta` with its proofs; `UploadLadder` and `AlbumBurst` with theirs.
3. Done: theorems of all safety properties the runs check, the order of posts
   included, and the refinements `LogImplementsLease`, `DispatcherImplementsLog`,
   `BurstsClimbTheLadder` and `QueueImplementsLanes`.
4. `InboundRouter` over an abstract chat (one post order, one owner), shown to
   implement it; `notifyChat()`.

## Hazards seen and not pursued

Besides the list in `PROJECT.json`: `unlink()` wipes the session and writes the row in
two statements outside a transaction (`socket.ts:326`); a recovery that fails ends the
live batch before it has claimed anything (`inboundRouter.ts:508`); a preparing line is
recorded before it is sent, so one that fails suppresses the next for two minutes
(`outboundDispatcher.ts:331`); `isWelcomeSent()` is read at claim time, so two batches
of a new operator may both carry the welcome (`inboundRouter.ts:601`); PromptQL accepts
an ask and the process dies before `remember()`, so the chat gets a second thread
(`inboundRouter.ts:484`, documented at `README.md:145-146`). The first lies within one
step of the model, the others concern what no text of the repository promises.

## Not modelled

The ephemeral media bridge: `put()` has no caller in the program, the upload ladder
posts bytes and no token ever exists. Voice transcription, the admin API's decoding and
authentication: one request each, no state between two steps. Formatting, masking,
configuration, migrations and encryption. Formats and pixels of media files, of which
`UploadLadder` keeps whether they fit into one body. The provider through which Baileys
reads the cached roster while it sends. `modules/integrity` is not called by the
gateway. The content of prompts (`craft/orgCraft.ts`) matters only through what
`operatorRequestsInvoice()` finds, an input of `ReplyShape`.
