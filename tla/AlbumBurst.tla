------------------------------- MODULE AlbumBurst -------------------------------
(***************************************************************************)
(* How photos that arrive together become one turn: the inbound queue of   *)
(* whatsapp/socket.ts, which downloads one attachment at a time, the       *)
(* buffers of routing/inboundRouter.ts, which collect what one party sends *)
(* until it has been quiet, and the chain of each chat, whose turns climb  *)
(* the ladder of UploadLadder.                                             *)
(*                                                                         *)
(* Time passes in ticks of half the photo window, the longest period of    *)
(* the tick that holds a buffer open.  A timer that is due fires before    *)
(* the next tick; what else may happen at that instant may come first.     *)
(* Windows are kept as the ticks that are left of them.                    *)
(*                                                                         *)
(* A turn is known by its first message.  Which messages are parsed, who   *)
(* may ask, and the claims are in InboundRouter and GroupHistory.          *)
(***************************************************************************)
EXTENDS UploadLadder, Sequences, FiniteSets

CONSTANTS
  Parties,     \* a direct chat, or a sender in a group
  PartyOf,     \* PartyOf[m]: the party whose buffer message m joins
  Photos,      \* the messages with a photo
  TextQuiet,   \* WHATSAPP_INBOUND_DEBOUNCE_MS, in ticks
  PhotoQuiet,  \* WHATSAPP_MEDIA_BURST_MS, in ticks
  Crashes      \* TRUE when the process may die and restart

Msgs == Turns

ASSUME PartyOfAssumption == PartyOf \in [Msgs -> Parties]
ASSUME PartyChatAssumption ==
  \A m, n \in Msgs : PartyOf[m] = PartyOf[n] => ChatOf[m] = ChatOf[n]
ASSUME PhotosAssumption == Photos \subseteq Msgs
ASSUME QuietAssumption ==
  TextQuiet \in Nat \ {0} /\ PhotoQuiet \in Nat /\ PhotoQuiet >= TextQuiet
ASSUME FilesAssumption == IsFiniteSet(Photos) /\ Cardinality(Photos) <= MaxFiles

VARIABLES
  inbound,  \* messages the inbound queue has not begun
  current,  \* the message it works at: waiting for a turn, or downloading
  burst,    \* burst[c]: the latest handoff of the chat and its window
  buffer,   \* buffer[p]: the open buffer of a party and its window
  chain,    \* chain[c]: the turns of the chat that are not over
  items,    \* items[b]: the messages of turn b
  held,     \* the messages whose bytes are in memory
  arrived,
  gone      \* messages the death of the process has taken

socketVars == <<inbound, current, burst>>
routerVars == <<buffer, chain, items>>
vars == <<ladderVars, socketVars, routerVars, held, arrived, gone>>

Idle == [msg |-> None, at |-> "idle", hold |-> FALSE]
NoBurst == [last |-> None, left |-> 0]
NoBuffer == [first |-> None, items |-> {}, left |-> 0]

BurstTypeOK ==
  /\ TypeOK
  /\ inbound \in Seq(Msgs)
  /\ current \in [msg : Msgs \cup {None}, at : {"idle", "waiting", "downloading"},
                  hold : BOOLEAN]
  /\ burst \in [Chats -> [last : Msgs \cup {None}, left : 0..PhotoQuiet]]
  /\ buffer \in [Parties -> [first : Msgs \cup {None}, items : SUBSET Msgs,
                            left : 0..PhotoQuiet]]
  /\ chain \in [Chats -> Seq(Turns)]
  /\ items \in [Turns -> SUBSET Msgs]
  /\ held \subseteq Photos
  /\ arrived \subseteq Msgs /\ gone \subseteq arrived

Init ==
  /\ LadderInit
  /\ inbound = <<>>
  /\ current = Idle
  /\ burst = [c \in Chats |-> NoBurst]
  /\ buffer = [p \in Parties |-> NoBuffer]
  /\ chain = [c \in Chats |-> <<>>]
  /\ items = [b \in Turns |-> {}]
  /\ held = {}
  /\ arrived = {}
  /\ gone = {}

-------------------------------------------------------------------------------
(***************************************************************************)
(* The socket                                                              *)
(***************************************************************************)

Open(p) == buffer[p].first # None

\* touchBurst(): an open buffer waits a whole photo window again.
Touched(p) == IF Open(p) THEN [buffer EXCEPT ![p].left = PhotoQuiet] ELSE buffer

\* holdOpenBurst(): so does the socket's own account of the chat.
TouchedBurst(p, c) == IF Open(p) THEN [burst EXCEPT ![c].left = PhotoQuiet] ELSE burst

\* WhatsApp delivers a message.
Arrive(m) ==
  /\ m \notin arrived
  /\ arrived' = arrived \cup {m}
  /\ inbound' = Append(inbound, m)
  /\ UNCHANGED <<ladderVars, current, burst, routerVars, held, gone>>

\* waitIfChatBurstClosed(): something was handed over and its window has passed.
BurstClosed(c) == burst[c].last # None /\ burst[c].left = 0

\* The promise of the handoff: the turn that took the message is over.
Settled(m) ==
  \E b \in Turns : m \in items[b] /\ turn[b].at \in {"over", "dead"}

\* onMessagesUpsert(): the next message.  It waits out the last turn of a chat whose
\* window has passed; otherwise its download begins, and holds its buffer open.
Take ==
  /\ current = Idle /\ inbound # <<>>
  /\ inbound' = Tail(inbound)
  /\ LET m == Head(inbound)
         c == ChatOf[m]
     IN IF BurstClosed(c)
        THEN /\ current' = [msg |-> m, at |-> "waiting", hold |-> FALSE]
             /\ UNCHANGED <<burst, buffer>>
        ELSE /\ current' = [msg |-> m, at |-> "downloading", hold |-> TRUE]
             /\ burst' = TouchedBurst(PartyOf[m], c)
             /\ buffer' = Touched(PartyOf[m])
  /\ UNCHANGED <<ladderVars, chain, items, held, arrived, gone>>

\* Mutant of WaitEnds: a turn that fails rejects the handoff, and the message that
\* waits for it is dropped.
WaitThrows ==
  /\ current.at = "waiting"
  /\ Settled(burst[ChatOf[current.msg]].last)
  /\ current' = IF \E b \in Turns : burst[ChatOf[current.msg]].last \in items[b] /\ told[b] > 0
                THEN [current EXCEPT !.at = "downloading"] ELSE Idle
  /\ UNCHANGED <<ladderVars, inbound, burst, routerVars, held, arrived, gone>>

\* The wait is over; this download holds nothing.
WaitEnds ==
  /\ current.at = "waiting"
  /\ Settled(burst[ChatOf[current.msg]].last)
  /\ current' = [current EXCEPT !.at = "downloading"]
  /\ UNCHANGED <<ladderVars, inbound, burst, routerVars, held, arrived, gone>>

\* burstQuietMs() of the router: a photo, here or in the buffer, lengthens it.
Quiet(messages) == IF messages \cap Photos # {} THEN PhotoQuiet ELSE TextQuiet

\* The bytes of a photo, if its download succeeds, are kept until its turn is over.
Held(m) == IF m \in Photos THEN held \cup {m} ELSE held

\* The download ends: handle() puts the message into its party's buffer.
Downloaded ==
  /\ current.at = "downloading"
  /\ LET m == current.msg
         p == PartyOf[m]
         together == buffer[p].items \cup {m}
     IN /\ buffer' = [buffer EXCEPT ![p] =
             [first |-> IF Open(p) THEN @.first ELSE m,
              items |-> together, left |-> Quiet(together)]]
        /\ burst' = [burst EXCEPT ![ChatOf[m]] = [last |-> m, left |-> PhotoQuiet]]
        /\ held' \in {held, Held(m)}
  /\ current' = Idle
  /\ UNCHANGED <<ladderVars, inbound, chain, items, arrived, gone>>

-------------------------------------------------------------------------------
(***************************************************************************)
(* The router                                                              *)
(***************************************************************************)

\* flushBuffer(): the window has passed.
Flush(p) ==
  /\ Open(p) /\ buffer[p].left = 0
  /\ LET b == buffer[p].first IN
       /\ items' = [items EXCEPT ![b] = buffer[p].items]
       /\ chain' = [chain EXCEPT ![ChatOf[b]] = Append(@, b)]
  /\ buffer' = [buffer EXCEPT ![p] = NoBuffer]
  /\ UNCHANGED <<ladderVars, socketVars, held, arrived, gone>>

AtFront(b) == chain[ChatOf[b]] # <<>> /\ Head(chain[ChatOf[b]]) = b

\* Mutant of AfterStep: the bytes are let go when the first rung has failed.
AfterStepEager(b) ==
  /\ held' = IF turn'[b].at = "over" \/ (turn'[b].at = "ready" /\ turn'[b].rung = 1)
             THEN held \ items[b] ELSE held
  /\ chain' = IF turn'[b].at = "over"
              THEN [chain EXCEPT ![ChatOf[b]] = Tail(@)] ELSE chain

\* A turn that is over lets go of the bytes and leaves its chain.
AfterStep(b) ==
  /\ held' = IF turn'[b].at = "over" THEN held \ items[b] ELSE held
  /\ chain' = IF turn'[b].at = "over"
              THEN [chain EXCEPT ![ChatOf[b]] = Tail(@)] ELSE chain

\* A step of the turn at the front of its chain: it ends early, posts the photos
\* whose bytes it has, or climbs the ladder.
Step(b) ==
  /\ AtFront(b)
  /\ Dropped(b) \/ Begin(b, Cardinality(items[b] \cap held)) \/ Climb(b)
  /\ AfterStep(b)
  /\ UNCHANGED <<socketVars, buffer, items, arrived, gone>>

-------------------------------------------------------------------------------
(***************************************************************************)
(* Around them                                                             *)
(***************************************************************************)

Less(n) == IF n = 0 THEN 0 ELSE n - 1

\* The party and the chat whose windows a download holds open.
HeldParty == IF current.hold THEN {PartyOf[current.msg]} ELSE {}

\* Mutant of Tick: the hold is one touch, and not repeated.
TickUnheld ==
  /\ \A p \in Parties : Open(p) => buffer[p].left > 0
  /\ buffer' = [p \in Parties |-> [buffer[p] EXCEPT !.left = Less(@)]]
  /\ burst' = [c \in Chats |-> [burst[c] EXCEPT !.left = Less(@)]]
  /\ UNCHANGED <<ladderVars, inbound, current, chain, items, held, arrived, gone>>

\* Time passes.  While a download lasts, its windows begin anew.
Tick ==
  /\ \A p \in Parties : Open(p) => buffer[p].left > 0
  /\ buffer' = [p \in Parties |->
       IF p \in HeldParty THEN Touched(p)[p] ELSE [buffer[p] EXCEPT !.left = Less(@)]]
  /\ burst' = [c \in Chats |->
       IF \E p \in HeldParty : Open(p) /\ ChatOf[current.msg] = c
       THEN [burst[c] EXCEPT !.left = PhotoQuiet]
       ELSE [burst[c] EXCEPT !.left = Less(@)]]
  /\ UNCHANGED <<ladderVars, inbound, current, chain, items, held, arrived, gone>>

\* The process dies with everything it has in memory.
Crash ==
  /\ Crashes
  /\ Die
  /\ inbound' = <<>>
  /\ current' = Idle
  /\ burst' = [c \in Chats |-> NoBurst]
  /\ buffer' = [p \in Parties |-> NoBuffer]
  /\ chain' = [c \in Chats |-> <<>>]
  /\ items' = items
  /\ held' = {}
  /\ gone' = {m \in arrived : ~Settled(m)}
  /\ arrived' = arrived

Next ==
  \/ \E m \in Msgs : Arrive(m)
  \/ Take \/ WaitEnds \/ Downloaded
  \/ \E p \in Parties : Flush(p)
  \/ \E b \in Turns : Step(b)
  \/ Tick
  \/ Crash

Spec == Init /\ [][Next]_vars

\* Timers fire, posts are answered or fail as module McpSessions says, and downloads
\* end, for which WhatsApp's library is trusted: media.ts gives them no time limit.
Fairness ==
  /\ WF_vars(Take) /\ WF_vars(WaitEnds) /\ WF_vars(Downloaded)
  /\ WF_vars(Tick) /\ \A p \in Parties : WF_vars(Flush(p))
  /\ \A b \in Turns : WF_vars(Step(b))

FairSpec == Spec /\ Fairness

-------------------------------------------------------------------------------
(***************************************************************************)
(* Properties                                                              *)
(***************************************************************************)

\* Nobody else writes in the chat of party p.
Sole(p) == \A m, n \in Msgs : PartyOf[m] = p /\ ChatOf[n] = ChatOf[m] => PartyOf[n] = p

\* A buffer is never flushed while a photo of the same party is being downloaded:
\* "A CDN fetch slower than the quiet window must not flush the previous image as
\* its own triggering ask" (inboundRouter.ts:197).  A download that has waited for a
\* turn holds nothing.  Where others write too it may have been their turn, over at
\* the very instant at which the window of the party ends.
AlbumStaysWhole ==
  [][\A p \in Parties :
       /\ current.at = "downloading" /\ PartyOf[current.msg] = p
       /\ current.hold \/ Sole(p)
       /\ Open(p) /\ ~Open(p)'
       => gone' # gone]_vars

\* A turn has the bytes of its photos until it has posted them, retries included,
\* and no bytes outlive their turn ("Own the bytes until the router finishes the
\* burst", socket.ts:814).
BytesWithTheirAsk ==
  /\ \A b \in Turns :
       turn[b].at \in {"ready", "posting"} =>
         Cardinality(items[b] \cap held) = turn[b].size
  /\ \A m \in held : ~Settled(m)

\* Every message comes to the end of a turn, or is lost with the process: the inbound
\* queue, which one chat can block for all, the windows and the chains never wait
\* for each other for ever.
EverythingSettles == \A m \in Msgs : m \in arrived ~> Settled(m) \/ m \in gone

===============================================================================
