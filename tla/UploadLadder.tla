------------------------------ MODULE UploadLadder ------------------------------
(***************************************************************************)
(* How one turn with photos reaches PromptQL: submitMediaAsk(),            *)
(* submitTurn(), submitFilesOneByOne(), submit() and retryPending() of     *)
(* routing/inboundRouter.ts.                                               *)
(*                                                                         *)
(* A turn climbs a ladder of three rungs: its files as staged, the same    *)
(* again after a pause, and re-encoded smaller.  On a rung the files go in *)
(* one body, or one by one: the first ones as context, the last one with   *)
(* the text and the request for an answer.  A rejected text waits in the   *)
(* chat's pending slot and is posted, without files, by the next turn.     *)
(*                                                                         *)
(* Every turn here asks for an answer.  The size of files is one bit: too  *)
(* heavy for one body, or not.  A turn is "ready" between two posts.       *)
(***************************************************************************)
EXTENDS Naturals

CONSTANTS
  Turns,
  Chats,
  ChatOf,    \* ChatOf[b]: the chat of turn b
  MaxFiles,  \* bound on the files of a turn
  None       \* an empty slot

ASSUME ChatOfAssumption == ChatOf \in [Turns -> Chats]
ASSUME MaxFilesAssumption == MaxFiles \in Nat
ASSUME NoneAssumption == None \notin Turns

VARIABLES
  turn,    \* turn[b]: where turn b stands
  slot,    \* slot[c]: the turn whose text waits in pending_post of chat c
  bots,    \* the chats with a chat_bot row, which holds the slot
  told,    \* told[b]: posts with b's text the gateway knows accepted
  asked,   \* asked[b]: accepted posts of b that ask for an answer, known or not
  unsure   \* turns that ended with an answer that never came: about their text,
           \* or in a chat that has no row yet to keep it in

ladderVars == <<turn, slot, bots, told, asked, unsure>>

Rungs == 1..3

\* next is 0 for all files in one body, and i for the i-th file on its own; heavy
\* files are over MULTI_FILE_UPLOAD_BUDGET_BYTES together.
NoTurn == [at |-> "none", rung |-> 0, next |-> 0, size |-> 0, heavy |-> FALSE]

Turn == [at : {"none", "recovering", "ready", "posting", "over", "dead"},
         rung : {0} \cup Rungs, next : 0..MaxFiles, size : 0..MaxFiles,
         heavy : BOOLEAN]

TypeOK ==
  /\ turn \in [Turns -> Turn]
  /\ slot \in [Chats -> Turns \cup {None}]
  /\ bots \subseteq Chats
  /\ told \in [Turns -> Nat]
  /\ asked \in [Turns -> Nat]
  /\ unsure \subseteq Turns

LadderInit ==
  /\ turn = [b \in Turns |-> NoTurn]
  /\ slot = [c \in Chats |-> None]
  /\ bots = {}
  /\ told = [b \in Turns |-> 0]
  /\ asked = [b \in Turns |-> 0]
  /\ unsure = {}

-------------------------------------------------------------------------------
(***************************************************************************)
(* Pieces of the handlers                                                  *)
(***************************************************************************)

At(b, place) == turn[b].at = place
Underway(b) == turn[b].at \in {"recovering", "posting", "ready"}

Slot(b) == slot[ChatOf[b]]
SetSlot(b, x) == slot' = [slot EXCEPT ![ChatOf[b]] = x]

\* remember(): an answer with a handle gives the chat its row.
Remembered(b) == bots' = bots \cup {ChatOf[b]}

Over(b) == turn' = [turn EXCEPT ![b].at = "over"]

\* The post under way is the one with the text and the request for an answer.
WithText(b) == turn[b].next \in {0, turn[b].size}

\* A post under way is accepted although the gateway never hears of it.
AcceptedUnheard(b) ==
  asked' \in {asked, [asked EXCEPT ![b] = IF WithText(b) THEN @ + 1 ELSE @]}

\* stagePromptQlFiles(): images are re-encoded to fit into one body together, but one
\* that cannot be decoded keeps its size.
Staged(n) == {heavy \in BOOLEAN : heavy => n > 1}

\* recompressForBridge(): files that are smaller, or the same ones.
Smaller(heavy) == {heavy, FALSE}

-------------------------------------------------------------------------------
(***************************************************************************)
(* The pending post                                                        *)
(***************************************************************************)

\* processBatch() with n files: what waits in the slot comes first.
Begin(b, n) ==
  /\ At(b, "none")
  /\ \A other \in Turns : ChatOf[other] = ChatOf[b] => ~Underway(other)
  /\ \E heavy \in Staged(n) :
       turn' = [turn EXCEPT ![b] =
         [at |-> IF Slot(b) = None THEN "ready" ELSE "recovering",
          rung |-> 0, next |-> 0, size |-> n, heavy |-> heavy]]
  /\ UNCHANGED <<slot, bots, told, asked, unsure>>

\* The batch ends before it posts its files: no destination, nothing to claim, or
\* the group was left.
Dropped(b) ==
  /\ turn[b].at \in {"none", "ready"} /\ turn[b].rung = 0
  /\ Over(b)
  /\ UNCHANGED <<slot, bots, told, asked, unsure>>

\* Mutant of Recovered: the slot is not emptied.
RecoveredAndKept(b) ==
  /\ At(b, "recovering")
  /\ told' = [told EXCEPT ![Slot(b)] = @ + 1]
  /\ turn' = [turn EXCEPT ![b].at = "ready"]
  /\ UNCHANGED <<slot, bots, asked, unsure>>

\* retryPending(): the waiting text is accepted, as context.
Recovered(b) ==
  /\ At(b, "recovering")
  /\ told' = [told EXCEPT ![Slot(b)] = @ + 1]
  /\ SetSlot(b, None)
  /\ turn' = [turn EXCEPT ![b].at = "ready"]
  /\ UNCHANGED <<bots, asked, unsure>>

\* It is rejected, and kept; the turn fails with it.
NotRecovered(b) ==
  /\ At(b, "recovering")
  /\ Over(b)
  /\ UNCHANGED <<slot, bots, told, asked, unsure>>

\* Its answer is lost.
RecoveryLost(b) ==
  /\ At(b, "recovering")
  /\ unsure' = unsure \cup {Slot(b)}
  /\ Over(b)
  /\ UNCHANGED <<slot, bots, told, asked>>

-------------------------------------------------------------------------------
(***************************************************************************)
(* The rungs                                                               *)
(***************************************************************************)

\* tryFiles(): the files of the next rung, one by one where they are over budget,
\* which the re-encoded ones may no longer be.
NextRung(b) ==
  /\ At(b, "ready")
  /\ \E heavy \in IF turn[b].rung = 2 THEN Smaller(turn[b].heavy) ELSE {turn[b].heavy} :
       turn' = [turn EXCEPT ![b].at = "posting", ![b].rung = @ + 1,
                            ![b].next = IF heavy THEN 1 ELSE 0, ![b].heavy = heavy]
  /\ UNCHANGED <<slot, bots, told, asked, unsure>>

\* A context file is accepted: the slot is emptied, the next file goes.
FileAccepted(b) ==
  /\ At(b, "posting") /\ ~WithText(b)
  /\ SetSlot(b, None)
  /\ turn' = [turn EXCEPT ![b].next = @ + 1]
  /\ Remembered(b)
  /\ UNCHANGED <<told, asked, unsure>>

\* The text is accepted; what its own earlier posts left in the slot is removed.
TextAccepted(b) ==
  /\ At(b, "posting") /\ WithText(b)
  /\ told' = [told EXCEPT ![b] = @ + 1]
  /\ asked' = [asked EXCEPT ![b] = @ + 1]
  /\ SetSlot(b, None)
  /\ Over(b)
  /\ Remembered(b)
  /\ UNCHANGED unsure

\* A body of several files is tried file by file; a file or a body of one leads to
\* the next rung, and to the third only if re-encoding makes a file smaller.
AfterFailure(b) ==
  IF turn[b].next = 0 /\ turn[b].size > 1 THEN {"posting"}
  ELSE IF turn[b].size = 0 \/ turn[b].rung = 3 THEN {"over"}
  ELSE IF turn[b].rung = 2 THEN {"ready", "over"}
  ELSE {"ready"}

\* Mutant of UploadFailed: the text is not kept when a context file fails.
UploadFailedUnkept(b) ==
  /\ At(b, "posting")
  /\ \E place \in AfterFailure(b) :
       turn' = [turn EXCEPT ![b].at = place,
                            ![b].next = IF place = "posting" THEN 1 ELSE @]
  /\ IF WithText(b) THEN SetSlot(b, b) ELSE slot' = slot
  /\ Remembered(b)
  /\ UNCHANGED <<told, asked, unsure>>

\* "upload_failed", for a body or for a file: the text is kept.
UploadFailed(b) ==
  /\ At(b, "posting")
  /\ \E place \in AfterFailure(b) :
       turn' = [turn EXCEPT ![b].at = place,
                            ![b].next = IF place = "posting" THEN 1 ELSE @]
  /\ SetSlot(b, b)
  /\ Remembered(b)
  /\ UNCHANGED <<told, asked, unsure>>

\* Any other status with a handle: the text is kept, the ladder ends.
Refused(b) ==
  /\ At(b, "posting")
  /\ SetSlot(b, b)
  /\ Over(b)
  /\ Remembered(b)
  /\ UNCHANGED <<told, asked, unsure>>

\* Mutant of AnswerLost: a post whose answer is lost is tried again.
AnswerLostAndRetried(b) ==
  /\ At(b, "posting") /\ turn[b].rung < 3
  /\ AcceptedUnheard(b)
  /\ turn' = [turn EXCEPT ![b].at = "ready"]
  /\ UNCHANGED <<slot, bots, told, unsure>>

\* A failure without a handle, which PromptQL may have accepted: the ladder ends.
\* Where it was a context file the text is kept, if the chat has a row to keep it in.
AnswerLost(b) ==
  /\ At(b, "posting")
  /\ AcceptedUnheard(b)
  /\ IF ~WithText(b) /\ ChatOf[b] \in bots
     THEN SetSlot(b, b) /\ unsure' = unsure
     ELSE slot' = slot /\ unsure' = unsure \cup {b}
  /\ Over(b)
  /\ UNCHANGED <<bots, told>>

\* The process dies; of the posts under way some are accepted.
Die ==
  /\ \E heard \in SUBSET {b \in Turns : At(b, "posting") /\ WithText(b)} :
       asked' = [b \in Turns |-> IF b \in heard THEN asked[b] + 1 ELSE asked[b]]
  /\ unsure' = unsure \cup {b \in Turns : At(b, "posting") /\ WithText(b)}
                      \cup {Slot(b) : b \in {x \in Turns : At(x, "recovering")}}
  /\ turn' = [b \in Turns |-> IF Underway(b) THEN [turn[b] EXCEPT !.at = "dead"] ELSE turn[b]]
  /\ UNCHANGED <<slot, bots, told>>

\* A post under way is answered, or a pause ends.
Climb(b) ==
  \/ Recovered(b) \/ NotRecovered(b) \/ RecoveryLost(b)
  \/ NextRung(b)
  \/ FileAccepted(b) \/ TextAccepted(b) \/ UploadFailed(b) \/ Refused(b) \/ AnswerLost(b)

LadderNext ==
  \/ \E b \in Turns : Dropped(b) \/ Climb(b) \/ \E n \in 0..MaxFiles : Begin(b, n)
  \/ Die

LadderSpec == LadderInit /\ [][LadderNext]_ladderVars

-------------------------------------------------------------------------------
(***************************************************************************)
(* Properties                                                              *)
(***************************************************************************)

\* However often a turn's files are posted again, PromptQL is asked for an answer
\* at most once, lost answers included ("the last post keeps the turn's response
\* mode so the agent still answers once", inboundRouter.ts:394).  A post the MCP
\* client sends again on its own is one post here; module McpSessions has those.
AnsweredOnce == \A b \in Turns : asked[b] <= 1

\* Neither the rungs nor the pending slot post a text again that PromptQL is known
\* to have accepted, though the slot is set and cleared by each post of a turn.
TextIsPostedOnce == \A b \in Turns : told[b] <= 1

\* "Its text is retained encrypted and retried ... on the next message"
\* (README.md:70): a turn that has tried its files and ends without its text being
\* accepted leaves it in the slot, unless the answer about the text itself was lost,
\* or one about a file in a chat that has no slot yet.
RejectedIsKept ==
  \A b \in Turns :
    At(b, "over") /\ turn[b].rung > 0 /\ told[b] = 0 /\ b \notin unsure => Slot(b) = b

===============================================================================
