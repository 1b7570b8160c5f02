------------------------------ MODULE OutboundLog ------------------------------
(***************************************************************************)
(* storage/outboundLog.ts: the table whatsapp_outbound_log and the         *)
(* life of the attempts that use it.                                       *)
(*                                                                         *)
(* An attempt is one run of the code between claim() and the terminal      *)
(* write: a batch the router processes for an inbound message, with the    *)
(* dispatch that follows it.  claim() draws a fresh uuid for every call;   *)
(* the token is therefore the attempt itself.  Every table operation is a  *)
(* single SQLite statement or transaction on one connection and runs to    *)
(* completion, so each is one step; what lies between them (the ask, the   *)
(* wait, the WhatsApp send) is awaited, and other attempts run meanwhile.  *)
(*                                                                         *)
(* Time is counted in ticks; the model does not bound how long an attempt  *)
(* stays between claim and terminal write, because the code does not: the  *)
(* response wait, the artifact downloads and the send queue add up.        *)
(***************************************************************************)
EXTENDS ClaimTable

CONSTANTS
  Keys,          \* inbound message ids: the idempotency keys of one connection
  KeyOf,         \* KeyOf[a]: the inbound message attempt a answers
  Crashes,       \* TRUE when the process may die and restart
  MaxTime        \* bound on the clock, for TLC

ASSUME KeyOfAssumption == KeyOf \in [Attempts -> Keys]
ASSUME CrashesAssumption == Crashes \in BOOLEAN
ASSUME MaxTimeAssumption == MaxTime \in Nat

VARIABLES
  row,         \* row[k]: the table's row for key k
  now,         \* the wall clock
  phase,       \* phase[a]: where attempt a stands
  claimedAt,   \* claimedAt[a]: when claim() answered "claimed" to a
  delivered    \* the attempts whose message reached WhatsApp

vars == <<row, now, phase, claimedAt, delivered>>

Phases == {"idle", "dropped", "claimed", "delivered", "sent", "lost",
           "relayed", "failed", "dead"}

\* Attempts that hold a token and may still write.
Live == {"claimed", "delivered"}

TypeOK ==
  /\ row \in [Keys -> {NoRow} \cup Row(0..MaxTime)]
  /\ now \in 0..MaxTime
  /\ phase \in [Attempts -> Phases]
  /\ claimedAt \in [Attempts -> 0..MaxTime]
  /\ delivered \subseteq Attempts

Init ==
  /\ row = [k \in Keys |-> NoRow]
  /\ now = 0
  /\ phase = [a \in Attempts |-> "idle"]
  /\ claimedAt = [a \in Attempts |-> 0]
  /\ delivered = {}

-------------------------------------------------------------------------------

\* claim(): the key is free, failed or stale, and the attempt takes it.
Claim(a) ==
  /\ phase[a] = "idle"
  /\ Claimable(row[KeyOf[a]], now)
  /\ row' = [row EXCEPT ![KeyOf[a]] = ClaimedRow(@, a, now)]
  /\ phase' = [phase EXCEPT ![a] = "claimed"]
  /\ claimedAt' = [claimedAt EXCEPT ![a] = now]
  /\ UNCHANGED <<now, delivered>>

\* claim() answers "already_sent" or "in_flight": the message is not processed.
Drop(a) ==
  /\ phase[a] = "idle"
  /\ ~Claimable(row[KeyOf[a]], now)
  /\ phase' = [phase EXCEPT ![a] = "dropped"]
  /\ UNCHANGED <<row, now, claimedAt, delivered>>

\* The terminal write of attempt a, applied only while a's token is in the row.
Settle(a, status) ==
  row' = [row EXCEPT ![KeyOf[a]] = SettledRow(@, a, status, now)]

\* markRelayed(): the turn was context only; nothing goes to WhatsApp.
Relay(a) ==
  /\ phase[a] = "claimed"
  /\ Settle(a, "sent")
  /\ phase' = [phase EXCEPT ![a] = "relayed"]
  /\ UNCHANGED <<now, claimedAt, delivered>>

\* markFailed() before any send: the ask failed, or there is nothing to send.
GiveUp(a) ==
  /\ phase[a] = "claimed"
  /\ Settle(a, "failed")
  /\ phase' = [phase EXCEPT ![a] = "failed"]
  /\ UNCHANGED <<now, claimedAt, delivered>>

\* WhatsApp takes the message; the code has not resumed yet.
Deliver(a) ==
  /\ phase[a] = "claimed"
  /\ phase' = [phase EXCEPT ![a] = "delivered"]
  /\ delivered' = delivered \cup {a}
  /\ UNCHANGED <<row, now, claimedAt>>

\* The send throws.  The message may have reached WhatsApp all the same.
SendError(a) ==
  /\ phase[a] = "claimed"
  /\ Settle(a, "failed")
  /\ phase' = [phase EXCEPT ![a] = "failed"]
  /\ delivered' \in {delivered, delivered \cup {a}}
  /\ UNCHANGED <<now, claimedAt>>

\* markSent() after the send: true when the token still matches, else the
\* dispatcher logs "outbound claim lost".
RecordSent(a) ==
  /\ phase[a] = "delivered"
  /\ Settle(a, "sent")
  /\ phase' = [phase EXCEPT ![a] =
                 IF Owns(row[KeyOf[a]], a) THEN "sent" ELSE "lost"]
  /\ UNCHANGED <<now, claimedAt, delivered>>

\* The process dies: live attempts vanish, the table and WhatsApp stay.
Crash ==
  /\ Crashes
  /\ \E a \in Attempts : phase[a] \in Live
  /\ phase' = [a \in Attempts |-> IF phase[a] \in Live THEN "dead" ELSE phase[a]]
  /\ UNCHANGED <<row, now, claimedAt, delivered>>

Tick ==
  /\ now < MaxTime
  /\ now' = now + 1
  /\ UNCHANGED <<row, phase, claimedAt, delivered>>

Step(a) ==
  \/ Claim(a) \/ Drop(a) \/ Relay(a) \/ GiveUp(a)
  \/ Deliver(a) \/ SendError(a) \/ RecordSent(a)

Next == (\E a \in Attempts : Step(a)) \/ Crash \/ Tick

Spec == Init /\ [][Next]_vars

-------------------------------------------------------------------------------

\* The lease a row stands for.
VerdictOf(r) ==
  CASE r.status = "none" -> "free"
    [] r.status = "pending" -> "open"
    [] r.status = "sent" -> "answered"
    [] r.status = "failed" -> "void"

-------------------------------------------------------------------------------
(***************************************************************************)
(* Properties                                                              *)
(***************************************************************************)

\* The row tells the truth about the attempt whose token it carries: "pending"
\* means that attempt is still at work (or died at it), "sent" that it sent or
\* relayed the message, "failed" that it has given up.  A failed row is
\* reclaimable at once, so the last part is what keeps an immediate retry from
\* meeting the original sender (outboundLog.ts:6-9).
RowTellsTheTruth ==
  \A k \in Keys :
    LET owner == row[k].token IN
    /\ row[k].status = "pending" => phase[owner] \in Live \cup {"dead"}
    /\ row[k].status = "sent" => phase[owner] \in {"sent", "relayed"}
    /\ row[k].status = "failed" => phase[owner] = "failed"

\* What the claim really buys against double sends: two attempts that both
\* reached WhatsApp for the same inbound message claimed it more than
\* STALE_PENDING_MS apart, unless the send of one of them threw.
SendsAreStaleApart ==
  \A a, b \in delivered :
    \/ a = b
    \/ KeyOf[a] # KeyOf[b]
    \/ "failed" \in {phase[a], phase[b]}
    \/ claimedAt[b] - claimedAt[a] > StalePending
    \/ claimedAt[a] - claimedAt[b] > StalePending

\* A row that says "sent" never changes again, whichever late sender, failed
\* retry or crashed attempt still holds an old token.
SentIsFinal ==
  [][\A k \in Keys : row[k].status = "sent" => row'[k] = row[k]]_row

\* The table implements the lease: one holder at a time, holders never come
\* back, the verdict is the holder's when it is done, and "sent" ends the matter.
Lease ==
  INSTANCE ReplyLease WITH
    Holders <- Attempts,
    Nobody <- NoToken,
    holder <- [k \in Keys |-> row[k].token],
    verdict <- [k \in Keys |-> VerdictOf(row[k])],
    past <- {a \in Attempts : phase[a] \notin {"idle", "dropped"}},
    out <- {a \in Attempts : phase[a] \in Live \cup {"dead"}}

ImplementsLease == Lease!Spec

===============================================================================
