------------------------------ MODULE ClaimTable ------------------------------
(***************************************************************************)
(* One row of whatsapp_outbound_log and what claim(), markSent(),          *)
(* markRelayed() and markFailed() of storage/outboundLog.ts do to it.      *)
(***************************************************************************)
EXTENDS Integers

CONSTANTS
  Attempts,      \* the callers of claim(); each call draws its own token
  NoToken,       \* the claim_token of a row that does not exist
  StalePending   \* STALE_PENDING_MS, in ticks

ASSUME AttemptsAssumption == NoToken \notin Attempts
ASSUME StaleAssumption == StalePending \in Nat

Row(times) ==
  [status : {"pending", "sent", "failed"}, token : Attempts, updatedAt : times]

NoRow == [status |-> "none", token |-> NoToken, updatedAt |-> 0]

\* Mutant of Stale: a row exactly STALE_PENDING_MS old counts as stale.
StaleOneEarly(r, t) == r.status = "pending" /\ t - r.updatedAt >= StalePending

\* A pending row old enough to be taken for a crashed sender's.
Stale(r, t) == r.status = "pending" /\ t - r.updatedAt > StalePending

\* claim() reserves a missing row, and takes back a failed or a stale one.
Claimable(r, t) == r.status \in {"none", "failed"} \/ Stale(r, t)

\* The INSERT or the UPDATE that grants the claim.
ClaimedRow(r, a, t) == [status |-> "pending", token |-> a, updatedAt |-> t]

\* Mutant of Owns: the terminal writes are not fenced by the token.
OwnsAnyRow(r, a) == r.token = a \/ r.status # "none"

\* WHERE claim_token = ?
Owns(r, a) == r.token = a

\* Mutant of SettledRow: the write is fenced by the status, not by the token.
SettledRowIfPending(r, a, s, t) ==
  IF r.status = "pending" THEN [r EXCEPT !.status = s, !.updatedAt = t] ELSE r

\* The UPDATE of markSent(), markRelayed() and markFailed().
SettledRow(r, a, s, t) ==
  IF Owns(r, a) THEN [r EXCEPT !.status = s, !.updatedAt = t] ELSE r

===============================================================================
