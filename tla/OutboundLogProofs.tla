--------------------------- MODULE OutboundLogProofs ---------------------------
(***************************************************************************)
(* Theorems about the outbound log, for every set of keys and attempts,    *)
(* every stale window and any number of crashes.                           *)
(***************************************************************************)
EXTENDS OutboundLog, TLAPS

\* Attempts to which claim() answered "claimed".
Claimants == {a \in Attempts : phase[a] \notin {"idle", "dropped"}}

\* A row carries the token of an attempt for that very key, and a pending row
\* the time of that attempt's claim.
RowBelongs ==
  \A k \in Keys :
    /\ row[k].status = "none" => row[k] = NoRow
    /\ row[k].status # "none" =>
         row[k].token \in Claimants /\ KeyOf[row[k].token] = k
    /\ row[k].status = "pending" => row[k].updatedAt = claimedAt[row[k].token]

\* No claim lies in the future.
NoFutureClaim == \A a \in Attempts : claimedAt[a] <= now

\* An attempt that was overtaken had failed, or was stale when it happened.
OvertakenWasStale ==
  \A a \in Claimants :
    LET owner == row[KeyOf[a]].token IN
    /\ row[KeyOf[a]].status # "none"
    /\ \/ a = owner
       \/ phase[a] = "failed"
       \/ claimedAt[owner] - claimedAt[a] > StalePending

\* The same between any two attempts for one key.
ClaimsAreSpaced ==
  \A a, b \in Claimants :
    \/ a = b
    \/ KeyOf[a] # KeyOf[b]
    \/ phase[a] = "failed"
    \/ phase[b] = "failed"
    \/ claimedAt[b] - claimedAt[a] > StalePending
    \/ claimedAt[a] - claimedAt[b] > StalePending

IInv ==
  /\ TypeOK
  /\ RowBelongs
  /\ RowTellsTheTruth
  /\ NoFutureClaim
  /\ OvertakenWasStale
  /\ ClaimsAreSpaced
  /\ delivered \subseteq Claimants

-------------------------------------------------------------------------------

USE AttemptsAssumption, StaleAssumption, KeyOfAssumption, MaxTimeAssumption

LEMMA InitIInv == Init => IInv
  <1> SUFFICES ASSUME Init PROVE IInv
    OBVIOUS
  <1> USE DEF Init
  <1>1. TypeOK
    BY DEF TypeOK, Phases
  <1>2. Claimants = {}
    BY DEF Claimants
  <1>3. RowBelongs /\ RowTellsTheTruth
    BY DEF RowBelongs, RowTellsTheTruth, NoRow
  <1>4. NoFutureClaim
    <2>1. SUFFICES ASSUME NEW a \in Attempts PROVE claimedAt[a] <= now
      BY DEF NoFutureClaim
    <2>2. claimedAt[a] = 0 /\ now = 0
      OBVIOUS
    <2>3. QED
      BY <2>2
  <1>5. OvertakenWasStale /\ ClaimsAreSpaced
    BY <1>2 DEF OvertakenWasStale, ClaimsAreSpaced
  <1>6. QED
    BY <1>1, <1>2, <1>3, <1>4, <1>5 DEF IInv

\* claim() answers "claimed": the old owner had failed or was stale, so the
\* newcomer is far enough from everybody who has not failed.
LEMMA ClaimStep ==
  ASSUME NEW a \in Attempts, IInv, Claim(a)
  PROVE  IInv'
  <1> DEFINE k == KeyOf[a]
             old == row[k].token
  <1> USE DEF IInv
  <1>1. /\ k \in Keys
        /\ phase[a] = "idle"
        /\ row' = [row EXCEPT ![k] = [status |-> "pending", token |-> a,
                                      updatedAt |-> now]]
        /\ phase' = [phase EXCEPT ![a] = "claimed"]
        /\ claimedAt' = [claimedAt EXCEPT ![a] = now]
        /\ now' = now /\ delivered' = delivered
    BY DEF Claim, ClaimedRow
  <1>2. TypeOK'
    <2>1. row' \in [Keys -> {NoRow} \cup Row(0..MaxTime)]
      BY <1>1 DEF TypeOK, Row
    <2>2. QED
      BY <1>1, <2>1 DEF TypeOK, Phases
  <1>3. a \notin Claimants /\ Claimants' = Claimants \cup {a}
    BY <1>1 DEF Claimants, TypeOK
  <1>4. \A c \in Claimants : phase'[c] = phase[c] /\ claimedAt'[c] = claimedAt[c]
    BY <1>1, <1>3 DEF Claimants, TypeOK
  <1>5. row'[k] = [status |-> "pending", token |-> a, updatedAt |-> now]
    BY <1>1 DEF TypeOK
  <1>6. \A j \in Keys \ {k} : row'[j] = row[j]
    BY <1>1 DEF TypeOK
  <1>7. phase'[a] = "claimed" /\ claimedAt'[a] = now
    BY <1>1 DEF TypeOK
  <1>8. RowBelongs'
    <2> SUFFICES ASSUME NEW j \in Keys
                 PROVE  /\ row'[j].status = "none" => row'[j] = NoRow
                        /\ row'[j].status # "none" =>
                             row'[j].token \in Claimants' /\ KeyOf[row'[j].token] = j
                        /\ row'[j].status = "pending" =>
                             row'[j].updatedAt = claimedAt'[row'[j].token]
      BY DEF RowBelongs
    <2>1. CASE j = k
      BY <2>1, <1>3, <1>5, <1>7
    <2>2. CASE j # k
      BY <2>2, <1>3, <1>4, <1>6 DEF RowBelongs
    <2>3. QED
      BY <2>1, <2>2
  <1>9. RowTellsTheTruth'
    <2> SUFFICES ASSUME NEW j \in Keys
                 PROVE  /\ row'[j].status = "pending" =>
                             phase'[row'[j].token] \in Live \cup {"dead"}
                        /\ row'[j].status = "sent" =>
                             phase'[row'[j].token] \in {"sent", "relayed"}
                        /\ row'[j].status = "failed" =>
                             phase'[row'[j].token] = "failed"
      BY DEF RowTellsTheTruth
    <2>1. CASE j = k
      BY <2>1, <1>5, <1>7 DEF Live
    <2>2. CASE j # k
      BY <2>2, <1>4, <1>6 DEF RowBelongs, RowTellsTheTruth
    <2>3. QED
      BY <2>1, <2>2
  <1>10. NoFutureClaim'
    BY <1>1 DEF NoFutureClaim, TypeOK
  <1>11. ASSUME NEW c \in Claimants, KeyOf[c] = k
         PROVE  phase[c] = "failed" \/ now - claimedAt[c] > StalePending
    <2>1. \/ c = old
          \/ phase[c] = "failed"
          \/ claimedAt[old] - claimedAt[c] > StalePending
      BY <1>11 DEF OvertakenWasStale
    <2>2. row[k].status # "none"
      BY <1>11 DEF OvertakenWasStale
    <2>3. old \in Claimants
      BY <1>1, <2>2 DEF RowBelongs
    <2>4. phase[old] = "failed" \/ now - claimedAt[old] > StalePending
      BY <1>1, <2>2 DEF Claim, Claimable, Stale, RowBelongs, RowTellsTheTruth
    <2>5. CASE c = old
      BY <2>4, <2>5
    <2>6. CASE claimedAt[old] - claimedAt[c] > StalePending
      <3>1. claimedAt[old] \in Int /\ claimedAt[c] \in Int /\ now \in Int
        BY <2>3 DEF Claimants, TypeOK
      <3>2. claimedAt[old] <= now
        BY <2>3 DEF NoFutureClaim, Claimants
      <3>3. QED
        BY <2>6, <3>1, <3>2
    <2>7. QED
      BY <2>1, <2>5, <2>6
  <1>12. OvertakenWasStale'
    <2> SUFFICES ASSUME NEW c \in Claimants'
                 PROVE  /\ row'[KeyOf[c]].status # "none"
                        /\ \/ c = row'[KeyOf[c]].token
                           \/ phase'[c] = "failed"
                           \/ claimedAt'[row'[KeyOf[c]].token] - claimedAt'[c]
                                > StalePending
      BY DEF OvertakenWasStale
    <2>1. CASE c = a
      BY <2>1, <1>5
    <2>2. CASE c # a /\ KeyOf[c] = k
      <3>1. c \in Claimants
        BY <2>2, <1>3
      <3>2. QED
        BY <2>2, <3>1, <1>4, <1>5, <1>7, <1>11
    <2>3. CASE KeyOf[c] # k
      <3>1. c \in Claimants /\ KeyOf[c] \in Keys
        BY <2>3, <1>3 DEF Claimants
      <3>2. /\ row[KeyOf[c]].status # "none"
            /\ \/ c = row[KeyOf[c]].token
               \/ phase[c] = "failed"
               \/ claimedAt[row[KeyOf[c]].token] - claimedAt[c] > StalePending
        BY <3>1 DEF OvertakenWasStale
      <3>3. row[KeyOf[c]].token \in Claimants
        BY <3>1, <3>2 DEF RowBelongs
      <3>4. QED
        BY <2>3, <3>1, <3>2, <3>3, <1>4, <1>6
    <2>4. QED
      BY <2>1, <2>2, <2>3
  <1>13. ClaimsAreSpaced'
    <2> SUFFICES ASSUME NEW b \in Claimants', NEW c \in Claimants',
                        b # c, KeyOf[b] = KeyOf[c],
                        phase'[b] # "failed", phase'[c] # "failed"
                 PROVE  \/ claimedAt'[c] - claimedAt'[b] > StalePending
                        \/ claimedAt'[b] - claimedAt'[c] > StalePending
      BY DEF ClaimsAreSpaced
    <2>1. CASE b = a
      BY <2>1, <1>3, <1>4, <1>7, <1>11
    <2>2. CASE c = a
      BY <2>2, <1>3, <1>4, <1>7, <1>11
    <2>3. CASE b # a /\ c # a
      BY <2>3, <1>3, <1>4 DEF ClaimsAreSpaced
    <2>4. QED
      BY <2>1, <2>2, <2>3
  <1>14. QED
    BY <1>1, <1>2, <1>3, <1>8, <1>9, <1>10, <1>12, <1>13

\* A terminal write: it lands on the row only when the writer still owns it.
LEMMA SettleStep ==
  ASSUME NEW a \in Attempts, NEW s \in {"sent", "failed"},
         NEW p \in {"sent", "relayed", "failed", "lost"},
         IInv,
         phase[a] \in Live,
         Settle(a, s),
         phase' = [phase EXCEPT ![a] = p],
         s = "failed" => p = "failed",
         s = "sent" /\ Owns(row[KeyOf[a]], a) => p \in {"sent", "relayed"},
         now' = now, claimedAt' = claimedAt,
         delivered' \in {delivered, delivered \cup {a}}
  PROVE  IInv'
  <1> DEFINE k == KeyOf[a]
  <1> USE DEF IInv
  <1>1. k \in Keys /\ a \in Claimants /\ now \in 0..MaxTime
    BY DEF Claimants, Live, TypeOK
  <1>2. row' = [row EXCEPT ![k] = SettledRow(row[k], a, s, now)]
    BY DEF Settle
  <1>3. Claimants' = Claimants
    BY DEF Claimants, Live, TypeOK
  <1>4. row[k].status # "none"
    BY <1>1 DEF OvertakenWasStale
  <1>5. row[k] \in Row(0..MaxTime)
    BY <1>1, <1>4 DEF TypeOK, NoRow
  <1>6. /\ row'[k].token = row[k].token
        /\ row[k].token = a => row'[k].status = s
        /\ row[k].token # a => row'[k] = row[k]
        /\ row'[k] \in Row(0..MaxTime)
    BY <1>1, <1>2, <1>5 DEF TypeOK, SettledRow, Owns, Row
  <1>7. \A j \in Keys \ {k} : row'[j] = row[j]
    BY <1>2 DEF TypeOK
  <1>8. \A c \in Attempts \ {a} : phase'[c] = phase[c]
    BY DEF TypeOK
  <1>9. phase'[a] = p
    BY DEF TypeOK
  <1>10. TypeOK'
    <2>1. row' \in [Keys -> {NoRow} \cup Row(0..MaxTime)]
      BY <1>1, <1>2, <1>6 DEF TypeOK
    <2>2. phase' \in [Attempts -> Phases]
      BY DEF TypeOK, Phases
    <2>3. QED
      BY <2>1, <2>2 DEF TypeOK
  <1>11. RowBelongs'
    <2> SUFFICES ASSUME NEW j \in Keys
                 PROVE  /\ row'[j].status = "none" => row'[j] = NoRow
                        /\ row'[j].status # "none" =>
                             row'[j].token \in Claimants' /\ KeyOf[row'[j].token] = j
                        /\ row'[j].status = "pending" =>
                             row'[j].updatedAt = claimedAt'[row'[j].token]
      BY DEF RowBelongs
    <2>1. CASE j # k
      BY <2>1, <1>3, <1>7 DEF RowBelongs
    <2>2. CASE j = k /\ row[k].token = a
      BY <2>2, <1>1, <1>3, <1>6
    <2>3. CASE j = k /\ row[k].token # a
      BY <2>3, <1>1, <1>3, <1>6 DEF RowBelongs
    <2>4. QED
      BY <2>1, <2>2, <2>3
  <1>12. RowTellsTheTruth'
    <2> SUFFICES ASSUME NEW j \in Keys
                 PROVE  /\ row'[j].status = "pending" =>
                             phase'[row'[j].token] \in Live \cup {"dead"}
                        /\ row'[j].status = "sent" =>
                             phase'[row'[j].token] \in {"sent", "relayed"}
                        /\ row'[j].status = "failed" =>
                             phase'[row'[j].token] = "failed"
      BY DEF RowTellsTheTruth
    <2>1. CASE j # k
      <3>1. row'[j] = row[j]
        BY <2>1, <1>7
      <3>2. row[j].status # "none" => row[j].token \in Attempts \ {a}
        BY <2>1 DEF RowBelongs, Claimants
      <3>3. QED
        BY <3>1, <3>2, <1>8 DEF RowTellsTheTruth
    <2>2. CASE j = k /\ row[k].token = a
      BY <2>2, <1>6, <1>9 DEF Owns
    <2>3. CASE j = k /\ row[k].token # a
      <3>1. row'[k] = row[k] /\ row[k].token \in Attempts \ {a}
        BY <2>3, <1>5, <1>6 DEF Row
      <3>2. QED
        BY <2>3, <3>1, <1>8 DEF RowTellsTheTruth
    <2>4. QED
      BY <2>1, <2>2, <2>3
  <1>13. NoFutureClaim'
    BY DEF NoFutureClaim
  <1>14. \A c \in Claimants : phase'[c] = "failed" \/ phase'[c] = phase[c] \/ c = a
    BY <1>8 DEF Claimants
  <1>15. phase[a] # "failed"
    BY DEF Live
  <1>16. \A c \in Claimants : phase[c] = "failed" => phase'[c] = "failed"
    BY <1>14, <1>15
  <1>17. OvertakenWasStale'
    <2> SUFFICES ASSUME NEW c \in Claimants
                 PROVE  /\ row'[KeyOf[c]].status # "none"
                        /\ \/ c = row'[KeyOf[c]].token
                           \/ phase'[c] = "failed"
                           \/ claimedAt[row'[KeyOf[c]].token] - claimedAt[c]
                                > StalePending
      BY <1>3 DEF OvertakenWasStale
    <2>1. KeyOf[c] \in Keys
      BY DEF Claimants
    <2>2. row'[KeyOf[c]].token = row[KeyOf[c]].token
      BY <2>1, <1>6, <1>7
    <2>3. row'[KeyOf[c]].status # "none"
      <3>1. CASE KeyOf[c] = k
        BY <3>1, <1>6 DEF Row
      <3>2. CASE KeyOf[c] # k
        BY <3>2, <2>1, <1>7 DEF OvertakenWasStale
      <3>3. QED
        BY <3>1, <3>2
    <2>4. QED
      BY <2>2, <2>3, <1>16 DEF OvertakenWasStale
  <1>18. ClaimsAreSpaced'
    BY <1>3, <1>16 DEF ClaimsAreSpaced
  <1>19. QED
    BY <1>1, <1>3, <1>10, <1>11, <1>12, <1>13, <1>17, <1>18

\* WhatsApp takes the message of a claimant.
LEMMA DeliverStep ==
  ASSUME NEW a \in Attempts, IInv, Deliver(a)
  PROVE  IInv'
  <1> USE DEF IInv
  <1>1. /\ phase[a] = "claimed"
        /\ phase' = [phase EXCEPT ![a] = "delivered"]
        /\ delivered' = delivered \cup {a}
        /\ row' = row /\ now' = now /\ claimedAt' = claimedAt
    BY DEF Deliver
  <1>2. TypeOK'
    BY <1>1 DEF TypeOK, Phases
  <1>3. Claimants' = Claimants /\ a \in Claimants
    BY <1>1 DEF Claimants, TypeOK
  <1>4. /\ phase'[a] = "delivered"
        /\ \A c \in Attempts \ {a} : phase'[c] = phase[c]
    BY <1>1 DEF TypeOK
  <1>5. RowBelongs'
    BY <1>1, <1>3 DEF RowBelongs
  <1>6. RowTellsTheTruth'
    <2> SUFFICES ASSUME NEW j \in Keys
                 PROVE  /\ row[j].status = "pending" =>
                             phase'[row[j].token] \in Live \cup {"dead"}
                        /\ row[j].status = "sent" =>
                             phase'[row[j].token] \in {"sent", "relayed"}
                        /\ row[j].status = "failed" =>
                             phase'[row[j].token] = "failed"
      BY <1>1 DEF RowTellsTheTruth
    <2>1. CASE row[j].token = a
      BY <2>1, <1>1, <1>4 DEF RowTellsTheTruth, Live
    <2>2. CASE row[j].token # a
      <3>1. row[j].status # "none" => row[j].token \in Attempts \ {a}
        BY <2>2 DEF RowBelongs, Claimants
      <3>2. QED
        BY <3>1, <1>4 DEF RowTellsTheTruth
    <2>3. QED
      BY <2>1, <2>2
  <1>7. NoFutureClaim'
    BY <1>1 DEF NoFutureClaim
  <1>8. \A c \in Claimants : phase[c] = "failed" => phase'[c] = "failed"
    BY <1>1, <1>4 DEF Claimants
  <1>9. OvertakenWasStale'
    BY <1>1, <1>3, <1>8 DEF OvertakenWasStale
  <1>10. ClaimsAreSpaced'
    BY <1>1, <1>3, <1>8 DEF ClaimsAreSpaced
  <1>11. QED
    BY <1>1, <1>2, <1>3, <1>5, <1>6, <1>7, <1>9, <1>10

\* A crash kills the live attempts and nothing else.
LEMMA CrashStep ==
  ASSUME IInv, Crash
  PROVE  IInv'
  <1> USE DEF IInv
  <1>1. /\ phase' = [a \in Attempts |->
                       IF phase[a] \in Live THEN "dead" ELSE phase[a]]
        /\ row' = row /\ now' = now /\ claimedAt' = claimedAt
        /\ delivered' = delivered
    BY DEF Crash
  <1>2. TypeOK'
    BY <1>1 DEF TypeOK, Phases
  <1>3. Claimants' = Claimants
    BY <1>1 DEF Claimants, Live, TypeOK
  <1>4. RowBelongs'
    BY <1>1, <1>3 DEF RowBelongs
  <1>5. RowTellsTheTruth'
    <2> SUFFICES ASSUME NEW j \in Keys
                 PROVE  /\ row[j].status = "pending" =>
                             phase'[row[j].token] \in Live \cup {"dead"}
                        /\ row[j].status = "sent" =>
                             phase'[row[j].token] \in {"sent", "relayed"}
                        /\ row[j].status = "failed" =>
                             phase'[row[j].token] = "failed"
      BY <1>1 DEF RowTellsTheTruth
    <2>1. row[j].status # "none" => row[j].token \in Attempts
      BY DEF RowBelongs, Claimants
    <2>2. row[j] \in {NoRow} \cup Row(0..MaxTime)
      BY DEF TypeOK
    <2>3. CASE row[j].status = "none"
      BY <2>3
    <2>4. CASE row[j].status # "none"
      BY <2>1, <2>4, <1>1 DEF RowTellsTheTruth, Live
    <2>5. QED
      BY <2>3, <2>4
  <1>6. \A c \in Claimants : phase[c] = "failed" => phase'[c] = "failed"
    BY <1>1 DEF Claimants, Live
  <1>7. OvertakenWasStale' /\ ClaimsAreSpaced' /\ NoFutureClaim'
    BY <1>1, <1>3, <1>6 DEF OvertakenWasStale, ClaimsAreSpaced, NoFutureClaim
  <1>8. QED
    BY <1>1, <1>2, <1>3, <1>4, <1>5, <1>7

\* A dropped delivery and the clock leave every claim alone.
LEMMA DropOrTickStep ==
  ASSUME IInv, Tick \/ \E a \in Attempts : Drop(a)
  PROVE  IInv'
  <1> USE DEF IInv
  <1>1. CASE Tick
    <2>1. /\ now \in 0..MaxTime /\ now < MaxTime /\ now' = now + 1
          /\ row' = row /\ phase' = phase /\ claimedAt' = claimedAt
          /\ delivered' = delivered
      BY <1>1 DEF Tick, TypeOK
    <2>2. TypeOK'
      BY <2>1 DEF TypeOK
    <2>3. NoFutureClaim'
      BY <2>1 DEF NoFutureClaim, TypeOK
    <2>4. Claimants' = Claimants
      BY <2>1 DEF Claimants
    <2>5. RowBelongs' /\ RowTellsTheTruth' /\ OvertakenWasStale' /\ ClaimsAreSpaced'
      BY <2>1, <2>4 DEF RowBelongs, RowTellsTheTruth, OvertakenWasStale,
                        ClaimsAreSpaced
    <2>6. QED
      BY <2>1, <2>2, <2>3, <2>4, <2>5
  <1>2. ASSUME NEW a \in Attempts, Drop(a)
        PROVE  IInv'
    <2>1. /\ phase[a] = "idle"
          /\ phase' = [phase EXCEPT ![a] = "dropped"]
          /\ row' = row /\ now' = now /\ claimedAt' = claimedAt
          /\ delivered' = delivered
      BY <1>2 DEF Drop
    <2>2. TypeOK'
      BY <2>1 DEF TypeOK, Phases
    <2>3. Claimants' = Claimants
      BY <2>1 DEF Claimants, TypeOK
    <2>4. \A c \in Claimants : phase'[c] = phase[c]
      BY <2>1 DEF Claimants, TypeOK
    <2>5. RowBelongs'
      BY <2>1, <2>3 DEF RowBelongs
    <2>6. RowTellsTheTruth'
      BY <2>1, <2>4 DEF RowTellsTheTruth, RowBelongs
    <2>7. NoFutureClaim' /\ OvertakenWasStale' /\ ClaimsAreSpaced'
      BY <2>1, <2>3, <2>4 DEF NoFutureClaim, OvertakenWasStale, ClaimsAreSpaced
    <2>8. QED
      BY <2>1, <2>2, <2>3, <2>5, <2>6, <2>7
  <1>3. QED
    BY <1>1, <1>2

LEMMA NextIInv == IInv /\ [Next]_vars => IInv'
  <1> SUFFICES ASSUME IInv, [Next]_vars PROVE IInv'
    OBVIOUS
  <1>1. ASSUME NEW a \in Attempts, Step(a) PROVE IInv'
    <2>1. CASE Claim(a)
      BY <2>1, ClaimStep
    <2>2. CASE Drop(a)
      BY <2>2, DropOrTickStep
    <2>3. CASE Relay(a)
      BY <2>3, SettleStep DEF Relay, Live
    <2>4. CASE GiveUp(a)
      BY <2>4, SettleStep DEF GiveUp, Live
    <2>5. CASE Deliver(a)
      BY <2>5, DeliverStep
    <2>6. CASE SendError(a)
      BY <2>6, SettleStep DEF SendError, Live
    <2>7. CASE RecordSent(a)
      BY <2>7, SettleStep DEF RecordSent, Live
    <2>8. QED
      BY <1>1, <2>1, <2>2, <2>3, <2>4, <2>5, <2>6, <2>7 DEF Step
  <1>2. CASE UNCHANGED vars
    BY <1>2 DEF vars, IInv, TypeOK, RowBelongs, RowTellsTheTruth, NoFutureClaim,
                OvertakenWasStale, ClaimsAreSpaced, Claimants
  <1>3. QED
    BY <1>1, <1>2, CrashStep, DropOrTickStep DEF Next

\* The inductive invariant holds in every reachable state.
THEOREM IInvHolds == Spec => []IInv
  BY InitIInv, NextIInv, PTL DEF Spec

-------------------------------------------------------------------------------

\* Every reachable state of the outbound log is well typed.
THEOREM TypeCorrect == Spec => []TypeOK
  BY IInvHolds, PTL DEF IInv

\* A row never lies about the attempt whose token it carries
\* (outboundLog.ts:75-132).
THEOREM RowsTellTheTruth == Spec => []RowTellsTheTruth
  BY IInvHolds, PTL DEF IInv

\* Two sends for one inbound message are claims more than the stale window
\* apart, or one of the sends threw (outboundLog.ts:60-70).
THEOREM DoubleSendsAreStale == Spec => []SendsAreStaleApart
  <1>1. IInv => SendsAreStaleApart
    BY DEF IInv, SendsAreStaleApart, ClaimsAreSpaced
  <1>2. QED
    BY <1>1, IInvHolds, PTL

\* Once a row says "sent" no late writer changes it (outboundLog.ts:57-59 and
\* the token guards at 84, 96 and 128).
THEOREM SentStaysSent == Spec => SentIsFinal
  <1>1. ASSUME IInv, [Next]_vars, NEW k \in Keys, row[k].status = "sent"
        PROVE  row'[k] = row[k]
    <2>1. phase[row[k].token] \in {"sent", "relayed"}
      BY <1>1 DEF IInv, RowTellsTheTruth
    <2>2. ASSUME NEW a \in Attempts, Claim(a)
          PROVE  row'[k] = row[k]
      BY <1>1, <2>2 DEF Claim, Claimable, Stale, IInv, TypeOK
    <2>3. ASSUME NEW a \in Attempts, NEW s \in {"sent", "failed"},
                 phase[a] \in Live, Settle(a, s)
          PROVE  row'[k] = row[k]
      <3>1. row[k].token # a
        BY <2>1, <2>3 DEF Live
      <3>2. QED
        BY <2>3, <3>1 DEF Settle, SettledRow, Owns, IInv, TypeOK
    <2>4. ASSUME NEW a \in Attempts, Step(a)
          PROVE  row'[k] = row[k]
      BY <2>2, <2>3, <2>4 DEF Step, Drop, Relay, GiveUp, Deliver, SendError,
                              RecordSent, Live
    <2>5. QED
      BY <1>1, <2>4 DEF Next, Crash, Tick, vars
  <1>2. IInv /\ [Next]_vars
          => [\A k \in Keys : row[k].status = "sent" => row'[k] = row[k]]_row
    BY <1>1
  <1>3. QED
    BY <1>2, IInvHolds, PTL DEF Spec, SentIsFinal

-------------------------------------------------------------------------------

\* The table implements the lease of ReplyLease: every step grants, concludes
\* or leaves the leases alone.
THEOREM LogImplementsLease == Spec => ImplementsLease
  <1> DEFINE verdicts == [k \in Keys |-> VerdictOf(row[k])]
             holders == [k \in Keys |-> row[k].token]
             granted == {a \in Attempts : phase[a] \notin {"idle", "dropped"}}
             open == {a \in Attempts : phase[a] \in Live \cup {"dead"}}
  <1>1. Init => Lease!Init
    BY DEF Init, Lease!Init, NoRow, VerdictOf, Live
  <1>2. IInv /\ [Next]_vars => [Lease!Next]_(Lease!leaseVars)
    <2> SUFFICES ASSUME IInv, [Next]_vars
                 PROVE  [Lease!Next]_(Lease!leaseVars)
      OBVIOUS
    <2>1. ASSUME NEW a \in Attempts, Claim(a)
          PROVE  Lease!Next
      <3> DEFINE k == KeyOf[a]
      <3>1. k \in Keys
        OBVIOUS
      <3>2. row[k].status # "sent"
        BY <2>1 DEF Claim, Claimable, Stale
      <3>3. row[k].status \in {"none", "pending", "failed"}
        BY <3>1, <3>2 DEF IInv, TypeOK, Row, NoRow
      <3>4. verdicts[k] # "answered"
        BY <3>1, <3>3 DEF VerdictOf
      <3>5. a \notin granted
        BY <2>1 DEF Claim
      <3>6. row' = [row EXCEPT ![k] = [status |-> "pending", token |-> a,
                                       updatedAt |-> now]]
        BY <2>1 DEF Claim, ClaimedRow
      <3>7. holders' = [holders EXCEPT ![k] = a]
        BY <3>1, <3>6 DEF IInv, TypeOK
      <3>8. verdicts' = [verdicts EXCEPT ![k] = "open"]
        <4>1. row'[k].status = "pending" /\ \A j \in Keys \ {k} : row'[j] = row[j]
          BY <3>1, <3>6 DEF IInv, TypeOK
        <4>2. VerdictOf(row'[k]) = "open"
          BY <4>1 DEF VerdictOf
        <4>3. verdicts' = [j \in Keys |-> VerdictOf(row'[j])]
          BY DEF VerdictOf
        <4>4. \A j \in Keys : verdicts'[j] = IF j = k THEN "open" ELSE verdicts[j]
          BY <4>1, <4>2, <4>3
        <4>5. QED
          BY <3>1, <4>3, <4>4
      <3>9. granted' = granted \cup {a}
        BY <2>1 DEF Claim, IInv, TypeOK
      <3>10. open' = open \cup {a}
        BY <2>1 DEF Claim, Live, IInv, TypeOK
      <3>11. Lease!Grant(k, a)
        BY <3>4, <3>5, <3>7, <3>8, <3>9, <3>10 DEF Lease!Grant
      <3>12. QED
        BY <3>1, <3>11 DEF Lease!Next
    <2>2. ASSUME NEW a \in Attempts, NEW s \in {"sent", "failed"},
                 phase[a] \in Live, Settle(a, s), granted' = granted,
                 open' = open \ {a}
          PROVE  Lease!Next \/ UNCHANGED Lease!leaseVars
      <3> DEFINE k == KeyOf[a]
                 v == IF s = "sent" THEN "answered" ELSE "void"
      <3>1. k \in Keys /\ a \in Claimants
        BY <2>2 DEF Claimants, Live
      <3>2. row' = [row EXCEPT ![k] = SettledRow(row[k], a, s, now)]
        BY <2>2 DEF Settle
      <3>3. CASE row[k].token # a
        <4>1. row' = row
          BY <3>1, <3>2, <3>3 DEF SettledRow, Owns, IInv, TypeOK
        <4>2. \A j \in Keys : row[j].token # a
          BY <3>3 DEF IInv, RowBelongs, NoRow
        <4>3. holders' = holders /\ verdicts' = verdicts
          BY <4>1
        <4>4. Lease!Withdraw(a)
          BY <2>2, <4>2, <4>3 DEF Lease!Withdraw
        <4>5. QED
          BY <4>4 DEF Lease!Next
      <3>4. CASE row[k].token = a
        <4>1. row[k].status # "none"
          BY <3>1 DEF IInv, OvertakenWasStale
        <4>2. row[k] \in Row(0..MaxTime)
          BY <3>1, <4>1 DEF IInv, TypeOK, NoRow
        <4>3. row[k].status = "pending"
          BY <2>2, <3>1, <3>4, <4>2 DEF IInv, RowTellsTheTruth, Live, Row
        <4>4. row' = [row EXCEPT ![k] = [row[k] EXCEPT !.status = s,
                                                       !.updatedAt = now]]
          BY <3>2, <3>4 DEF SettledRow, Owns
        <4>5. row'[k].token = a /\ row'[k].status = s
          BY <3>1, <3>4, <4>2, <4>4 DEF IInv, TypeOK, Row
        <4>6. \A j \in Keys \ {k} : row'[j] = row[j]
          BY <4>4 DEF IInv, TypeOK
        <4>7. holders' = holders
          BY <3>1, <3>4, <4>5, <4>6
        <4>8. verdicts[k] = "open"
          BY <3>1, <4>3 DEF VerdictOf
        <4>9. VerdictOf(row'[k]) = v
          BY <4>5 DEF VerdictOf
        <4>10. verdicts' = [verdicts EXCEPT ![k] = v]
          <5>1. verdicts' = [j \in Keys |-> VerdictOf(row'[j])]
            BY DEF VerdictOf
          <5>2. \A j \in Keys : verdicts'[j] = IF j = k THEN v ELSE verdicts[j]
            BY <4>6, <4>9, <5>1
          <5>3. QED
            BY <3>1, <5>1, <5>2
        <4>11. Lease!Conclude(k, v)
          BY <2>2, <3>1, <3>4, <4>7, <4>8, <4>10 DEF Lease!Conclude
        <4>12. QED
          BY <3>1, <4>11 DEF Lease!Next
      <3>5. QED
        BY <3>3, <3>4
    <2>3. ASSUME NEW a \in Attempts, Step(a)
          PROVE  Lease!Next \/ UNCHANGED Lease!leaseVars
      <3>1. CASE Claim(a)
        BY <2>1, <3>1
      <3>2. CASE Drop(a)
        <4>1. row' = row /\ granted' = granted /\ open' = open
          BY <3>2 DEF Drop, Live, IInv, TypeOK
        <4>2. QED
          BY <4>1 DEF Lease!leaseVars
      <3>3. CASE Relay(a)
        <4>1. granted' = granted /\ open' = open \ {a}
          BY <3>3 DEF Relay, Live, IInv, TypeOK
        <4>2. QED
          BY <3>3, <4>1, <2>2 DEF Relay, Live
      <3>4. CASE GiveUp(a)
        <4>1. granted' = granted /\ open' = open \ {a}
          BY <3>4 DEF GiveUp, Live, IInv, TypeOK
        <4>2. QED
          BY <3>4, <4>1, <2>2 DEF GiveUp, Live
      <3>5. CASE Deliver(a)
        <4>1. row' = row /\ granted' = granted /\ open' = open
          BY <3>5 DEF Deliver, Live, IInv, TypeOK
        <4>2. QED
          BY <4>1 DEF Lease!leaseVars
      <3>6. CASE SendError(a)
        <4>1. granted' = granted /\ open' = open \ {a}
          BY <3>6 DEF SendError, Live, IInv, TypeOK
        <4>2. QED
          BY <3>6, <4>1, <2>2 DEF SendError, Live
      <3>7. CASE RecordSent(a)
        <4>1. granted' = granted /\ open' = open \ {a}
          BY <3>7 DEF RecordSent, Live, IInv, TypeOK
        <4>2. QED
          BY <3>7, <4>1, <2>2 DEF RecordSent, Live
      <3>8. QED
        BY <2>3, <3>1, <3>2, <3>3, <3>4, <3>5, <3>6, <3>7 DEF Step
    <2>4. CASE Crash
      <3>1. row' = row /\ granted' = granted /\ open' = open
        BY <2>4 DEF Crash, Live, IInv, TypeOK
      <3>2. QED
        BY <3>1 DEF Lease!leaseVars
    <2>5. CASE Tick \/ UNCHANGED vars
      <3>1. row' = row /\ granted' = granted /\ open' = open
        BY <2>5 DEF Live, Tick, vars
      <3>2. QED
        BY <3>1 DEF Lease!leaseVars
    <2>6. QED
      BY <2>3, <2>4, <2>5 DEF Next
  <1>3. QED
    BY <1>1, <1>2, IInvHolds, PTL DEF Spec, ImplementsLease, Lease!Spec

================================================================================
