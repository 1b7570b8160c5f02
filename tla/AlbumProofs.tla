------------------------------ MODULE AlbumProofs ------------------------------
(***************************************************************************)
(* What the ladder of a turn guarantees, for any number of turns, chats    *)
(* and files; that bursts drive it as it expects; and where the messages   *)
(* and their bytes are while they do.                                      *)
(***************************************************************************)
EXTENDS AlbumBurst, FiniteSetTheorems, TLAPS

-------------------------------------------------------------------------------
(***************************************************************************)
(* The inductive invariant                                                 *)
(***************************************************************************)

\* Where a turn may stand on its ladder.
Placed ==
  \A b \in Turns :
    /\ turn[b].at \in {"none", "recovering"} => turn[b].rung = 0
    /\ At(b, "ready") => turn[b].rung <= 2
    /\ At(b, "posting") => turn[b].rung > 0
    /\ turn[b].next <= turn[b].size
    /\ turn[b].heavy => turn[b].size > 1

\* A chat posts for one turn at a time.
Exclusive ==
  \A a, b \in Turns : ChatOf[a] = ChatOf[b] /\ Underway(a) /\ Underway(b) => a = b

\* What waits in a slot is of that chat, has tried its files and is not accepted; a
\* turn that posts finds nothing there but what it left itself.
SlotIsOurs ==
  /\ \A c \in Chats : slot[c] # None =>
       ChatOf[slot[c]] = c /\ told[slot[c]] = 0 /\ turn[slot[c]].rung > 0
  /\ \A b \in Turns :
       turn[b].at \in {"ready", "posting"} =>
         Slot(b) = None \/ (Slot(b) = b /\ turn[b].rung > 0)
  /\ \A b \in Turns : At(b, "recovering") => Slot(b) # None

\* A turn that is not at its end has nothing accepted.
Counted ==
  \A b \in Turns :
    /\ At(b, "none") \/ Underway(b) => told[b] = 0 /\ asked[b] = 0
    /\ told[b] <= 1 /\ asked[b] <= 1

LadderInv ==
  TypeOK /\ Placed /\ Exclusive /\ SlotIsOurs /\ Counted /\ RejectedIsKept

LEMMA LadderInitially == LadderInit => LadderInv
  BY ChatOfAssumption, MaxFilesAssumption, NoneAssumption
     DEF LadderInit, LadderInv, TypeOK, Placed, Exclusive, SlotIsOurs, Counted,
         RejectedIsKept, NoTurn, At, Underway, Slot, Turn, Rungs

\* Moving a turn keeps it a turn.
LEMMA MovedTurn ==
  ASSUME NEW r \in Turn
  PROVE  /\ \A at \in {"none", "recovering", "ready", "posting", "over", "dead"} :
              [r EXCEPT !.at = at] \in Turn
         /\ \A n \in 0..MaxFiles : [r EXCEPT !.next = n] \in Turn
         /\ \A at \in {"none", "recovering", "ready", "posting", "over", "dead"},
               n \in 0..MaxFiles : [r EXCEPT !.at = at, !.next = n] \in Turn
  BY DEF Turn

LEMMA RecoveredStep ==
  ASSUME LadderInv, NEW b \in Turns, Recovered(b)
  PROVE  LadderInv'
  <1> USE ChatOfAssumption, MaxFilesAssumption, NoneAssumption
      DEF LadderInv, TypeOK, At, Slot, Underway
  <1> DEFINE x == slot[ChatOf[b]]
  <1>0. /\ turn[b] \in Turn /\ x \in Turns \cup {None} /\ ChatOf[b] \in Chats
        /\ turn' = [turn EXCEPT ![b] = [turn[b] EXCEPT !.at = "ready"]]
        /\ slot' = [slot EXCEPT ![ChatOf[b]] = None]
        /\ told' = [told EXCEPT ![x] = @ + 1]
        /\ x # None
    BY DEF Recovered, SetSlot, SlotIsOurs
  <1>1. TypeOK'
    <2>1. turn' \in [Turns -> Turn]
      BY <1>0, MovedTurn
    <2>2. told' \in [Turns -> Nat]
      BY <1>0
    <2>3. slot' \in [Chats -> Turns \cup {None}]
      BY <1>0
    <2>4. QED
      BY <2>1, <2>2, <2>3 DEF Recovered
  <1>2. told[x] = 0 /\ ChatOf[x] = ChatOf[b] /\ turn[x].rung > 0 /\ x # b
    BY <1>0 DEF SlotIsOurs, Recovered, Placed
  <1>3. ~Underway(x) /\ ~At(x, "none")
    BY <1>0, <1>2 DEF Exclusive, Recovered, Placed
  <1>4. Placed' /\ Exclusive'
    BY <1>0 DEF Placed, Exclusive, Recovered
  <1>5. SlotIsOurs'
    <2>1. ASSUME NEW c \in Chats, slot'[c] # None
          PROVE  ChatOf[slot'[c]] = c /\ told'[slot'[c]] = 0 /\ turn'[slot'[c]].rung > 0
      BY <2>1, <1>0, <1>2 DEF SlotIsOurs
    <2>2. ASSUME NEW a \in Turns, turn'[a].at \in {"ready", "posting"}
          PROVE  Slot(a)' = None \/ (Slot(a)' = a /\ turn'[a].rung > 0)
      BY <2>2, <1>0 DEF SlotIsOurs
    <2>3. ASSUME NEW a \in Turns, At(a, "recovering")'
          PROVE  Slot(a)' # None
      BY <2>3, <1>0 DEF SlotIsOurs, Exclusive, Recovered
    <2>4. QED
      BY <2>1, <2>2, <2>3 DEF SlotIsOurs
  <1>6. Counted'
    BY <1>0, <1>2, <1>3 DEF Counted, Recovered
  <1>7. RejectedIsKept'
    BY <1>0, <1>2 DEF RejectedIsKept, Recovered
  <1>8. QED
    BY <1>1, <1>4, <1>5, <1>6, <1>7

\* A step of a turn that has the chat's posts to itself: it leaves the turn as r, y in
\* the slot, k posts of the text that are known and j that ask for an answer.
Leaves(b, r, y, k, j) ==
  /\ r \in Turn /\ y \in {None, b} /\ k \in 0..1 /\ j \in 0..1
  /\ turn' = [turn EXCEPT ![b] = r]
  /\ slot' = [slot EXCEPT ![ChatOf[b]] = y]
  /\ told' = [told EXCEPT ![b] = k]
  /\ asked' = [asked EXCEPT ![b] = j]
  /\ unsure' \subseteq Turns /\ unsure \subseteq unsure' /\ bots' \subseteq Chats
  /\ r.at \in {"ready", "posting", "over"}
  /\ r.next <= r.size /\ (r.heavy => r.size > 1)
  /\ r.at = "ready" => r.rung <= 2
  /\ r.at = "posting" => r.rung > 0
  /\ r.at # "over" => k = 0 /\ j = 0
  /\ y = b => k = 0 /\ r.rung > 0
  /\ r.at = "over" /\ r.rung > 0 /\ k = 0 /\ b \notin unsure' => y = b

LEMMA OwnStep ==
  ASSUME LadderInv, NEW b \in Turns, turn[b].at \in {"ready", "posting"},
         NEW r, NEW y, NEW k, NEW j, Leaves(b, r, y, k, j)
  PROVE  LadderInv'
  <1> USE ChatOfAssumption, MaxFilesAssumption, NoneAssumption
      DEF LadderInv, TypeOK, At, Slot, Underway, Leaves
  <1>0. ChatOf[b] \in Chats /\ Slot(b) \in {None, b} /\ told[b] = 0 /\ asked[b] = 0
    BY DEF SlotIsOurs, Counted
  <1>1. TypeOK'
    BY <1>0
  <1>2. Placed' /\ Exclusive'
    BY DEF Placed, Exclusive
  <1>3. \A a \in Turns : ChatOf[a] = ChatOf[b] /\ a # b => ~Underway(a)
    BY DEF Exclusive
  <1>4. SlotIsOurs'
    <2>1. ASSUME NEW c \in Chats, slot'[c] # None
          PROVE  ChatOf[slot'[c]] = c /\ told'[slot'[c]] = 0 /\ turn'[slot'[c]].rung > 0
      BY <2>1, <1>0 DEF SlotIsOurs
    <2>2. ASSUME NEW a \in Turns, turn'[a].at \in {"ready", "posting"}
          PROVE  Slot(a)' = None \/ (Slot(a)' = a /\ turn'[a].rung > 0)
      BY <2>2, <1>3 DEF SlotIsOurs
    <2>3. ASSUME NEW a \in Turns, At(a, "recovering")'
          PROVE  Slot(a)' # None
      BY <2>3, <1>3 DEF SlotIsOurs
    <2>4. QED
      BY <2>1, <2>2, <2>3 DEF SlotIsOurs
  <1>5. Counted'
    BY <1>0 DEF Counted
  <1>6. RejectedIsKept'
    BY <1>0 DEF RejectedIsKept
  <1>7. QED
    BY <1>1, <1>2, <1>4, <1>5, <1>6

\* What OwnStep needs to know of the turn.
Alone(b) ==
  /\ turn[b] \in Turn /\ ChatOf[b] \in Chats
  /\ told[b] = 0 /\ asked[b] = 0
  /\ Slot(b) = None \/ (Slot(b) = b /\ turn[b].rung > 0)
  /\ told = [told EXCEPT ![b] = 0] /\ asked = [asked EXCEPT ![b] = 0]
  /\ slot = [slot EXCEPT ![ChatOf[b]] = Slot(b)]
  /\ unsure \subseteq Turns /\ bots \subseteq Chats
  /\ turn[b].next <= turn[b].size
  /\ turn[b].heavy => turn[b].size > 1
  /\ At(b, "posting") => turn[b].rung > 0
  /\ At(b, "ready") => turn[b].rung <= 2

LEMMA OwnTurn ==
  ASSUME LadderInv, NEW b \in Turns, turn[b].at \in {"ready", "posting"}
  PROVE  Alone(b)
  <1> USE ChatOfAssumption DEF LadderInv, TypeOK, At, Slot, Underway
  <1>1. told[b] = 0 /\ asked[b] = 0 /\ ChatOf[b] \in Chats
    BY DEF Counted
  <1>2. told = [told EXCEPT ![b] = 0] /\ asked = [asked EXCEPT ![b] = 0]
    BY <1>1
  <1>3. slot = [slot EXCEPT ![ChatOf[b]] = Slot(b)]
    BY <1>1
  <1>4. QED
    BY <1>1, <1>2, <1>3 DEF Alone, SlotIsOurs, Placed

LEMMA RungStep ==
  ASSUME LadderInv, NEW b \in Turns, NextRung(b)
  PROVE  LadderInv'
  <1>1. turn[b].at = "ready" /\ Alone(b)
    BY OwnTurn DEF NextRung, At
  <1>2. PICK heavy \in {turn[b].heavy, FALSE} :
          turn' = [turn EXCEPT ![b].at = "posting", ![b].rung = @ + 1,
                               ![b].next = IF heavy THEN 1 ELSE 0, ![b].heavy = heavy]
    BY DEF NextRung, Smaller
  <1> DEFINE r == [turn[b] EXCEPT !.at = "posting", !.rung = @ + 1,
                                  !.next = IF heavy THEN 1 ELSE 0, !.heavy = heavy]
  <1>3. heavy \in BOOLEAN /\ (heavy => turn[b].size > 1)
    BY <1>1, <1>2 DEF Alone, Turn
  <1>4. turn[b].rung \in 0..2
    BY <1>1 DEF Alone, Turn, Rungs, At
  <1>5. r.at = "posting" /\ r.rung > 0 /\ r.next <= r.size /\ (r.heavy => r.size > 1)
    BY <1>1, <1>3, <1>4 DEF Alone, Turn
  <1>6. r \in Turn
    <2>1. turn[b].rung + 1 \in Rungs /\ (IF heavy THEN 1 ELSE 0) \in 0..MaxFiles
      BY <1>1, <1>3, <1>4, MaxFilesAssumption DEF Alone, Turn, Rungs
    <2>2. QED
      BY <1>1, <1>3, <2>1 DEF Alone, Turn
  <1>7. /\ turn' = [turn EXCEPT ![b] = r]
        /\ slot' = [slot EXCEPT ![ChatOf[b]] = Slot(b)]
        /\ told' = [told EXCEPT ![b] = 0]
        /\ asked' = [asked EXCEPT ![b] = 0]
        /\ unsure' = unsure /\ bots' \subseteq Chats
    BY <1>1, <1>2 DEF NextRung, Alone
  <1> HIDE DEF r
  <1>8. Leaves(b, r, Slot(b), 0, 0)
    BY <1>1, <1>5, <1>6, <1>7 DEF Leaves, Alone
  <1>9. QED
    BY <1>1, <1>8, OwnStep

LEMMA FileStep ==
  ASSUME LadderInv, NEW b \in Turns, FileAccepted(b)
  PROVE  LadderInv'
  <1>1. turn[b].at = "posting" /\ Alone(b)
    BY OwnTurn DEF FileAccepted, At
  <1> DEFINE r == [turn[b] EXCEPT !.next = @ + 1]
  <1>2. /\ r \in Turn /\ r.at = "posting" /\ r.rung > 0 /\ r.next <= r.size
        /\ r.heavy => r.size > 1
    BY <1>1, MaxFilesAssumption DEF Turn, FileAccepted, WithText, Alone, At
  <1>3. /\ turn' = [turn EXCEPT ![b] = r]
        /\ slot' = [slot EXCEPT ![ChatOf[b]] = None]
        /\ told' = [told EXCEPT ![b] = 0]
        /\ asked' = [asked EXCEPT ![b] = 0]
        /\ unsure' = unsure /\ bots' \subseteq Chats
    BY <1>1 DEF FileAccepted, SetSlot, Remembered, Alone
  <1> HIDE DEF r
  <1>4. Leaves(b, r, None, 0, 0)
    BY <1>1, <1>2, <1>3 DEF Leaves, Alone
  <1>5. QED
    BY <1>1, <1>4, OwnStep

LEMMA TextStep ==
  ASSUME LadderInv, NEW b \in Turns, TextAccepted(b)
  PROVE  LadderInv'
  <1>1. turn[b].at = "posting" /\ Alone(b)
    BY OwnTurn DEF TextAccepted, At
  <1> DEFINE r == [turn[b] EXCEPT !.at = "over"]
  <1>2. /\ r \in Turn /\ r.at = "over" /\ r.next <= r.size
        /\ r.heavy => r.size > 1
    BY <1>1 DEF Turn, Alone
  <1>3. /\ turn' = [turn EXCEPT ![b] = r]
        /\ slot' = [slot EXCEPT ![ChatOf[b]] = None]
        /\ told' = [told EXCEPT ![b] = 1]
        /\ asked' = [asked EXCEPT ![b] = 1]
        /\ unsure' = unsure /\ bots' \subseteq Chats
    BY <1>1 DEF TextAccepted, SetSlot, Over, Remembered, Alone
  <1> HIDE DEF r
  <1>4. Leaves(b, r, None, 1, 1)
    BY <1>1, <1>2, <1>3, NoneAssumption DEF Leaves, Alone
  <1>5. QED
    BY <1>1, <1>4, OwnStep

LEMMA UploadStep ==
  ASSUME LadderInv, NEW b \in Turns, UploadFailed(b)
  PROVE  LadderInv'
  <1>1. turn[b].at = "posting" /\ Alone(b)
    BY OwnTurn DEF UploadFailed, At
  <1>2. PICK place \in AfterFailure(b) :
          turn' = [turn EXCEPT ![b].at = place,
                               ![b].next = IF place = "posting" THEN 1 ELSE @]
    BY DEF UploadFailed
  <1> DEFINE r == [turn[b] EXCEPT !.at = place,
                                  !.next = IF place = "posting" THEN 1 ELSE @]
  <1>3. /\ place \in {"posting", "ready", "over"}
        /\ place = "posting" => turn[b].size > 1
        /\ place = "ready" => turn[b].rung # 3
    BY DEF AfterFailure
  <1>4. /\ r \in Turn /\ r.at = place /\ r.rung = turn[b].rung /\ r.next <= r.size
        /\ r.heavy => r.size > 1
    <2>1. CASE place = "posting"
      <3>1. turn[b].size \in 0..MaxFiles /\ turn[b].size > 1
        BY <2>1, <1>1, <1>3 DEF Turn, Alone
      <3>2. 1 \in 0..MaxFiles /\ 1 <= turn[b].size
        BY <3>1, MaxFilesAssumption
      <3>3. QED
        BY <2>1, <3>2, <1>1 DEF Turn, Alone
    <2>2. CASE place # "posting"
      BY <2>2, <1>1, <1>3 DEF Turn, Alone
    <2>3. QED
      BY <2>1, <2>2
  <1>5. r.rung > 0 /\ (r.at = "ready" => r.rung <= 2)
    BY <1>1, <1>3, <1>4 DEF Turn, Rungs, Alone, At
  <1>6. /\ turn' = [turn EXCEPT ![b] = r]
        /\ slot' = [slot EXCEPT ![ChatOf[b]] = b]
        /\ told' = [told EXCEPT ![b] = 0]
        /\ asked' = [asked EXCEPT ![b] = 0]
        /\ unsure' = unsure /\ bots' \subseteq Chats
    BY <1>1, <1>2 DEF UploadFailed, SetSlot, Remembered, Alone
  <1> HIDE DEF r
  <1>7. Leaves(b, r, b, 0, 0)
    BY <1>1, <1>3, <1>4, <1>5, <1>6 DEF Leaves, Alone
  <1>8. QED
    BY <1>1, <1>7, OwnStep

LEMMA RefusedStep ==
  ASSUME LadderInv, NEW b \in Turns, Refused(b)
  PROVE  LadderInv'
  <1>1. turn[b].at = "posting" /\ Alone(b)
    BY OwnTurn DEF Refused, At
  <1> DEFINE r == [turn[b] EXCEPT !.at = "over"]
  <1>2. /\ r \in Turn /\ r.at = "over" /\ r.next <= r.size /\ r.rung > 0
        /\ r.heavy => r.size > 1
    BY <1>1 DEF Turn, Alone, At
  <1>3. /\ turn' = [turn EXCEPT ![b] = r]
        /\ slot' = [slot EXCEPT ![ChatOf[b]] = b]
        /\ told' = [told EXCEPT ![b] = 0]
        /\ asked' = [asked EXCEPT ![b] = 0]
        /\ unsure' = unsure /\ bots' \subseteq Chats
    BY <1>1 DEF Refused, SetSlot, Over, Remembered, Alone
  <1> HIDE DEF r
  <1>4. Leaves(b, r, b, 0, 0)
    BY <1>1, <1>2, <1>3 DEF Leaves, Alone
  <1>5. QED
    BY <1>1, <1>4, OwnStep

LEMMA LostStep ==
  ASSUME LadderInv, NEW b \in Turns, AnswerLost(b)
  PROVE  LadderInv'
  <1>1. turn[b].at = "posting" /\ Alone(b)
    BY OwnTurn DEF AnswerLost, At
  <1> DEFINE r == [turn[b] EXCEPT !.at = "over"]
  <1>2. /\ r \in Turn /\ r.at = "over" /\ r.next <= r.size /\ r.rung > 0
        /\ r.heavy => r.size > 1
    BY <1>1 DEF Turn, Alone, At
  <1>3. PICK j \in 0..1 : asked' = [asked EXCEPT ![b] = j]
    <2>1. asked' = asked \/ asked' = [asked EXCEPT ![b] = 1]
      BY <1>1 DEF AnswerLost, AcceptedUnheard, Alone
    <2>2. QED
      BY <2>1, <1>1 DEF Alone
  <1>4. /\ unsure' \subseteq Turns /\ unsure \subseteq unsure'
        /\ b \notin unsure' => ~WithText(b) /\ ChatOf[b] \in bots
        /\ bots' \subseteq Chats
    BY <1>1 DEF AnswerLost, Alone
  <1>5. PICK y \in {None, b} :
          /\ slot' = [slot EXCEPT ![ChatOf[b]] = y]
          /\ ~WithText(b) /\ ChatOf[b] \in bots => y = b
    BY <1>1 DEF AnswerLost, SetSlot, Alone
  <1>6. turn' = [turn EXCEPT ![b] = r] /\ told' = [told EXCEPT ![b] = 0]
    BY <1>1 DEF AnswerLost, Over, Alone
  <1>7. y = b \/ (r.at = "over" /\ b \in unsure')
    BY <1>2, <1>4, <1>5
  <1> HIDE DEF r
  <1>8. Leaves(b, r, y, 0, j)
    BY <1>1, <1>2, <1>3, <1>4, <1>5, <1>6, <1>7 DEF Leaves, Alone
  <1>9. QED
    BY <1>1, <1>8, OwnStep

LEMMA EndedStep ==
  ASSUME LadderInv, NEW b \in Turns, NotRecovered(b) \/ RecoveryLost(b) \/ Dropped(b)
  PROVE  LadderInv'
  <1> USE ChatOfAssumption, MaxFilesAssumption, NoneAssumption
      DEF LadderInv, TypeOK, At, Slot, Underway
  <1>1. /\ turn[b].at \in {"none", "recovering", "ready"} /\ turn[b].rung = 0
        /\ turn' = [turn EXCEPT ![b] = [turn[b] EXCEPT !.at = "over"]]
        /\ slot' = slot /\ bots' = bots /\ told' = told /\ asked' = asked
        /\ unsure' \in {unsure, unsure \cup {Slot(b)}}
    BY DEF NotRecovered, RecoveryLost, Dropped, Over, Placed
  <1>2. unsure' \subseteq Turns /\ unsure \subseteq unsure'
    BY DEF NotRecovered, RecoveryLost, Dropped, SlotIsOurs
  <1>3. TypeOK'
    BY <1>1, <1>2, MovedTurn
  <1>4. Placed' /\ Exclusive'
    BY <1>1 DEF Placed, Exclusive
  <1>5. SlotIsOurs'
    BY <1>1 DEF SlotIsOurs
  <1>6. Counted' /\ RejectedIsKept'
    BY <1>1, <1>2 DEF Counted, RejectedIsKept
  <1>7. QED
    BY <1>3, <1>4, <1>5, <1>6

LEMMA BeginStep ==
  ASSUME LadderInv, NEW b \in Turns, NEW n \in 0..MaxFiles, Begin(b, n)
  PROVE  LadderInv'
  <1> USE ChatOfAssumption, MaxFilesAssumption, NoneAssumption
      DEF LadderInv, TypeOK, At, Slot, Underway
  <1> DEFINE place == IF Slot(b) = None THEN "ready" ELSE "recovering"
  <1>1. PICK heavy \in BOOLEAN :
          /\ heavy => n > 1
          /\ turn' = [turn EXCEPT ![b] =
               [at |-> place, rung |-> 0, next |-> 0, size |-> n, heavy |-> heavy]]
    BY DEF Begin, Staged
  <1> DEFINE r == [at |-> place, rung |-> 0, next |-> 0, size |-> n, heavy |-> heavy]
  <1>2. /\ r \in Turn /\ r.at = place /\ place \in {"ready", "recovering"}
        /\ r.rung = 0 /\ r.next = 0 /\ r.size = n /\ (r.heavy => n > 1)
    BY <1>1 DEF Turn
  <1>3. turn' = [turn EXCEPT ![b] = r]
    BY <1>1
  <1> HIDE DEF r
  <1>4. /\ turn[b].at = "none" /\ turn[b].rung = 0 /\ told[b] = 0 /\ asked[b] = 0
        /\ \A a \in Turns : ChatOf[a] = ChatOf[b] => ~Underway(a)
        /\ UNCHANGED <<slot, bots, told, asked, unsure>>
    BY DEF Begin, Placed, Counted
  <1>5. TypeOK'
    BY <1>2, <1>3, <1>4
  <1>6. Placed'
    BY <1>2, <1>3, <1>4 DEF Placed
  <1>7. Exclusive'
    BY <1>2, <1>3, <1>4 DEF Exclusive
  <1>8. SlotIsOurs'
    BY <1>2, <1>3, <1>4 DEF SlotIsOurs
  <1>9. Counted' /\ RejectedIsKept'
    BY <1>2, <1>3, <1>4 DEF Counted, RejectedIsKept
  <1>10. QED
    BY <1>5, <1>6, <1>7, <1>8, <1>9

LEMMA DieStep ==
  ASSUME LadderInv, Die
  PROVE  LadderInv'
  <1> USE ChatOfAssumption, MaxFilesAssumption, NoneAssumption
      DEF LadderInv, TypeOK, At, Slot, Underway
  <1>1. PICK heard \in SUBSET {b \in Turns : At(b, "posting") /\ WithText(b)} :
          asked' = [b \in Turns |-> IF b \in heard THEN asked[b] + 1 ELSE asked[b]]
    BY DEF Die
  <1>2. /\ slot' = slot /\ bots' = bots /\ told' = told
        /\ \A b \in Turns :
             turn'[b] = IF Underway(b) THEN [turn[b] EXCEPT !.at = "dead"] ELSE turn[b]
        /\ turn' \in [Turns -> Turn]
    BY MovedTurn DEF Die
  <1>3. unsure' \subseteq Turns /\ unsure \subseteq unsure'
    BY DEF Die, SlotIsOurs
  <1>4. \A b \in Turns : asked'[b] \in Nat /\ asked'[b] <= 1
                        /\ (At(b, "none") => asked'[b] = 0)
    BY <1>1 DEF Counted
  <1>5. \A b \in Turns : turn'[b].rung = turn[b].rung /\ ~Underway(b)'
                        /\ (At(b, "none")' => At(b, "none"))
                        /\ (At(b, "over")' => At(b, "over"))
                        /\ turn'[b].next = turn[b].next /\ turn'[b].size = turn[b].size
                        /\ turn'[b].heavy = turn[b].heavy
    BY <1>2 DEF Turn
  <1>6. TypeOK'
    BY <1>1, <1>2, <1>3
  <1>7. Placed' /\ Exclusive'
    BY <1>5 DEF Placed, Exclusive
  <1>8. SlotIsOurs'
    BY <1>2, <1>5 DEF SlotIsOurs
  <1>9. Counted' /\ RejectedIsKept'
    BY <1>2, <1>3, <1>4, <1>5 DEF Counted, RejectedIsKept
  <1>10. QED
    BY <1>6, <1>7, <1>8, <1>9

LEMMA LadderStep ==
  ASSUME LadderInv, [LadderNext]_ladderVars
  PROVE  LadderInv'
  <1>1. ASSUME NEW b \in Turns, Climb(b) \/ Dropped(b)
        PROVE  LadderInv'
    BY <1>1, RecoveredStep, EndedStep, RungStep, FileStep, TextStep, UploadStep,
       RefusedStep, LostStep DEF Climb
  <1>2. CASE UNCHANGED ladderVars
    BY <1>2 DEF ladderVars, LadderInv, TypeOK, Placed, Exclusive, SlotIsOurs, Counted,
                RejectedIsKept, At, Slot, Underway
  <1>3. QED
    BY <1>1, <1>2, BeginStep, DieStep DEF LadderNext

-------------------------------------------------------------------------------
(***************************************************************************)
(* Theorems                                                                *)
(***************************************************************************)

\* The inductive invariant holds of every reachable state of the ladder.
THEOREM LadderInvariant == LadderSpec => []LadderInv
  <1>1. LadderInit => LadderInv
    BY LadderInitially
  <1>2. LadderInv /\ [LadderNext]_ladderVars => LadderInv'
    BY LadderStep
  <1>3. QED
    BY <1>1, <1>2, PTL DEF LadderSpec

\* For any number of turns, files and crashes: PromptQL is asked at most once for an
\* answer, also where a post it accepted is never confirmed.
THEOREM AnsweredOnceAlways == LadderSpec => []AnsweredOnce
  <1>1. LadderInv => AnsweredOnce
    BY DEF LadderInv, Counted, AnsweredOnce
  <1>2. QED
    BY <1>1, LadderInvariant, PTL

\* No text is known to be accepted twice, over all rungs and recoveries.
THEOREM TextIsPostedOnceAlways == LadderSpec => []TextIsPostedOnce
  <1>1. LadderInv => TextIsPostedOnce
    BY DEF LadderInv, Counted, TextIsPostedOnce
  <1>2. QED
    BY <1>1, LadderInvariant, PTL

\* A turn that has tried its files ends accepted, kept in the slot, or in doubt.
THEOREM RejectedIsKeptAlways == LadderSpec => []RejectedIsKept
  <1>1. LadderInv => RejectedIsKept
    BY DEF LadderInv
  <1>2. QED
    BY <1>1, LadderInvariant, PTL

-------------------------------------------------------------------------------
(***************************************************************************)
(* Bursts drive the ladder as it expects                                   *)
(***************************************************************************)

\* Only photos have bytes.
HeldOK == held \subseteq Photos

LEMMA FilesBounded ==
  ASSUME HeldOK, NEW b \in Turns
  PROVE  Cardinality(items[b] \cap held) \in 0..MaxFiles
  <1> DEFINE S == items[b] \cap held
  <1>1. S \subseteq Photos
    BY DEF HeldOK
  <1>2. IsFiniteSet(S) /\ Cardinality(S) <= Cardinality(Photos)
    BY <1>1, FilesAssumption, FS_Subset
  <1>3. Cardinality(S) \in Nat /\ Cardinality(Photos) \in Nat
    BY <1>2, FilesAssumption, FS_CardinalityType
  <1>4. QED
    BY <1>2, <1>3, FilesAssumption, MaxFilesAssumption

LEMMA HeldStep ==
  ASSUME HeldOK, [Next]_vars
  PROVE  HeldOK'
  <1> USE DEF HeldOK
  <1>1. CASE Downloaded
    BY <1>1 DEF Downloaded, Held
  <1>2. ASSUME NEW b \in Turns, Step(b)
        PROVE  HeldOK'
    BY <1>2 DEF Step, AfterStep
  <1>3. CASE Crash
    BY <1>3 DEF Crash
  <1>4. ASSUME NEW m \in Msgs, Arrive(m)
        PROVE  HeldOK'
    BY <1>4 DEF Arrive
  <1>5. ASSUME NEW p \in Parties, Flush(p)
        PROVE  HeldOK'
    BY <1>5 DEF Flush
  <1>6. CASE Take \/ WaitEnds \/ Tick \/ UNCHANGED vars
    BY <1>6 DEF Take, WaitEnds, Tick, vars
  <1>7. QED
    BY <1>1, <1>2, <1>3, <1>4, <1>5, <1>6 DEF Next

LEMMA DrivenStep ==
  ASSUME HeldOK, [Next]_vars
  PROVE  [LadderNext]_ladderVars
  <1>1. ASSUME NEW b \in Turns, Step(b)
        PROVE  LadderNext
    BY <1>1, FilesBounded DEF Step, LadderNext
  <1>2. CASE Crash
    BY <1>2 DEF Crash, LadderNext
  <1>3. ASSUME NEW m \in Msgs, Arrive(m)
        PROVE  UNCHANGED ladderVars
    BY <1>3 DEF Arrive
  <1>4. ASSUME NEW p \in Parties, Flush(p)
        PROVE  UNCHANGED ladderVars
    BY <1>4 DEF Flush
  <1>5. CASE Take \/ WaitEnds \/ Downloaded \/ Tick \/ UNCHANGED vars
    BY <1>5 DEF Take, WaitEnds, Downloaded, Tick, vars
  <1>6. QED
    BY <1>1, <1>2, <1>3, <1>4, <1>5 DEF Next

\* Whatever the socket, the buffers and the chains do, each turn climbs its ladder as
\* LadderSpec says, so the theorems above hold of albums.
THEOREM BurstsClimbTheLadder == Spec => LadderSpec
  <1>1. Init => LadderInit /\ HeldOK
    BY DEF Init, HeldOK
  <1>2. HeldOK /\ [Next]_vars => HeldOK'
    BY HeldStep
  <1>3. HeldOK /\ [Next]_vars => [LadderNext]_ladderVars
    BY DrivenStep
  <1>4. QED
    BY <1>1, <1>2, <1>3, PTL DEF Spec, LadderSpec

-------------------------------------------------------------------------------
(***************************************************************************)
(* Where each message is                                                   *)
(***************************************************************************)
\* A message that has been put into a buffer or a turn.
Handed(m) ==
  (\E p \in Parties : m \in buffer[p].items) \/ (\E b \in Turns : m \in items[b])

\* The inbound queue: each message once, not handed over yet and not
\* lost with the process.
InboundOK ==
  /\ \A i \in DOMAIN inbound : inbound[i] \in arrived \ gone /\ ~Handed(inbound[i])
  /\ \A i, j \in DOMAIN inbound : inbound[i] = inbound[j] => i = j
  /\ current.at # "idle" =>
       /\ current.msg \in arrived \ gone /\ ~Handed(current.msg)
       /\ \A i \in DOMAIN inbound : inbound[i] # current.msg

\* A buffer: messages of its party, which are in no turn.
BufferOK(p) ==
  /\ IF Open(p) THEN buffer[p].first \in buffer[p].items ELSE buffer[p].items = {}
  /\ \A m \in buffer[p].items :
       m \in arrived /\ PartyOf[m] = p /\ \A b \in Turns : m \notin items[b]

\* Turns share no message, and one that has begun or is on a chain has its first.
ItemsOK ==
  /\ \A a, b \in Turns : \A m \in items[a] : m \in arrived /\ (m \in items[b] => a = b)
  /\ \A b \in Turns : turn[b].at # "none" => b \in items[b]
  /\ \A c \in Chats : \A i \in DOMAIN chain[c] : chain[c][i] \in items[chain[c][i]]

\* The bytes of a turn under way are what it began with.
BytesOK ==
  /\ \A b \in Turns : Underway(b) => Cardinality(items[b] \cap held) = turn[b].size
  /\ \A m \in held : ~Settled(m)

\* A download that holds its party's buffer leaves it time; one that holds nothing
\* meets none, where the party is alone in its chat.
WindowsOK ==
  /\ current.at # "downloading" => ~current.hold
  /\ \A p \in Parties :
       /\ Sole(p) /\ Open(p) => burst[ChatOf[buffer[p].first]].last \in buffer[p].items
       /\ current.at = "downloading" /\ PartyOf[current.msg] = p /\ Open(p) =>
            IF current.hold THEN buffer[p].left > 0 ELSE ~Sole(p)

Bursts == [last : Msgs \cup {None}, left : 0..PhotoQuiet]
Buffers == [first : Msgs \cup {None}, items : SUBSET Msgs, left : 0..PhotoQuiet]

\* BurstTypeOK without the ladder.
Typed ==
  /\ inbound \in Seq(Msgs)
  /\ current \in [msg : Msgs \cup {None}, at : {"idle", "waiting", "downloading"},
                  hold : BOOLEAN]
  /\ burst \in [Chats -> Bursts]
  /\ buffer \in [Parties -> Buffers]
  /\ chain \in [Chats -> Seq(Turns)]
  /\ items \in [Turns -> SUBSET Msgs]
  /\ held \subseteq Photos
  /\ arrived \subseteq Msgs /\ gone \subseteq arrived

AlbumInv ==
  /\ Typed /\ InboundOK /\ (\A p \in Parties : BufferOK(p)) /\ ItemsOK
  /\ BytesOK /\ WindowsOK

\* What a step of a turn does to turns.
LEMMA TurnMoves ==
  ASSUME TypeOK, NEW b \in Turns, NEW n \in 0..MaxFiles,
         Dropped(b) \/ Begin(b, n) \/ Climb(b)
  PROVE  /\ \A a \in Turns \ {b} : turn'[a] = turn[a]
         /\ At(b, "none") \/ Underway(b)
         /\ turn'[b].at \in {"recovering", "ready", "posting", "over"}
         /\ Underway(b)' => turn'[b].size = IF At(b, "none") THEN n ELSE turn[b].size
  <1> USE DEF TypeOK, At, Underway
  <1>1. turn[b] \in Turn
    OBVIOUS
  <1>2. CASE Begin(b, n)
    BY <1>1, <1>2 DEF Begin, Turn
  <1>3. CASE Dropped(b) \/ NotRecovered(b) \/ RecoveryLost(b) \/ TextAccepted(b)
             \/ Refused(b) \/ AnswerLost(b)
    <2>1. turn' = [turn EXCEPT ![b].at = "over"] /\ (At(b, "none") \/ Underway(b))
      BY <1>3 DEF Dropped, NotRecovered, RecoveryLost, TextAccepted, Refused, AnswerLost, Over
    <2>2. QED
      BY <1>1, <2>1 DEF Turn
  <1>4. CASE Recovered(b)
    BY <1>1, <1>4 DEF Recovered, Turn
  <1>5. CASE NextRung(b)
    <2>1. PICK heavy : turn' = [turn EXCEPT ![b].at = "posting", ![b].rung = @ + 1,
                         ![b].next = IF heavy THEN 1 ELSE 0, ![b].heavy = heavy]
      BY <1>5 DEF NextRung
    <2>2. QED
      BY <1>1, <1>5, <2>1 DEF NextRung, Turn
  <1>6. CASE FileAccepted(b)
    BY <1>1, <1>6 DEF FileAccepted, Turn
  <1>7. CASE UploadFailed(b)
    <2>1. PICK place \in AfterFailure(b) :
            turn' = [turn EXCEPT ![b].at = place,
                                 ![b].next = IF place = "posting" THEN 1 ELSE @]
      BY <1>7 DEF UploadFailed
    <2>2. place \in {"posting", "ready", "over"} /\ Underway(b)
      BY <1>7 DEF AfterFailure, UploadFailed
    <2>3. QED
      BY <1>1, <2>1, <2>2 DEF Turn
  <1>8. QED
    BY <1>2, <1>3, <1>4, <1>5, <1>6, <1>7 DEF Climb

\* Windows may move; who is in which buffer stays.
LEMMA BuffersStay ==
  ASSUME AlbumInv, UNCHANGED <<items, arrived>>,
         \A p \in Parties : buffer'[p].first = buffer[p].first /\ buffer'[p].items = buffer[p].items
  PROVE  /\ \A p \in Parties : BufferOK(p)' /\ (Open(p)' <=> Open(p))
         /\ \A m : Handed(m)' <=> Handed(m)
  <1>1. \A p \in Parties : Open(p)' <=> Open(p)
    BY DEF Open
  <1>2. ASSUME NEW p \in Parties PROVE BufferOK(p)'
    BY <1>1 DEF AlbumInv, BufferOK
  <1>3. \A m : Handed(m)' <=> Handed(m)
    BY DEF Handed
  <1>4. QED
    BY <1>1, <1>2, <1>3

\* Turns, chains and bytes stay.
LEMMA TurnsStay ==
  ASSUME AlbumInv, UNCHANGED <<ladderVars, chain, items, held>>, arrived \subseteq arrived'
  PROVE  ItemsOK' /\ BytesOK'
  <1>1. ItemsOK'
    BY DEF AlbumInv, ItemsOK, ladderVars
  <1>2. BytesOK'
    BY DEF AlbumInv, BytesOK, Underway, Settled, ladderVars
  <1>3. QED
    BY <1>1, <1>2

LEMMA AlbumArrive ==
  ASSUME AlbumInv, NEW m \in Msgs, Arrive(m)
  PROVE  AlbumInv'
  <1> USE DEF AlbumInv
  <1>1. /\ UNCHANGED <<ladderVars, current, burst, buffer, chain, items, held, gone>>
        /\ m \notin arrived /\ m \notin gone /\ arrived' = arrived \cup {m}
    BY DEF Arrive, routerVars, Typed
  <1>2. PICK s \in Seq(Msgs) : s = inbound
    BY DEF Typed
  <1>3. PICK t : t = Append(s, m)
    OBVIOUS
  <1>4. t = inbound'
    BY <1>2, <1>3 DEF Arrive
  <1>5. /\ Len(s) \in Nat /\ DOMAIN s = 1 .. Len(s) /\ DOMAIN t = 1 .. Len(s) + 1
        /\ t[Len(s) + 1] = m /\ \A i \in DOMAIN s : t[i] = s[i]
        /\ t \in Seq(Msgs)
    BY <1>3
  <1>6. Typed'
    BY <1>1, <1>4, <1>5 DEF Typed
  <1>7. ItemsOK' /\ BytesOK'
    BY <1>1, TurnsStay
  <1>8. ASSUME NEW p \in Parties PROVE BufferOK(p)'
    BY <1>1 DEF BufferOK, Open
  <1>9. WindowsOK'
    BY <1>1 DEF WindowsOK, Open, Sole
  <1>10. InboundOK'
    <2>1. \A x : Handed(x)' <=> Handed(x)
      BY <1>1 DEF Handed
    <2>2. ~Handed(m)
      BY <1>1 DEF Handed, BufferOK, ItemsOK
    <2>3. \A i \in DOMAIN s : s[i] \in arrived \ gone /\ ~Handed(s[i]) /\ s[i] # m
      BY <1>1, <1>2 DEF InboundOK
    <2>4. \A i \in DOMAIN t : t[i] = m \/ (i \in DOMAIN s /\ t[i] = s[i])
      BY <1>5
    <2>5. \A i \in DOMAIN t : t[i] \in arrived' \ gone' /\ ~Handed(t[i])'
      BY <1>1, <2>1, <2>2, <2>3, <2>4
    <2>6. \A i, j \in DOMAIN t : t[i] = t[j] => i = j
      <3>1. \A i, j \in DOMAIN s : s[i] = s[j] => i = j
        BY <1>2 DEF InboundOK
      <3>2. QED
        BY <1>5, <2>3, <3>1
    <2>7. ASSUME current.at # "idle"
          PROVE  /\ current.msg \in arrived' \ gone' /\ ~Handed(current.msg)'
                 /\ \A i \in DOMAIN t : t[i] # current.msg
      <3>1. /\ current.msg \in arrived \ gone /\ ~Handed(current.msg)
            /\ \A i \in DOMAIN s : s[i] # current.msg
        BY <1>2, <2>7 DEF InboundOK
      <3>2. QED
        BY <1>1, <2>1, <2>4, <3>1
    <2>8. QED
      BY <1>1, <1>4, <2>5, <2>6, <2>7 DEF InboundOK
  <1>11. QED
    BY <1>6, <1>7, <1>8, <1>9, <1>10

LEMMA AlbumTake ==
  ASSUME AlbumInv, Take
  PROVE  AlbumInv'
  <1> USE DEF AlbumInv
  <1>1. /\ UNCHANGED <<ladderVars, chain, items, held, arrived, gone>>
        /\ current = Idle
    BY DEF Take
  <1>2. PICK s \in Seq(Msgs) : s = inbound
    BY DEF Typed
  <1>3. PICK m, t : m = Head(s) /\ t = Tail(s)
    OBVIOUS
  <1>4. /\ t = inbound' /\ s # <<>>
    BY <1>2, <1>3 DEF Take
  <1>5. /\ m \in Msgs /\ 1 \in DOMAIN s /\ s[1] = m /\ t \in Seq(Msgs)
        /\ \A i \in DOMAIN t : i \in Nat /\ i + 1 \in DOMAIN s /\ t[i] = s[i + 1] /\ i + 1 # 1
    BY <1>3, <1>4
  <1> DEFINE p == PartyOf[m]
             c == ChatOf[m]
  <1>6. p \in Parties /\ c \in Chats /\ PhotoQuiet \in Nat \ {0}
    BY <1>5, PartyOfAssumption, ChatOfAssumption, QuietAssumption DEF Msgs
  <1>7. \/ /\ current' = [msg |-> m, at |-> "waiting", hold |-> FALSE]
           /\ UNCHANGED <<burst, buffer>>
        \/ /\ current' = [msg |-> m, at |-> "downloading", hold |-> TRUE]
           /\ burst' = TouchedBurst(p, c) /\ buffer' = Touched(p)
    BY <1>2, <1>3 DEF Take
  <1>8. /\ burst' \in [Chats -> Bursts] /\ \A x \in Chats : burst'[x].last = burst[x].last
    <2>1. CASE burst' = burst
      BY <2>1 DEF Typed
    <2>2. CASE burst' = [burst EXCEPT ![c].left = PhotoQuiet]
      <3>1. burst[c] \in Bursts
        BY <1>6 DEF Typed
      <3>2. PICK r : r = [burst[c] EXCEPT !.left = PhotoQuiet]
        OBVIOUS
      <3>3. r \in Bursts /\ r.last = burst[c].last
        BY <1>6, <3>1, <3>2 DEF Bursts
      <3>4. burst' = [burst EXCEPT ![c] = r]
        BY <2>2, <3>2
      <3>5. QED
        BY <1>6, <3>3, <3>4 DEF Typed
    <2>3. QED
      BY <1>7, <2>1, <2>2 DEF TouchedBurst
  <1>9. /\ buffer' \in [Parties -> Buffers]
        /\ \A q \in Parties : /\ buffer'[q].first = buffer[q].first
                              /\ buffer'[q].items = buffer[q].items
    <2>1. CASE buffer' = buffer
      BY <2>1 DEF Typed
    <2>2. CASE buffer' = [buffer EXCEPT ![p].left = PhotoQuiet]
      <3>1. buffer[p] \in Buffers
        BY <1>6 DEF Typed
      <3>2. PICK r : r = [buffer[p] EXCEPT !.left = PhotoQuiet]
        OBVIOUS
      <3>3. r \in Buffers /\ r.first = buffer[p].first /\ r.items = buffer[p].items
        BY <1>6, <3>1, <3>2 DEF Buffers
      <3>4. buffer' = [buffer EXCEPT ![p] = r]
        BY <2>2, <3>2
      <3>5. QED
        BY <1>6, <3>3, <3>4 DEF Typed
    <2>3. QED
      BY <1>7, <2>1, <2>2 DEF Touched
  <1>10. Typed'
    <2>1. current' \in [msg : Msgs \cup {None}, at : {"idle", "waiting", "downloading"},
                        hold : BOOLEAN]
      <3>1. \A at \in {"waiting", "downloading"}, hold \in BOOLEAN :
              [msg |-> m, at |-> at, hold |-> hold] \in
                [msg : Msgs \cup {None}, at : {"idle", "waiting", "downloading"},
                 hold : BOOLEAN]
        BY <1>5
      <3>2. \E at \in {"waiting", "downloading"}, hold \in BOOLEAN :
              current' = [msg |-> m, at |-> at, hold |-> hold]
        BY <1>7, Zenon
      <3>3. QED
        BY <3>1, <3>2, Zenon
    <2>2. QED
      BY <1>1, <1>4, <1>5, <1>8, <1>9, <2>1 DEF Typed
  <1>11. ItemsOK' /\ BytesOK'
    BY <1>1, TurnsStay
  <1>12. /\ \A q \in Parties : BufferOK(q)' /\ (Open(q)' <=> Open(q))
         /\ \A x : Handed(x)' <=> Handed(x)
    BY <1>1, <1>9, BuffersStay
  <1>13. InboundOK'
    <2>1. \A i \in DOMAIN s : s[i] \in arrived \ gone /\ ~Handed(s[i])
      BY <1>2 DEF InboundOK
    <2>2. \A i, j \in DOMAIN s : s[i] = s[j] => i = j
      BY <1>2 DEF InboundOK
    <2>3. \A i \in DOMAIN t : t[i] \in arrived \ gone /\ ~Handed(t[i]) /\ t[i] # m
      BY <1>5, <2>1, <2>2
    <2>4. \A i, j \in DOMAIN t : t[i] = t[j] => i = j
      BY <1>5, <2>2
    <2>5. m \in arrived \ gone /\ ~Handed(m)
      BY <1>5, <2>1
    <2>6. current'.msg = m
      BY <1>7
    <2>7. QED
      BY <1>1, <1>4, <1>12, <2>3, <2>4, <2>5, <2>6 DEF InboundOK
  <1>14. WindowsOK'
    <2>1. current'.at # "downloading" => ~current'.hold
      BY <1>7
    <2>2. ASSUME NEW q \in Parties, Sole(q), Open(q)
          PROVE  burst'[ChatOf[buffer'[q].first]].last \in buffer'[q].items
      <3>1. burst[ChatOf[buffer[q].first]].last \in buffer[q].items
        BY <2>2 DEF WindowsOK
      <3>2. ChatOf[buffer[q].first] \in Chats
        BY <2>2, ChatOfAssumption DEF Typed, Buffers, Open, Msgs
      <3>3. QED
        BY <1>8, <1>9, <3>1, <3>2
    <2>3. ASSUME NEW q \in Parties, current'.at = "downloading", PartyOf[current'.msg] = q,
                 Open(q)
          PROVE  current'.hold /\ buffer'[q].left > 0
      <3>1. q = p /\ current'.hold /\ buffer' = Touched(p)
        BY <1>7, <2>3
      <3>2. buffer'[q].left = PhotoQuiet
        BY <1>6, <2>3, <3>1 DEF Touched, Typed, Buffers
      <3>3. QED
        BY <1>6, <3>1, <3>2
    <2>4. QED
      BY <1>12, <2>1, <2>2, <2>3 DEF WindowsOK, Sole
  <1>15. QED
    BY <1>10, <1>11, <1>12, <1>13, <1>14

LEMMA AlbumWaitEnds ==
  ASSUME AlbumInv, WaitEnds
  PROVE  AlbumInv'
  <1> USE DEF AlbumInv
  <1>1. /\ UNCHANGED <<ladderVars, inbound, burst, buffer, chain, items, held, arrived, gone>>
        /\ current.at = "waiting" /\ Settled(burst[ChatOf[current.msg]].last)
        /\ current' = [current EXCEPT !.at = "downloading"]
    BY DEF WaitEnds, routerVars
  <1>2. /\ current'.msg = current.msg /\ current'.at = "downloading"
        /\ current'.hold = current.hold /\ ~current.hold
    BY <1>1 DEF Typed, WindowsOK
  <1>3. Typed'
    BY <1>1 DEF Typed
  <1>4. ItemsOK' /\ BytesOK'
    BY <1>1, TurnsStay
  <1>5. /\ \A p \in Parties : BufferOK(p)' /\ (Open(p)' <=> Open(p))
        /\ \A m : Handed(m)' <=> Handed(m)
    BY <1>1, BuffersStay
  <1>6. InboundOK'
    BY <1>1, <1>2, <1>5 DEF InboundOK
  <1>7. ASSUME NEW p \in Parties, PartyOf[current.msg] = p, Open(p), Sole(p)
        PROVE  FALSE
    <2>1. PICK f \in Msgs : f = buffer[p].first /\ f \in buffer[p].items /\ PartyOf[f] = p
      BY <1>7 DEF BufferOK, Open, Typed, Buffers
    <2>2. current.msg \in Msgs
      BY <1>1 DEF InboundOK, Typed
    <2>3. ChatOf[f] = ChatOf[current.msg]
      BY <1>7, <2>1, <2>2, PartyChatAssumption
    <2>4. burst[ChatOf[f]].last \in buffer[p].items
      BY <1>7, <2>1 DEF WindowsOK
    <2>5. \A b \in Turns : burst[ChatOf[f]].last \notin items[b]
      BY <2>4 DEF BufferOK
    <2>6. QED
      BY <1>1, <2>3, <2>5 DEF Settled
  <1>8. WindowsOK'
    BY <1>1, <1>2, <1>5, <1>7 DEF WindowsOK, Sole
  <1>9. QED
    BY <1>3, <1>4, <1>5, <1>6, <1>8

LEMMA AlbumDownloaded ==
  ASSUME AlbumInv, Downloaded
  PROVE  AlbumInv'
  <1> USE DEF AlbumInv
  <1> DEFINE m == current.msg
             p == PartyOf[m]
             c == ChatOf[m]
  <1>1. /\ UNCHANGED <<ladderVars, inbound, chain, items, arrived, gone>>
        /\ current.at = "downloading" /\ current' = Idle /\ held' \in {held, Held(m)}
    BY DEF Downloaded
  <1>2. m \in Msgs /\ m \in arrived /\ ~Handed(m) /\ p \in Parties /\ c \in Chats
    BY <1>1, PartyOfAssumption, ChatOfAssumption DEF InboundOK, Typed, Msgs
  <1>3. PICK r, h : /\ r = [first |-> IF Open(p) THEN buffer[p].first ELSE m,
                            items |-> buffer[p].items \cup {m},
                            left |-> Quiet(buffer[p].items \cup {m})]
                    /\ h = [last |-> m, left |-> PhotoQuiet]
    OBVIOUS
  <1>4. buffer' = [buffer EXCEPT ![p] = r] /\ burst' = [burst EXCEPT ![c] = h]
    BY <1>3, Zenon DEF Downloaded
  <1>5. r \in Buffers /\ h \in Bursts
    <2>1. buffer[p] \in Buffers
      BY <1>2 DEF Typed
    <2>2. Quiet(buffer[p].items \cup {m}) \in 0..PhotoQuiet /\ PhotoQuiet \in 0..PhotoQuiet
      BY QuietAssumption DEF Quiet
    <2>3. QED
      BY <1>2, <1>3, <2>1, <2>2 DEF Buffers, Bursts
  <1>6. /\ buffer' \in [Parties -> Buffers] /\ buffer'[p] = r
        /\ \A q \in Parties \ {p} : buffer'[q] = buffer[q]
        /\ burst' \in [Chats -> Bursts] /\ burst'[c] = h
        /\ \A x \in Chats \ {c} : burst'[x] = burst[x]
    BY <1>2, <1>4, <1>5 DEF Typed
  <1>7. /\ r.items = buffer[p].items \cup {m} /\ r.first \in r.items /\ h.last = m
        /\ r.first # None
    <2>1. r.items = buffer[p].items \cup {m} /\ h.last = m
          /\ r.first = IF Open(p) THEN buffer[p].first ELSE m
      BY <1>3
    <2>2. BufferOK(p) /\ m # None
      BY <1>2, NoneAssumption DEF Msgs
    <2>3. QED
      BY <2>1, <2>2 DEF BufferOK, Open
  <1>8. Idle \in [msg : Msgs \cup {None}, at : {"idle", "waiting", "downloading"},
                  hold : BOOLEAN]
        /\ Idle.at = "idle" /\ ~Idle.hold
    BY DEF Idle
  <1>9. held' \subseteq Photos /\ held \subseteq held' /\ \A x \in held' : x \in held \/ x = m
    BY <1>1 DEF Held, Typed
  <1>10. Typed'
    BY <1>1, <1>6, <1>8, <1>9 DEF Typed
  <1>11. ItemsOK'
    BY <1>1 DEF ItemsOK, ladderVars
  <1>12. \A b \in Turns : m \notin items[b]
    BY <1>2 DEF Handed
  <1>13. BytesOK'
    <2>1. \A b \in Turns : items[b] \cap held' = items[b] \cap held
      BY <1>9, <1>12
    <2>2. \A x : Settled(x)' <=> Settled(x)
      BY <1>1 DEF Settled, ladderVars
    <2>3. ~Settled(m)
      BY <1>12 DEF Settled
    <2>4. QED
      BY <1>1, <1>9, <2>1, <2>2, <2>3 DEF BytesOK, Underway, ladderVars
  <1>14. ASSUME NEW q \in Parties PROVE BufferOK(q)'
    <2>1. CASE q # p
      BY <1>1, <1>6, <2>1 DEF BufferOK, Open
    <2>2. CASE q = p
      <3>1. \A x \in buffer[p].items :
              x \in arrived /\ PartyOf[x] = p /\ \A b \in Turns : x \notin items[b]
        BY <1>2 DEF BufferOK
      <3>2. \A x \in r.items :
              x \in arrived /\ PartyOf[x] = p /\ \A b \in Turns : x \notin items[b]
        BY <1>2, <1>7, <1>12, <3>1
      <3>3. QED
        BY <1>1, <1>6, <1>7, <2>2, <3>2 DEF BufferOK, Open
    <2>3. QED
      BY <2>1, <2>2
  <1>15. InboundOK'
    <2>1. \A x : Handed(x)' => Handed(x) \/ x = m
      BY <1>1, <1>6, <1>7 DEF Handed
    <2>2. \A i \in DOMAIN inbound : inbound[i] # m
      BY <1>1 DEF InboundOK
    <2>3. QED
      BY <1>1, <1>8, <2>1, <2>2 DEF InboundOK
  <1>16. WindowsOK'
    <2>1. ASSUME NEW q \in Parties, Sole(q), Open(q)'
          PROVE  burst'[ChatOf[buffer'[q].first]].last \in buffer'[q].items
      <3>1. PICK f \in Msgs : f = buffer'[q].first /\ f \in buffer'[q].items /\ PartyOf[f] = q
        BY <1>6, <1>14, <2>1 DEF BufferOK, Open, Buffers
      <3>2. CASE q = p
        <4>1. ChatOf[f] = c
          BY <1>2, <3>1, <3>2, PartyChatAssumption
        <4>2. QED
          BY <1>6, <1>7, <3>1, <3>2, <4>1
      <3>3. CASE q # p
        <4>1. ChatOf[f] # c
          BY <1>2, <2>1, <3>1, <3>3 DEF Sole
        <4>2. buffer'[q] = buffer[q] /\ Open(q) /\ ChatOf[f] \in Chats
          BY <1>6, <2>1, <3>3, ChatOfAssumption DEF Open, Msgs
        <4>3. burst[ChatOf[f]].last \in buffer[q].items
          BY <2>1, <3>1, <4>2 DEF WindowsOK
        <4>4. QED
          BY <1>6, <3>1, <4>1, <4>2, <4>3
      <3>4. QED
        BY <3>2, <3>3
    <2>2. QED
      BY <1>1, <1>8, <2>1 DEF WindowsOK, Sole
  <1>17. QED
    BY <1>10, <1>11, <1>13, <1>14, <1>15, <1>16

LEMMA AlbumFlush ==
  ASSUME AlbumInv, NEW p \in Parties, Flush(p)
  PROVE  AlbumInv'
  <1> USE DEF AlbumInv
  <1>1. PICK b : b = buffer[p].first
    OBVIOUS
  <1>2. /\ b \in Msgs /\ b \in buffer[p].items /\ Open(p) /\ buffer[p].left = 0
        /\ buffer[p].items \subseteq Msgs
    BY <1>1 DEF Flush, BufferOK, Open, Typed, Buffers
  <1> DEFINE k == ChatOf[b]
             S == buffer[p].items
  <1>3. /\ UNCHANGED <<ladderVars, inbound, current, burst, held, arrived, gone>>
        /\ items' = [items EXCEPT ![b] = S]
        /\ chain' = [chain EXCEPT ![k] = Append(@, b)]
        /\ buffer' = [buffer EXCEPT ![p] = NoBuffer]
    BY <1>1 DEF Flush, socketVars
  <1>4. b \in Turns /\ k \in Chats
    BY <1>2, ChatOfAssumption DEF Msgs
  <1>5. \A m \in S : m \in arrived /\ PartyOf[m] = p /\ \A a \in Turns : m \notin items[a]
    BY DEF BufferOK
  <1>6. turn[b].at = "none"
    BY <1>2, <1>4, <1>5 DEF ItemsOK
  <1>7. /\ items' \in [Turns -> SUBSET Msgs] /\ items'[b] = S
        /\ \A a \in Turns \ {b} : items'[a] = items[a]
    BY <1>2, <1>3, <1>4 DEF Typed
  <1>8. NoBuffer \in Buffers /\ NoBuffer.first = None /\ NoBuffer.items = {}
    BY QuietAssumption DEF NoBuffer, Buffers
  <1>9. /\ buffer' \in [Parties -> Buffers] /\ buffer'[p] = NoBuffer
        /\ \A q \in Parties \ {p} : buffer'[q] = buffer[q]
    BY <1>3, <1>8 DEF Typed
  <1>10. PICK s \in Seq(Turns) : s = chain[k]
    BY <1>4 DEF Typed
  <1>11. PICK t : t = Append(s, b)
    OBVIOUS
  <1>12. /\ t \in Seq(Turns) /\ \A i \in DOMAIN t : t[i] = b \/ (i \in DOMAIN s /\ t[i] = s[i])
    BY <1>4, <1>11
  <1>13. /\ chain' \in [Chats -> Seq(Turns)] /\ chain'[k] = t
         /\ \A c \in Chats \ {k} : chain'[c] = chain[c]
    BY <1>3, <1>4, <1>10, <1>11, <1>12 DEF Typed
  <1>14. Typed'
    BY <1>3, <1>7, <1>9, <1>13 DEF Typed
  <1>15. \A m : Handed(m)' => Handed(m)
    BY <1>4, <1>7, <1>8, <1>9 DEF Handed
  <1>16. InboundOK'
    BY <1>3, <1>15 DEF InboundOK
  <1>17. ASSUME NEW q \in Parties PROVE BufferOK(q)'
    <2>1. CASE q = p
      BY <1>8, <1>9, <2>1 DEF BufferOK, Open
    <2>2. CASE q # p
      <3>1. \A m \in buffer[q].items :
              m \in arrived /\ PartyOf[m] = q /\ \A a \in Turns : m \notin items[a]
        BY DEF BufferOK
      <3>2. \A m \in buffer[q].items : m \notin S
        BY <1>5, <2>2, <3>1
      <3>3. QED
        BY <1>3, <1>7, <1>9, <2>2, <3>1, <3>2 DEF BufferOK, Open
    <2>3. QED
      BY <2>1, <2>2
  <1>18. ItemsOK'
    <2>1. \A a, e \in Turns : \A m \in items'[a] : m \in arrived /\ (m \in items'[e] => a = e)
      BY <1>5, <1>7 DEF ItemsOK
    <2>2. \A a \in Turns : turn[a].at # "none" => a \in items'[a]
      BY <1>2, <1>7 DEF ItemsOK
    <2>3. ASSUME NEW c \in Chats, NEW i \in DOMAIN chain'[c]
          PROVE  chain'[c][i] \in items'[chain'[c][i]]
      <3>1. chain'[c][i] = b \/ (i \in DOMAIN chain[c] /\ chain'[c][i] = chain[c][i])
        BY <1>10, <1>12, <1>13, <2>3
      <3>2. CASE chain'[c][i] = b
        BY <1>2, <1>7, <3>2
      <3>3. CASE chain'[c][i] # b
        <4>1. PICK a \in Turns : a = chain'[c][i] /\ a # b /\ i \in DOMAIN chain[c] /\ a = chain[c][i]
          BY <3>1, <3>3 DEF Typed
        <4>2. a \in items[a]
          BY <4>1 DEF ItemsOK
        <4>3. QED
          BY <1>7, <4>1, <4>2
      <3>4. QED
        BY <3>2, <3>3
    <2>4. QED
      BY <1>3, <2>1, <2>2, <2>3 DEF ItemsOK, ladderVars
  <1>19. BytesOK'
    <2>1. \A a \in Turns : Underway(a)' <=> Underway(a)
      BY <1>3 DEF Underway, ladderVars
    <2>2. ~Underway(b)
      BY <1>6 DEF Underway
    <2>3. \A m : Settled(m)' => Settled(m)
      BY <1>3, <1>6, <1>7 DEF Settled, ladderVars
    <2>4. QED
      BY <1>3, <1>7, <2>1, <2>2, <2>3 DEF BytesOK, ladderVars
  <1>20. WindowsOK'
    BY <1>3, <1>8, <1>9 DEF WindowsOK, Open, Sole
  <1>21. QED
    BY <1>14, <1>16, <1>17, <1>18, <1>19, <1>20

LEMMA AlbumStep ==
  ASSUME AlbumInv, TypeOK, NEW b \in Turns, Step(b)
  PROVE  AlbumInv'
  <1> USE DEF AlbumInv
  <1> DEFINE n == Cardinality(items[b] \cap held)
             over == turn'[b].at = "over"
  <1>1. /\ UNCHANGED <<inbound, current, burst, buffer, items, arrived, gone>>
        /\ AtFront(b) /\ AfterStep(b)
        /\ Dropped(b) \/ Begin(b, n) \/ Climb(b)
    BY DEF Step, socketVars
  <1>2. n \in 0..MaxFiles
    BY FilesBounded DEF Typed, HeldOK
  <1>3. /\ \A a \in Turns \ {b} : turn'[a] = turn[a]
        /\ At(b, "none") \/ Underway(b)
        /\ turn'[b].at \in {"recovering", "ready", "posting", "over"}
        /\ Underway(b)' => turn'[b].size = IF At(b, "none") THEN n ELSE turn[b].size
    BY <1>1, <1>2, TurnMoves
  <1> HIDE DEF n
  <1>4. ChatOf[b] \in Chats
    BY ChatOfAssumption
  <1>5. PICK s \in Seq(Turns) : s = chain[ChatOf[b]]
    BY <1>4 DEF Typed
  <1>6. s # <<>> /\ 1 \in DOMAIN s /\ s[1] = b
    BY <1>1, <1>5 DEF AtFront
  <1>7. b \in items[b]
    <2>1. s[1] \in items[s[1]]
      BY <1>4, <1>5, <1>6 DEF ItemsOK
    <2>2. QED
      BY <1>6, <2>1
  <1>8. PICK t : t = Tail(s)
    OBVIOUS
  <1>9. t \in Seq(Turns) /\ \A i \in DOMAIN t : i + 1 \in DOMAIN s /\ t[i] = s[i + 1]
    BY <1>6, <1>8
  <1>10. \/ chain' = chain
         \/ /\ chain' \in [Chats -> Seq(Turns)] /\ chain'[ChatOf[b]] = t
            /\ \A c \in Chats \ {ChatOf[b]} : chain'[c] = chain[c]
    BY <1>1, <1>4, <1>5, <1>8, <1>9 DEF AfterStep, Typed
  <1>11. \A c \in Chats : \A i \in DOMAIN chain'[c] :
           \E j \in DOMAIN chain[c] : chain'[c][i] = chain[c][j]
    BY <1>5, <1>9, <1>10
  <1>12. held' = (IF over THEN held \ items[b] ELSE held)
    BY <1>1 DEF AfterStep
  <1>13. Typed'
    BY <1>1, <1>10, <1>12 DEF Typed
  <1>14. (\A p \in Parties : BufferOK(p)') /\ \A m : Handed(m)' <=> Handed(m)
    BY <1>1, BuffersStay
  <1>15. InboundOK'
    BY <1>1, <1>14 DEF InboundOK
  <1>16. WindowsOK'
    BY <1>1 DEF WindowsOK, Open, Sole
  <1>17. ItemsOK'
    <2>1. \A a \in Turns : turn'[a].at # "none" => a \in items[a]
      BY <1>3, <1>7 DEF ItemsOK
    <2>2. \A c \in Chats : \A i \in DOMAIN chain'[c] : chain'[c][i] \in items[chain'[c][i]]
      BY <1>11 DEF ItemsOK
    <2>3. QED
      BY <1>1, <2>1, <2>2 DEF ItemsOK
  <1>18. BytesOK'
    <2>1. \A a \in Turns \ {b} : items[a] \cap items[b] = {}
      BY DEF ItemsOK
    <2>2. \A a \in Turns \ {b} : items[a] \cap held' = items[a] \cap held
      BY <1>12, <2>1
    <2>3. ASSUME NEW a \in Turns, Underway(a)'
          PROVE  Cardinality(items'[a] \cap held') = turn'[a].size
      <3>1. CASE a # b
        BY <1>1, <1>3, <2>2, <2>3, <3>1 DEF BytesOK, Underway
      <3>2. CASE a = b
        <4>1. ~over
          BY <2>3, <3>2 DEF Underway
        <4>2. items'[b] \cap held' = items[b] \cap held
          BY <1>1, <1>12, <4>1
        <4>3. turn'[b].size = IF At(b, "none") THEN n ELSE turn[b].size
          BY <1>3, <2>3, <3>2
        <4>4. Underway(b) => turn[b].size = n
          BY DEF BytesOK, n
        <4>5. turn'[b].size = n
          BY <1>3, <4>3, <4>4
        <4>6. QED
          BY <3>2, <4>2, <4>5 DEF n
      <3>3. QED
        BY <3>1, <3>2
    <2>4. ASSUME NEW m \in held', Settled(m)'
          PROVE  FALSE
      <3>1. PICK a \in Turns : m \in items[a] /\ turn'[a].at \in {"over", "dead"}
        BY <1>1, <2>4 DEF Settled
      <3>2. m \in held
        BY <1>12, <2>4
      <3>3. CASE a # b
        BY <1>3, <3>1, <3>2, <3>3 DEF BytesOK, Settled
      <3>4. CASE a = b
        BY <1>3, <1>12, <2>4, <3>1, <3>4
      <3>5. QED
        BY <3>3, <3>4
    <2>5. QED
      BY <2>3, <2>4 DEF BytesOK
  <1>19. QED
    BY <1>13, <1>14, <1>15, <1>16, <1>17, <1>18

LEMMA AlbumTick ==
  ASSUME AlbumInv, Tick
  PROVE  AlbumInv'
  <1> USE DEF AlbumInv
  <1>1. UNCHANGED <<ladderVars, inbound, current, chain, items, held, arrived, gone>>
    BY DEF Tick
  <1>2. PhotoQuiet \in Nat \ {0} /\ \A x \in 0..PhotoQuiet : Less(x) \in 0..PhotoQuiet
    BY QuietAssumption DEF Less
  <1>3. ASSUME NEW p \in Parties
        PROVE  /\ buffer'[p] \in Buffers /\ buffer'[p].first = buffer[p].first
               /\ buffer'[p].items = buffer[p].items
               /\ p \in HeldParty /\ Open(p) => buffer'[p].left > 0
    <2>1. buffer[p] \in Buffers
      BY DEF Typed
    <2>2. PICK r, e : /\ r = [buffer[p] EXCEPT !.left = PhotoQuiet]
                      /\ e = [buffer[p] EXCEPT !.left = Less(@)]
      OBVIOUS
    <2>3. /\ r \in Buffers /\ r.first = buffer[p].first /\ r.items = buffer[p].items
          /\ r.left = PhotoQuiet
      BY <1>2, <2>1, <2>2 DEF Buffers
    <2>4. e \in Buffers /\ e.first = buffer[p].first /\ e.items = buffer[p].items
      BY <1>2, <2>1, <2>2 DEF Buffers
    <2>5. buffer'[p] = IF p \in HeldParty THEN Touched(p)[p] ELSE e
      BY <2>2, Zenon DEF Tick
    <2>6. Touched(p)[p] = IF Open(p) THEN r ELSE buffer[p]
      BY <2>2 DEF Touched, Typed
    <2>7. QED
      BY <1>2, <2>1, <2>3, <2>4, <2>5, <2>6
  <1>4. ASSUME NEW c \in Chats
        PROVE  burst'[c] \in Bursts /\ burst'[c].last = burst[c].last
    <2>1. burst[c] \in Bursts
      BY DEF Typed
    <2>2. PICK r, e : /\ r = [burst[c] EXCEPT !.left = PhotoQuiet]
                      /\ e = [burst[c] EXCEPT !.left = Less(@)]
      OBVIOUS
    <2>3. r \in Bursts /\ r.last = burst[c].last
      BY <1>2, <2>1, <2>2 DEF Bursts
    <2>4. e \in Bursts /\ e.last = burst[c].last
      BY <1>2, <2>1, <2>2 DEF Bursts
    <2>5. burst'[c] \in {r, e}
      BY <2>2, Zenon DEF Tick
    <2>6. QED
      BY <2>3, <2>4, <2>5
  <1>5. buffer' \in [Parties -> Buffers] /\ burst' \in [Chats -> Bursts]
    <2>1. buffer' = [p \in Parties |-> buffer'[p]] /\ burst' = [c \in Chats |-> burst'[c]]
      BY DEF Tick
    <2>2. QED
      BY <1>3, <1>4, <2>1
  <1>6. Typed'
    BY <1>1, <1>5 DEF Typed
  <1>7. ItemsOK' /\ BytesOK'
    BY <1>1, TurnsStay
  <1>8. /\ \A p \in Parties : BufferOK(p)' /\ (Open(p)' <=> Open(p))
        /\ \A m : Handed(m)' <=> Handed(m)
    BY <1>1, <1>3, BuffersStay
  <1>9. InboundOK'
    BY <1>1, <1>8 DEF InboundOK
  <1>10. WindowsOK'
    <2>1. ASSUME NEW p \in Parties, Sole(p), Open(p)
          PROVE  burst'[ChatOf[buffer'[p].first]].last \in buffer'[p].items
      <3>1. ChatOf[buffer[p].first] \in Chats
        BY <2>1, ChatOfAssumption DEF Typed, Buffers, Open, Msgs
      <3>2. burst[ChatOf[buffer[p].first]].last \in buffer[p].items
        BY <2>1 DEF WindowsOK
      <3>3. QED
        BY <1>3, <1>4, <3>1, <3>2
    <2>2. ASSUME NEW p \in Parties, current.at = "downloading", PartyOf[current.msg] = p,
                 Open(p), current.hold
          PROVE  buffer'[p].left > 0
      BY <1>3, <2>2 DEF HeldParty
    <2>3. QED
      BY <1>1, <1>8, <2>1, <2>2 DEF WindowsOK, Sole
  <1>11. QED
    BY <1>6, <1>7, <1>8, <1>9, <1>10

LEMMA AlbumCrash ==
  ASSUME AlbumInv, TypeOK, Crash
  PROVE  AlbumInv'
  <1> USE DEF AlbumInv
  <1>1. /\ inbound' = <<>> /\ current' = Idle /\ items' = items /\ held' = {}
        /\ arrived' = arrived /\ gone' = {m \in arrived : ~Settled(m)}
        /\ burst' = [c \in Chats |-> NoBurst] /\ buffer' = [p \in Parties |-> NoBuffer]
        /\ chain' = [c \in Chats |-> <<>>]
    BY DEF Crash
  <1>2. ASSUME NEW b \in Turns
        PROVE  ~Underway(b)' /\ (turn'[b].at # "none" => turn[b].at # "none")
    <2>1. turn'[b] = IF Underway(b) THEN [turn[b] EXCEPT !.at = "dead"] ELSE turn[b]
      BY DEF Crash, Die
    <2>2. turn[b] \in Turn
      BY DEF TypeOK
    <2>3. [turn[b] EXCEPT !.at = "dead"].at = "dead"
      BY <2>2 DEF Turn
    <2>4. QED
      BY <2>1, <2>3 DEF Underway
  <1>3. /\ NoBuffer \in Buffers /\ NoBuffer.first = None /\ NoBuffer.items = {}
        /\ NoBurst \in Bursts
        /\ Idle \in [msg : Msgs \cup {None}, at : {"idle", "waiting", "downloading"},
                     hold : BOOLEAN]
        /\ Idle.at = "idle" /\ ~Idle.hold
    BY QuietAssumption DEF NoBuffer, Buffers, NoBurst, Bursts, Idle
  <1>4. Typed'
    BY <1>1, <1>3 DEF Typed
  <1>5. \A p \in Parties : ~Open(p)' /\ BufferOK(p)'
    BY <1>1, <1>3 DEF Open, BufferOK
  <1>6. InboundOK' /\ WindowsOK'
    BY <1>1, <1>3, <1>5 DEF InboundOK, WindowsOK
  <1>7. ItemsOK' /\ BytesOK'
    BY <1>1, <1>2 DEF ItemsOK, BytesOK
  <1>8. QED
    BY <1>4, <1>5, <1>6, <1>7

LEMMA AlbumNext ==
  ASSUME AlbumInv, TypeOK, [Next]_vars
  PROVE  AlbumInv'
  <1>1. CASE UNCHANGED vars
    <2>1. UNCHANGED <<ladderVars, inbound, current, burst, buffer, chain, items, held,
                      arrived, gone>>
      BY <1>1 DEF vars, socketVars, routerVars
    <2>2. ItemsOK' /\ BytesOK' /\ (\A p \in Parties : BufferOK(p)')
          /\ (\A m : Handed(m)' <=> Handed(m))
      BY <2>1, TurnsStay, BuffersStay
    <2>3. Typed' /\ InboundOK' /\ WindowsOK'
      BY <2>1, <2>2 DEF AlbumInv, Typed, InboundOK, WindowsOK, Open, Sole
    <2>4. QED
      BY <2>2, <2>3 DEF AlbumInv
  <1>2. QED
    BY <1>1, AlbumArrive, AlbumTake, AlbumWaitEnds, AlbumDownloaded, AlbumFlush, AlbumStep,
       AlbumTick, AlbumCrash DEF Next

LEMMA AlbumInitially == Init => AlbumInv
  <1> SUFFICES ASSUME Init PROVE AlbumInv
    OBVIOUS
  <1>1. /\ NoBuffer \in Buffers /\ NoBuffer.first = None /\ NoBuffer.items = {}
        /\ NoBurst \in Bursts
        /\ Idle \in [msg : Msgs \cup {None}, at : {"idle", "waiting", "downloading"},
                     hold : BOOLEAN]
        /\ Idle.at = "idle" /\ ~Idle.hold
    BY QuietAssumption DEF NoBuffer, Buffers, NoBurst, Bursts, Idle
  <1>2. Typed
    BY <1>1 DEF Init, Typed
  <1>3. \A p \in Parties : ~Open(p) /\ BufferOK(p)
    BY <1>1 DEF Init, Open, BufferOK
  <1>4. InboundOK /\ WindowsOK
    BY <1>1, <1>3 DEF Init, InboundOK, WindowsOK
  <1>5. \A b \in Turns : At(b, "none") /\ ~Underway(b)
    BY DEF Init, LadderInit, NoTurn, At, Underway
  <1>6. ItemsOK /\ BytesOK
    BY <1>5 DEF Init, ItemsOK, BytesOK, At
  <1>7. QED
    BY <1>2, <1>3, <1>4, <1>6 DEF AlbumInv

\* Where each message is, along every behaviour.
THEOREM AlbumInvariant == Spec => [](AlbumInv /\ LadderInv)
  <1>1. AlbumInv /\ LadderInv /\ [Next]_vars => AlbumInv'
    BY AlbumNext DEF LadderInv
  <1>2. QED
    BY <1>1, AlbumInitially, BurstsClimbTheLadder, LadderInvariant, PTL DEF Spec

\* All variables of bursts have their types.
THEOREM BurstTypesAlways == Spec => []BurstTypeOK
  <1>1. AlbumInv /\ LadderInv => BurstTypeOK
    BY DEF AlbumInv, LadderInv, Typed, Bursts, Buffers, BurstTypeOK
  <1>2. QED
    BY <1>1, AlbumInvariant, PTL

\* For any number of chats, parties and photos, downloads of any length and crashes: a
\* turn has its bytes until it has posted them, and no bytes outlive their turn.
THEOREM BytesAlwaysWithTheirAsk == Spec => []BytesWithTheirAsk
  <1>1. AlbumInv => BytesWithTheirAsk
    BY DEF AlbumInv, BytesOK, BytesWithTheirAsk, Underway
  <1>2. QED
    BY <1>1, AlbumInvariant, PTL

\* However long a download lasts and whatever windows are: the buffer it holds, and
\* any buffer of a chat where one party writes, waits for it.
THEOREM AlbumsStayWhole == Spec => AlbumStaysWhole
  <1>1. ASSUME AlbumInv, [Next]_vars, NEW p \in Parties,
               current.at = "downloading", PartyOf[current.msg] = p,
               current.hold \/ Sole(p), Open(p), ~Open(p)'
        PROVE  gone' # gone
    <2>1. current.hold /\ buffer[p].left > 0
      BY <1>1 DEF AlbumInv, WindowsOK
    <2>2. PICK x : /\ x = current.msg /\ x \in arrived \ gone /\ ~Handed(x)
      BY <1>1 DEF AlbumInv, InboundOK
    <2>3. CASE Crash
      <3>1. ~Settled(x)
        BY <2>2 DEF Settled, Handed
      <3>2. x \in gone'
        BY <2>2, <2>3, <3>1 DEF Crash
      <3>3. QED
        BY <2>2, <3>2
    <2>4. ASSUME NEW q \in Parties, Flush(q)
          PROVE  FALSE
      <3>1. CASE q = p
        BY <2>1, <2>4, <3>1 DEF Flush
      <3>2. CASE q # p
        BY <1>1, <2>4, <3>2 DEF Flush, Open, AlbumInv, Typed
      <3>3. QED
        BY <3>1, <3>2
    <2>5. ASSUME NEW b \in Turns, Step(b)
          PROVE  FALSE
      BY <1>1, <2>5 DEF Step, Open
    <2>6. ASSUME NEW m \in Msgs, Arrive(m)
          PROVE  FALSE
      BY <1>1, <2>6 DEF Arrive, routerVars, Open
    <2>7. ~Take /\ ~WaitEnds
      BY <1>1 DEF Take, WaitEnds, Idle
    <2>8. ~Downloaded
      <3>1. ASSUME Downloaded PROVE buffer'[p].first = buffer[p].first
        BY <1>1, <3>1 DEF Downloaded, AlbumInv, Typed, Open
      <3>2. QED
        BY <1>1, <3>1 DEF Open
    <2>9. ~Tick
      <3>1. ASSUME Tick PROVE buffer'[p].first = buffer[p].first
        BY <1>1, <2>1, <3>1 DEF Tick, HeldParty, Touched, AlbumInv, Typed, Buffers
      <3>2. QED
        BY <1>1, <3>1 DEF Open
    <2>10. ~UNCHANGED vars
      BY <1>1 DEF vars, routerVars, Open
    <2>11. QED
      BY <1>1, <2>3, <2>4, <2>5, <2>6, <2>7, <2>8, <2>9, <2>10 DEF Next
  <1>2. AlbumInv /\ [Next]_vars =>
          [\A p \in Parties :
             /\ current.at = "downloading" /\ PartyOf[current.msg] = p
             /\ current.hold \/ Sole(p)
             /\ Open(p) /\ ~Open(p)'
             => gone' # gone]_vars
    BY <1>1
  <1>3. QED
    BY <1>2, AlbumInvariant, PTL DEF Spec, AlbumStaysWhole

===============================================================================
