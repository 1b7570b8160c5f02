---------------------------- MODULE GroupMetaProofs ----------------------------
(***************************************************************************)
(* What the version fence of the group metadata cache guarantees, for any  *)
(* number of lookups, changes of the group, events and restarts; and that  *)
(* an owner is chosen from a roster of the present stay.                   *)
(***************************************************************************)
EXTENDS GroupMeta, TLAPS

-------------------------------------------------------------------------------
(***************************************************************************)
(* The inductive invariant                                                 *)
(***************************************************************************)

\* Nothing is known of a roster WhatsApp has not reached.
OfThePast ==
  /\ known <= roster
  /\ \A i \in DOMAIN wire : wire[i].roster <= roster
  /\ \A l \in Lookups : look[l].since <= roster

\* What a lookup was told with the present fence is no older than what is known.
FenceHolds ==
  \A l \in Lookups :
    look[l].pc = "told" /\ look[l].fence = fence => look[l].told >= known

\* A lookup carries nothing older than what was known when it began.
CarriesCurrent ==
  \A l \in Lookups :
    /\ look[l].cached # None => look[l].cached >= look[l].since
    /\ look[l].pc = "told" => look[l].told >= look[l].since

\* No lookup is ahead of the fence.
FenceGrows == \A l \in Lookups : look[l].fence <= fence

IInv ==
  /\ TypeOK /\ OfThePast /\ FenceHolds /\ CarriesCurrent /\ FenceGrows
  /\ CacheIsCurrent /\ AnswersAreCurrent

-------------------------------------------------------------------------------
(***************************************************************************)
(* Records                                                                 *)
(***************************************************************************)

\* A lookup that has not been told anything, and carries nothing outdated.
Fine(r) ==
  /\ r \in Lookup /\ r.pc # "told" /\ r.fence <= fence /\ r.since <= roster
  /\ r.cached # None => r.cached >= r.since
  /\ r.pc = "done" /\ r.told # None => r.told >= r.since

LEMMA IdleLookup == Idle \in Lookup
  BY DEF Idle, Lookup, None

LEMMA LookupFields ==
  ASSUME NEW r \in Lookup
  PROVE  /\ r.pc \in {"idle", "asked", "told", "refused", "done"} /\ r.chosen \in BOOLEAN
         /\ {r.fence, r.cached, r.told, r.epoch, r.since} \subseteq Nat
  BY DEF Lookup

LEMMA MovedLookup ==
  ASSUME NEW r \in Lookup, NEW n \in Nat
  PROVE  /\ [r EXCEPT !.pc = "refused"] \in Lookup
         /\ [r EXCEPT !.pc = "told", !.told = n] \in Lookup
  BY DEF Lookup

LEMMA EventFields ==
  ASSUME NEW s \in Seq(Event), NEW i \in DOMAIN s
  PROVE  s[i] \in Event /\ s[i].roster \in Nat
  <1>1. s[i] \in Event
    OBVIOUS
  <1>2. QED
    BY <1>1 DEF Event, Rosters

-------------------------------------------------------------------------------
(***************************************************************************)
(* Steps                                                                   *)
(***************************************************************************)

LEMMA InitOK == Init => IInv
  <1> SUFFICES ASSUME Init
               PROVE  IInv
    OBVIOUS
  <1> USE DEF Init
  <1>1. TypeOK
    <2>1. wire \in Seq(Event) /\ look \in [Lookups -> Lookup]
      BY IdleLookup
    <2>2. roster \in Rosters /\ row \in Nat /\ known \in Nat /\ stay \in Nat
      BY DEF Rosters, None
    <2>3. QED
      BY <2>1, <2>2 DEF TypeOK
  <1>2. \A l \in Lookups : look[l] = Idle
    OBVIOUS
  <1>3. OfThePast /\ FenceHolds /\ CarriesCurrent /\ FenceGrows
    BY <1>2 DEF OfThePast, FenceHolds, CarriesCurrent, FenceGrows, Idle, None
  <1>4. CacheIsCurrent /\ AnswersAreCurrent
    BY <1>2 DEF CacheIsCurrent, AnswersAreCurrent, Idle, None, Lookups
  <1>5. QED
    BY <1>1, <1>3, <1>4 DEF IInv

-------------------------------------------------------------------------------
(***************************************************************************)
(* WhatsApp                                                                *)
(***************************************************************************)

\* What WhatsApp sends carries the roster it has then.
LEMMA SendsOK ==
  ASSUME TypeOK, OfThePast, NEW kinds \in Seq(Kinds), NEW n \in Rosters, Sends(kinds, n)
  PROVE  /\ wire' \in Seq(Event)
         /\ \A i \in DOMAIN wire' : wire'[i].roster <= roster \/ wire'[i].roster = n
  <1> DEFINE more == [i \in DOMAIN kinds |-> [kind |-> kinds[i], roster |-> n]]
  <1>0. kinds \in [1..Len(kinds) -> Kinds] /\ Len(kinds) \in Nat
    OBVIOUS
  <1>1. more \in Seq(Event) /\ Len(more) = Len(kinds)
    <2>1. \A i \in 1..Len(kinds) : [kind |-> kinds[i], roster |-> n] \in Event
      BY <1>0 DEF Event
    <2>2. DOMAIN kinds = 1..Len(kinds)
      BY <1>0
    <2>3. more \in [1..Len(kinds) -> Event]
      BY <2>1, <2>2
    <2>4. QED
      BY <1>0, <2>3
  <1>2. wire' = wire \o more /\ wire \in Seq(Event)
    BY DEF Sends, TypeOK
  <1>3. wire' \in Seq(Event)
    BY <1>1, <1>2
  <1>4. ASSUME NEW i \in DOMAIN wire'
        PROVE  wire'[i].roster <= roster \/ wire'[i].roster = n
    <2>1. CASE i <= Len(wire)
      BY <2>1, <1>1, <1>2 DEF OfThePast
    <2>2. CASE i > Len(wire)
      <3>1. i - Len(wire) \in DOMAIN kinds /\ wire'[i] = more[i - Len(wire)]
        BY <2>2, <1>1, <1>2
      <3>2. QED
        BY <3>1
    <2>3. QED
      BY <1>1, <1>2, <2>1, <2>2
  <1>5. QED
    BY <1>3, <1>4

\* A later roster leaves everything as it was.
LEMMA ServerStep ==
  ASSUME IInv, UNCHANGED <<row, present, memory, look, heard, lost, restarts>>,
         roster' \in Rosters, roster <= roster', member' \in BOOLEAN,
         wire' \in Seq(Event),
         \A i \in DOMAIN wire' : wire'[i].roster <= roster'
  PROVE  IInv'
  <1> USE DEF IInv, memory, heard
  <1>1. TypeOK'
    BY DEF TypeOK
  <1>2. OfThePast'
    BY DEF OfThePast, TypeOK, Lookup, Rosters
  <1>3. FenceHolds' /\ CarriesCurrent' /\ FenceGrows'
    BY DEF FenceHolds, CarriesCurrent, FenceGrows
  <1>4. CacheIsCurrent' /\ AnswersAreCurrent'
    BY DEF CacheIsCurrent, AnswersAreCurrent
  <1>5. QED
    BY <1>1, <1>2, <1>3, <1>4

LEMMA WhatsAppStep ==
  ASSUME IInv, ParticipantsChange \/ GroupUpdated \/ AccountAdded \/ AccountRemoved
  PROVE  IInv'
  <1>1. /\ roster \in Nat /\ roster \in Rosters /\ roster + 1 \in Rosters
        /\ member \in BOOLEAN /\ wire \in Seq(Event) /\ TypeOK /\ OfThePast
    BY DEF IInv, TypeOK, Rosters, None
  <1>2. \A i \in DOMAIN wire : wire[i].roster \in Nat /\ wire[i].roster <= roster
    BY <1>1, EventFields DEF OfThePast
  <1>3. ASSUME NEW n \in Rosters, n >= roster, roster' = n, member' \in BOOLEAN,
               wire' = wire \/ \E kinds \in Seq(Kinds) : Sends(kinds, n),
               UNCHANGED <<row, present, memory, look, heard, lost, restarts>>
        PROVE  IInv'
    <2>1. wire' \in Seq(Event)
          /\ \A i \in DOMAIN wire' : wire'[i].roster <= roster \/ wire'[i].roster = n
      BY <1>1, <1>2, <1>3, SendsOK
    <2>2. \A i \in DOMAIN wire' : wire'[i].roster \in Nat
      BY <2>1, EventFields
    <2>3. \A i \in DOMAIN wire' : wire'[i].roster <= roster'
      BY <2>1, <2>2, <1>1, <1>3 DEF Rosters
    <2>4. QED
      BY <1>3, <2>1, <2>3, ServerStep
  <1>4. CASE ParticipantsChange
    <2>1. <<"change">> \in Seq(Kinds)
      BY DEF Kinds
    <2>2. /\ roster' = roster + 1 /\ member' \in BOOLEAN
          /\ row' = row /\ present' = present /\ memory' = memory /\ look' = look
          /\ heard' = heard /\ lost' = lost /\ restarts' = restarts
          /\ wire' = wire \/ Sends(<<"change">>, roster + 1)
      BY <1>1, <1>4 DEF ParticipantsChange
    <2>3. wire' = wire \/ \E kinds \in Seq(Kinds) : Sends(kinds, roster + 1)
      BY <2>1, <2>2
    <2>4. roster + 1 \in Rosters /\ roster + 1 >= roster
      BY <1>1
    <2>5. QED
      BY <1>3, <2>2, <2>3, <2>4
  <1>5. CASE GroupUpdated
    <2>1. <<"update">> \in Seq(Kinds)
      BY DEF Kinds
    <2>2. /\ roster' = roster /\ member' \in BOOLEAN
          /\ row' = row /\ present' = present /\ memory' = memory /\ look' = look
          /\ heard' = heard /\ lost' = lost /\ restarts' = restarts
          /\ Sends(<<"update">>, roster)
      BY <1>1, <1>5 DEF GroupUpdated, server
    <2>3. wire' = wire \/ \E kinds \in Seq(Kinds) : Sends(kinds, roster)
      BY <2>1, <2>2
    <2>4. roster \in Rosters /\ roster >= roster
      BY <1>1
    <2>5. QED
      BY <1>3, <2>2, <2>3, <2>4
  <1>6. CASE AccountAdded
    <2>1. {<<"in">>, <<"upsert">>, <<"in", "upsert">>, <<"upsert", "in">>} \subseteq Seq(Kinds)
      BY DEF Kinds
    <2>2. /\ roster' = roster + 1 /\ member' \in BOOLEAN
          /\ row' = row /\ present' = present /\ memory' = memory /\ look' = look
          /\ heard' = heard /\ lost' = lost /\ restarts' = restarts
          /\ \E kinds \in {<<"in">>, <<"upsert">>, <<"in", "upsert">>, <<"upsert", "in">>} :
             Sends(kinds, roster + 1)
      BY <1>1, <1>6 DEF AccountAdded
    <2>3. wire' = wire \/ \E kinds \in Seq(Kinds) : Sends(kinds, roster + 1)
      BY <2>1, <2>2
    <2>4. roster + 1 \in Rosters /\ roster + 1 >= roster
      BY <1>1
    <2>5. QED
      BY <1>3, <2>2, <2>3, <2>4
  <1>7. CASE AccountRemoved
    <2>1. <<"out">> \in Seq(Kinds)
      BY DEF Kinds
    <2>2. /\ roster' = roster + 1 /\ member' \in BOOLEAN
          /\ row' = row /\ present' = present /\ memory' = memory /\ look' = look
          /\ heard' = heard /\ lost' = lost /\ restarts' = restarts
          /\ Sends(<<"out">>, roster + 1)
      BY <1>1, <1>7 DEF AccountRemoved
    <2>3. wire' = wire \/ \E kinds \in Seq(Kinds) : Sends(kinds, roster + 1)
      BY <2>1, <2>2
    <2>4. roster + 1 \in Rosters /\ roster + 1 >= roster
      BY <1>1
    <2>5. QED
      BY <1>3, <2>2, <2>3, <2>4
  <1>8. QED
    BY <1>4, <1>5, <1>6, <1>7

-------------------------------------------------------------------------------
(***************************************************************************)
(* Lookups                                                                 *)
(***************************************************************************)

LEMMA TellsStep ==
  ASSUME IInv, NEW l \in Lookups, Tells(l) \/ Refuses(l)
  PROVE  IInv'
  <1> USE DEF IInv, Tells, Refuses, server, memory, heard, TypeOK
  <1>1. PICK r \in {[look[l] EXCEPT !.pc = "told", !.told = roster],
                    [look[l] EXCEPT !.pc = "refused"]} : look' = [look EXCEPT ![l] = r]
    OBVIOUS
  <1>2. /\ r \in Lookup /\ r.pc \in {"told", "refused"} /\ r.fence = look[l].fence
        /\ r.cached = look[l].cached /\ r.since = look[l].since
        /\ r.pc = "told" => r.told = roster
    <2>1. look[l] \in Lookup /\ roster \in Nat
      BY DEF Rosters
    <2>2. CASE r = [look[l] EXCEPT !.pc = "refused"]
      BY <2>1, <2>2, MovedLookup DEF Lookup
    <2>3. CASE r = [look[l] EXCEPT !.pc = "told", !.told = roster]
      <3>1. r \in Lookup
        BY <2>1, <2>3, MovedLookup
      <3>2. QED
        BY <2>1, <2>3, <3>1 DEF Lookup
    <2>4. QED
      BY <2>2, <2>3
  <1>3. UNCHANGED <<roster, member, wire, row, present, removed, fence, selfPresent,
                    epoch, known, stay, lost, restarts>>
    OBVIOUS
  <1>4. TypeOK' /\ CacheIsCurrent'
    BY <1>1, <1>2, <1>3 DEF CacheIsCurrent
  <1>5. OfThePast' /\ FenceGrows'
    BY <1>1, <1>2, <1>3 DEF OfThePast, FenceGrows
  <1>6. FenceHolds' /\ CarriesCurrent'
    BY <1>1, <1>2, <1>3 DEF OfThePast, FenceHolds, CarriesCurrent
  <1>7. AnswersAreCurrent'
    BY <1>1, <1>2, <1>3 DEF AnswersAreCurrent, Lookups
  <1>8. QED
    BY <1>4, <1>5, <1>6, <1>7

LEMMA RouteStep ==
  ASSUME IInv, NEW l \in Routes, Route(l)
  PROVE  IInv'
  <1> USE DEF IInv, server, memory, heard, TypeOK, Lookups
  <1>1. PICK r \in {Ended(row, known, TRUE), Asked(fence, row), Ended(None, known, FALSE)} :
          look' = [look EXCEPT ![l] = r]
    BY DEF Route
  <1>2. Fine(r)
    <2>1. known <= roster /\ (row # None => row >= known)
      BY DEF CacheIsCurrent, OfThePast
    <2>2. CASE r = Asked(fence, row)
      <3>1. /\ r = [pc |-> "asked", fence |-> fence, cached |-> row, told |-> None,
                    epoch |-> epoch, since |-> known, chosen |-> FALSE]
        BY <2>2 DEF Asked, Idle
      <3>2. QED
        BY <3>1, <2>1 DEF Lookup, None, Fine
    <2>3. ASSUME NEW n \in {row, None}, NEW chosen \in BOOLEAN, r = Ended(n, known, chosen)
          PROVE  Fine(r)
      <3>1. /\ r = [pc |-> "done", fence |-> 0, cached |-> None, told |-> n, epoch |-> 0,
                    since |-> known, chosen |-> n # None /\ chosen]
        BY <2>3 DEF Ended, Idle
      <3>2. QED
        BY <3>1, <2>1, <2>3 DEF Lookup, None, Fine
    <2>4. QED
      BY <2>2, <2>3
  <1>3. UNCHANGED <<roster, member, wire, row, present, removed, fence, selfPresent,
                    epoch, known, stay, lost, restarts>>
    BY DEF Route
  <1>4. TypeOK' /\ CacheIsCurrent'
    BY <1>1, <1>2, <1>3 DEF CacheIsCurrent, Fine
  <1>5. OfThePast' /\ FenceHolds' /\ CarriesCurrent' /\ FenceGrows' /\ AnswersAreCurrent'
    BY <1>1, <1>2, <1>3
       DEF OfThePast, FenceHolds, CarriesCurrent, FenceGrows, AnswersAreCurrent, Fine
  <1>6. QED
    BY <1>4, <1>5

\* What a lookup stores is current, and so is what it answers.
LEMMA ResumeStep ==
  ASSUME IInv, NEW l \in Lookups, Resume(l)
  PROVE  IInv'
  <1> USE DEF IInv, server, memory, heard, TypeOK
  <1>1. /\ look[l] \in Lookup /\ look[l].pc \in {"told", "refused"}
        /\ row' = Stored(l)
        /\ UNCHANGED <<roster, member, wire, present, removed, fence, selfPresent,
                       epoch, known, stay, lost, restarts>>
    BY DEF Resume
  <1>2. Stored(l) \in Nat
    BY <1>1 DEF Stored, Lookup
  <1>3. CacheIsCurrent'
    BY <1>1 DEF CacheIsCurrent, Stored, Superseded, FenceHolds
  <1>4. /\ Result(l) \in Nat
        /\ Result(l) # None => Result(l) >= look[l].since
    <2>1. CASE look[l].pc = "refused"
      BY <2>1, <1>1 DEF Result, CarriesCurrent, Lookup
    <2>2. CASE look[l].pc = "told" /\ Superseded(l)
      BY <2>2, <1>1 DEF Result, None
    <2>3. CASE look[l].pc = "told" /\ ~Superseded(l)
      BY <2>3, <1>1, <1>2 DEF Result, Stored, CarriesCurrent, CacheIsCurrent, Superseded, None
    <2>4. QED
      BY <1>1, <2>1, <2>2, <2>3
  <1>5. PICK r \in {Ended(Result(l), look[l].since, Available(look[l].epoch)), Idle} :
          look' = [look EXCEPT ![l] = r]
    BY DEF Resume
  <1>6. Fine(r)
    <2>1. look[l].since <= roster /\ look[l].since \in Nat
      BY <1>1, LookupFields DEF OfThePast
    <2>2. CASE r = Idle
      BY <2>2, IdleLookup DEF Fine, Idle, None, Rosters
    <2>3. ASSUME NEW chosen \in BOOLEAN, r = Ended(Result(l), look[l].since, chosen)
          PROVE  Fine(r)
      <3>1. /\ r = [pc |-> "done", fence |-> 0, cached |-> None, told |-> Result(l),
                    epoch |-> 0, since |-> look[l].since,
                    chosen |-> Result(l) # None /\ chosen]
        BY <2>3 DEF Ended, Idle
      <3>2. QED
        BY <3>1, <2>1, <2>3, <1>4 DEF Lookup, None, Fine
    <2>4. QED
      BY <1>5, <2>2, <2>3 DEF Available
  <1>7. TypeOK'
    BY <1>1, <1>2, <1>5, <1>6 DEF Fine
  <1>8. OfThePast' /\ FenceHolds' /\ CarriesCurrent' /\ FenceGrows' /\ AnswersAreCurrent'
    BY <1>1, <1>5, <1>6
       DEF OfThePast, FenceHolds, CarriesCurrent, FenceGrows, AnswersAreCurrent, Fine
  <1>9. QED
    BY <1>3, <1>7, <1>8

-------------------------------------------------------------------------------
(***************************************************************************)
(* Events                                                                  *)
(***************************************************************************)

\* The event handled is one WhatsApp has sent.
LEMMA HandledEvent ==
  ASSUME IInv, Handled
  PROVE  /\ wire' \in Seq(Event)
         /\ \A i \in DOMAIN wire' : wire'[i].roster <= roster
         /\ Next1.roster \in Nat /\ Next1.roster <= roster
  <1>1. wire \in Seq(Event) /\ wire # <<>> /\ wire' = Tail(wire)
    BY DEF IInv, TypeOK, Handled
  <1>2. Next1 = wire[1] /\ 1 \in DOMAIN wire /\ wire[1] \in Event
    BY <1>1 DEF Next1
  <1>3. \A i \in DOMAIN wire' : i + 1 \in DOMAIN wire /\ wire'[i] = wire[i + 1]
    BY <1>1
  <1>4. wire' \in Seq(Event)
    BY <1>1
  <1>5. QED
    BY <1>2, <1>3, <1>4 DEF IInv, OfThePast, Event, Rosters

\* A fetch that is begun has not been told anything.
LEMMA WarmLook ==
  ASSUME TypeOK, NEW f \in Nat, NEW cached \in Nat, look' = look \/ Warm(f, cached)
  PROVE  /\ look' \in [Lookups -> Lookup]
         /\ \A l \in Lookups :
              \/ look'[l] = look[l]
              \/ /\ look'[l].pc = "asked" /\ look'[l].fence = f
                 /\ look'[l].cached = cached /\ look'[l].since = None
  <1> DEFINE a == [Idle EXCEPT !.pc = "asked", !.fence = f, !.cached = cached]
  <1>1. /\ a \in Lookup
        /\ a.pc = "asked" /\ a.fence = f /\ a.cached = cached /\ a.since = None
    BY DEF Idle, Lookup, None
  <1> HIDE DEF a
  <1>2. look' = look \/ \E w \in Lookups : look' = [look EXCEPT ![w] = a]
    BY DEF Warm, Lookups, a
  <1>3. QED
    BY <1>1, <1>2 DEF TypeOK

\* An event with a later fence forgets the row: what was told before is superseded.
LEMMA FencedStep ==
  ASSUME IInv, Handled, fence' = fence + 1, row' = None, known' = Next1.roster,
         stay' \in Nat, present' \in {"unknown", "in", "out"}, epoch' \in Nat,
         removed' \in BOOLEAN, selfPresent' \in BOOLEAN,
         look' = look \/ Warm(fence + 1, None),
         UNCHANGED <<roster, member, lost, restarts>>
  PROVE  IInv'
  <1> USE DEF IInv, TypeOK
  <1>1. /\ wire' \in Seq(Event) /\ known' \in Nat /\ known' <= roster
        /\ \A i \in DOMAIN wire' : wire'[i].roster <= roster
    BY HandledEvent
  <1>2. /\ look' \in [Lookups -> Lookup]
        /\ \A l \in Lookups :
             \/ look'[l] = look[l]
             \/ /\ look'[l].pc = "asked" /\ look'[l].fence = fence + 1
                /\ look'[l].cached = None /\ look'[l].since = None
    BY WarmLook DEF None
  <1>3. TypeOK'
    BY <1>1, <1>2 DEF None
  <1>4. OfThePast'
    BY <1>1, <1>2 DEF OfThePast, None, Rosters
  <1>5. FenceHolds' /\ FenceGrows'
    BY <1>2, LookupFields DEF FenceHolds, FenceGrows
  <1>6. CarriesCurrent'
    BY <1>2 DEF CarriesCurrent
  <1>7. CacheIsCurrent' /\ AnswersAreCurrent'
    BY <1>2 DEF CacheIsCurrent, AnswersAreCurrent, Lookups
  <1>8. QED
    BY <1>3, <1>4, <1>5, <1>6, <1>7

\* An event that leaves the fence alone leaves row and roster alone too.
LEMMA UnfencedStep ==
  ASSUME IInv, Handled, UNCHANGED <<fence, row, known, roster, member, lost, restarts>>,
         stay' \in Nat, present' \in {"unknown", "in", "out"}, epoch' \in Nat,
         removed' \in BOOLEAN, selfPresent' \in BOOLEAN, removed' => removed,
         look' = look \/ Warm(fence, row)
  PROVE  IInv'
  <1> USE DEF IInv, TypeOK
  <1>1. /\ wire' \in Seq(Event)
        /\ \A i \in DOMAIN wire' : wire'[i].roster <= roster
    BY HandledEvent
  <1>2. /\ look' \in [Lookups -> Lookup]
        /\ \A l \in Lookups :
             \/ look'[l] = look[l]
             \/ /\ look'[l].pc = "asked" /\ look'[l].fence = fence
                /\ look'[l].since = None
    BY WarmLook
  <1>3. TypeOK'
    BY <1>1, <1>2
  <1>4. OfThePast'
    BY <1>1, <1>2 DEF OfThePast, None, Rosters
  <1>5. FenceHolds' /\ FenceGrows'
    <2>1. FenceHolds'
      BY <1>2 DEF FenceHolds
    <2>2. FenceGrows'
      BY <1>2 DEF FenceGrows
    <2>3. QED
      BY <2>1, <2>2
  <1>6. CarriesCurrent'
    BY <1>2, LookupFields DEF CarriesCurrent, None
  <1>7. CacheIsCurrent' /\ AnswersAreCurrent'
    BY <1>2 DEF CacheIsCurrent, AnswersAreCurrent, Lookups
  <1>8. QED
    BY <1>3, <1>4, <1>5, <1>6, <1>7

LEMMA EventStep ==
  ASSUME IInv, OnChange \/ OnSelfAdded \/ OnUpsert \/ OnSelfRemoved \/ OnUpdate
  PROVE  IInv'
  <1> USE DEF server, memory, heard
  <1>1. TypeOK
    BY DEF IInv
  <1>2. Handled
    BY DEF OnChange, OnSelfAdded, OnUpsert, OnSelfRemoved, OnUpdate
  <1>3. Next1.roster \in Nat
    BY <1>2, HandledEvent
  <1>4. CASE OnChange
    BY <1>1, <1>2, <1>4, FencedStep DEF OnChange, TypeOK
  <1>5. CASE OnSelfAdded
    BY <1>1, <1>2, <1>3, <1>5, FencedStep DEF OnSelfAdded, SelfAdded, TypeOK
  <1>6. CASE OnUpsert
    BY <1>1, <1>2, <1>3, <1>6, UnfencedStep DEF OnUpsert, SelfAdded, TypeOK
  <1>7. CASE OnSelfRemoved
    <2>1. /\ fence' = fence + 1 /\ row' = None /\ known' = Next1.roster
          /\ look' = look /\ UNCHANGED <<roster, member, lost, restarts>>
      BY <1>7 DEF OnSelfRemoved
    <2>2. /\ stay' \in Nat /\ present' \in {"unknown", "in", "out"} /\ epoch' \in Nat
          /\ removed' \in BOOLEAN /\ selfPresent' \in BOOLEAN
      <3>1. removed' = TRUE /\ selfPresent' = FALSE
        BY <1>7 DEF OnSelfRemoved
      <3>2. stay' = Next1.roster /\ present' = "out" /\ epoch' = epoch + 1
        BY <1>7 DEF OnSelfRemoved
      <3>3. removed' \in BOOLEAN /\ selfPresent' \in BOOLEAN
        BY <3>1, Zenon
      <3>4. stay' \in Nat /\ present' \in {"unknown", "in", "out"} /\ epoch' \in Nat
        BY <3>2, <1>1, <1>3 DEF TypeOK
      <3>5. QED
        BY <3>3, <3>4
    <2>3. QED
      BY <1>2, <2>1, <2>2, FencedStep
  <1>8. CASE OnUpdate
    BY <1>1, <1>2, <1>8, UnfencedStep DEF OnUpdate, TypeOK
  <1>9. QED
    BY <1>4, <1>5, <1>6, <1>7, <1>8

LEMMA RestartStep ==
  ASSUME IInv, Restart
  PROVE  IInv'
  <1> USE DEF IInv, Restart, server, heard
  <1>1. \A l \in Lookups : look'[l] = Idle
    BY DEF TypeOK
  <1>2. wire' \in Seq(Event) /\ \A i \in DOMAIN wire' : wire'[i].roster <= roster
    <2>1. CASE wire' = wire
      BY <2>1 DEF TypeOK, OfThePast
    <2>2. CASE wire' = <<>>
      BY <2>2
    <2>3. QED
      BY <2>1, <2>2
  <1>3. TypeOK'
    <2>1. removed' \in BOOLEAN /\ selfPresent' \in BOOLEAN /\ fence' = 0 /\ epoch' = 0
      BY Zenon
    <2>2. look' \in [Lookups -> Lookup] /\ restarts' \in Nat
      BY IdleLookup DEF TypeOK
    <2>3. lost' \in BOOLEAN
      BY DEF TypeOK
    <2>4. UNCHANGED <<roster, member, row, present, known, stay>>
      OBVIOUS
    <2>5. QED
      BY <1>2, <2>1, <2>2, <2>3, <2>4 DEF TypeOK
  <1>4. OfThePast'
    BY <1>1, <1>2 DEF OfThePast, TypeOK, Idle, None, Rosters
  <1>5. FenceHolds' /\ CarriesCurrent' /\ FenceGrows'
    BY <1>1 DEF FenceHolds, CarriesCurrent, FenceGrows, Idle
  <1>6. CacheIsCurrent' /\ AnswersAreCurrent'
    BY <1>1 DEF CacheIsCurrent, AnswersAreCurrent, Idle, Lookups
  <1>7. QED
    BY <1>3, <1>4, <1>5, <1>6

-------------------------------------------------------------------------------
(***************************************************************************)
(* Theorems                                                                *)
(***************************************************************************)

\* The fence keeps everything the cache or a lookup carries current: the inductive
\* invariant holds of every reachable state.
THEOREM FenceInvariant == Spec => []IInv
  <1>1. Init => IInv
    BY InitOK
  <1>2. IInv /\ [Next]_vars => IInv'
    <2> SUFFICES ASSUME IInv, [Next]_vars
                 PROVE  IInv'
      OBVIOUS
    <2>1. CASE UNCHANGED vars
      BY <2>1 DEF vars, server, memory, heard, IInv, TypeOK, OfThePast, FenceHolds,
                  CarriesCurrent, FenceGrows, CacheIsCurrent, AnswersAreCurrent
    <2>2. QED
      BY <2>1, WhatsAppStep, TellsStep, RouteStep, ResumeStep, EventStep, RestartStep
         DEF Next
  <1>3. QED
    BY <1>1, <1>2, PTL DEF Spec

\* The cache never holds a roster older than one the process was told of, and
\* nothing of a group it has left, whatever fetches overlap which events.
THEOREM CacheIsCurrentAlways == Spec => []CacheIsCurrent
  <1>1. IInv => CacheIsCurrent
    BY DEF IInv
  <1>2. QED
    BY <1>1, FenceInvariant, PTL

\* No lookup answers the router with less than was known when it began.
THEOREM AnswersAreCurrentAlways == Spec => []AnswersAreCurrent
  <1>1. IInv => AnswersAreCurrent
    BY DEF IInv
  <1>2. QED
    BY <1>1, FenceInvariant, PTL

-------------------------------------------------------------------------------
(***************************************************************************)
(* The stay an owner is chosen in                                          *)
(***************************************************************************)

Adds == {"in", "upsert"}

\* What may still be served: the cached row, and what a lookup was told with the
\* present fence.
Serves(n) ==
  \/ n = row /\ n # None
  \/ \E l \in Lookups : look[l].pc = "told" /\ look[l].fence = fence /\ look[l].told = n

\* Behind a removal comes an add, and an add comes behind a removal or is the other
\* half of the add before it.  A member's last event is no removal.
WireOK ==
  /\ \A i \in DOMAIN wire : i + 1 \in DOMAIN wire =>
       /\ wire[i].kind = "out" => wire[i+1].kind \in Adds
       /\ wire[i+1].kind \in Adds =>
            wire[i].kind = "out" \/ (wire[i].kind \in Adds /\ wire[i].roster = wire[i+1].roster)
  /\ wire # <<>> => (member <=> wire[Len(wire)].kind # "out")

\* An add that is next begins a stay, and all that may be served is of that stay; or
\* it is the other half of one that was handled.
AddNext ==
  wire # <<>> /\ Head(wire).kind \in Adds =>
    IF present = "in" THEN Head(wire).roster = stay
    ELSE \A n \in Nat : Serves(n) => n >= Head(wire).roster

\* Outside the group and with all of it handled nothing may be served.
Outside ==
  wire = <<>> /\ ~member => present # "in" /\ \A n \in Nat : ~Serves(n)

\* What may be served is of the present stay, and so is what a lookup of the router
\* carries whose membership has not changed.
OfThisStay ==
  /\ \A n \in Nat : Serves(n) => n >= stay
  /\ \A l \in Routes :
       /\ look[l].pc \in {"asked", "told", "refused"} /\ look[l].epoch = epoch /\ present # "out"
       => look[l].cached = None \/ look[l].cached >= stay

\* A lookup under way is of no later epoch, and nothing is chosen from it yet.
UnderWay ==
  \A l \in Lookups :
    /\ look[l].epoch <= epoch
    /\ look[l].pc \in {"asked", "told", "refused"} => ~look[l].chosen

StayInv ==
  /\ WireOK /\ UnderWay /\ stay <= roster
  /\ ~lost => AddNext /\ Outside /\ OfThisStay

\* A message from WhatsApp behind those that wait.
LEMMA SentFields ==
  ASSUME wire \in Seq(Event), NEW kinds \in Seq(Kinds), NEW n \in Rosters, Sends(kinds, n)
  PROVE  /\ Len(wire') = Len(wire) + Len(kinds) /\ DOMAIN wire' = 1..Len(wire')
         /\ \A i \in DOMAIN wire : wire'[i] = wire[i]
         /\ \A j \in 1..Len(kinds) :
              wire'[Len(wire) + j].kind = kinds[j] /\ wire'[Len(wire) + j].roster = n
  <1> DEFINE more == [i \in DOMAIN kinds |-> [kind |-> kinds[i], roster |-> n]]
  <1>1. kinds \in [1..Len(kinds) -> Kinds] /\ Len(kinds) \in Nat /\ DOMAIN kinds = 1..Len(kinds)
    OBVIOUS
  <1>2. \A i \in 1..Len(kinds) : [kind |-> kinds[i], roster |-> n] \in Event
    BY <1>1 DEF Event
  <1>3. more \in Seq(Event) /\ Len(more) = Len(kinds)
    <2>1. more \in [1..Len(kinds) -> Event]
      BY <1>1, <1>2
    <2>2. QED
      BY <1>1, <2>1
  <1>4. \A j \in 1..Len(kinds) : more[j].kind = kinds[j] /\ more[j].roster = n
    BY <1>1
  <1> HIDE DEF more
  <1>5. wire' = wire \o more
    BY DEF Sends, more
  <1>6. Len(wire) \in Nat /\ DOMAIN wire = 1..Len(wire)
    OBVIOUS
  <1>7. Len(wire') = Len(wire) + Len(kinds) /\ DOMAIN wire' = 1..Len(wire')
    BY <1>1, <1>3, <1>5
  <1>8. \A i \in DOMAIN wire : wire'[i] = wire[i]
    BY <1>3, <1>5, <1>6
  <1>9. \A j \in 1..Len(kinds) : wire'[Len(wire) + j] = more[j]
    BY <1>1, <1>3, <1>5, <1>6
  <1>10. QED
    BY <1>4, <1>7, <1>8, <1>9

\* WhatsApp tells members of changes, and others of their being added.
LEMMA SendsInOrder ==
  ASSUME IInv, StayInv, NEW kinds \in Seq(Kinds), NEW n \in Rosters, Sends(kinds, n),
         kinds # <<>>, kinds[1] \in Adds <=> ~member,
         \A i \in DOMAIN kinds : i > 1 => kinds[i] \in Adds /\ kinds[i-1] \in Adds,
         member' <=> kinds[Len(kinds)] # "out",
         roster <= roster', roster' \in Nat,
         UNCHANGED <<row, present, memory, look, heard, lost>>
  PROVE  StayInv'
  <1> USE DEF StayInv, memory, heard
  <1>1. wire \in Seq(Event) /\ Len(wire) \in Nat /\ DOMAIN wire = 1..Len(wire)
    BY DEF IInv, TypeOK
  <1>2. Len(kinds) \in Nat \ {0} /\ DOMAIN kinds = 1..Len(kinds)
    OBVIOUS
  <1>3. /\ Len(wire') = Len(wire) + Len(kinds) /\ DOMAIN wire' = 1..Len(wire')
        /\ \A i \in DOMAIN wire : wire'[i] = wire[i]
        /\ \A j \in 1..Len(kinds) :
             wire'[Len(wire) + j].kind = kinds[j] /\ wire'[Len(wire) + j].roster = n
    BY <1>1, SentFields
  <1>4. WireOK'
    <2>1. ASSUME NEW i \in DOMAIN wire', i + 1 \in DOMAIN wire'
          PROVE  /\ wire'[i].kind = "out" => wire'[i+1].kind \in Adds
                 /\ wire'[i+1].kind \in Adds =>
                      \/ wire'[i].kind = "out"
                      \/ wire'[i].kind \in Adds /\ wire'[i].roster = wire'[i+1].roster
      <3>1. CASE i + 1 \in DOMAIN wire
        BY <1>1, <1>3, <2>1, <3>1 DEF WireOK
      <3>2. CASE i = Len(wire)
        <4>1. i \in DOMAIN wire /\ wire # <<>>
          BY <1>1, <1>3, <2>1, <3>2
        <4>2. wire'[i] = wire[Len(wire)] /\ wire'[i+1].kind = kinds[1]
          BY <1>1, <1>2, <1>3, <3>2, <4>1
        <4>3. QED
          BY <4>1, <4>2 DEF WireOK
      <3>3. CASE i > Len(wire)
        <4>1. PICK j \in 1..Len(kinds) : i = Len(wire) + j
          BY <1>1, <1>2, <1>3, <2>1, <3>3
        <4>2. j + 1 \in 1..Len(kinds)
          BY <1>1, <1>2, <1>3, <2>1, <4>1
        <4>3. /\ wire'[i].kind = kinds[j] /\ wire'[i].roster = n
              /\ wire'[i+1].kind = kinds[j+1] /\ wire'[i+1].roster = n
          BY <1>1, <1>2, <1>3, <4>1, <4>2
        <4>4. kinds[j+1] \in Adds /\ kinds[j] \in Adds
          <5>1. j + 1 \in DOMAIN kinds /\ j + 1 > 1 /\ (j + 1) - 1 = j
            BY <1>2, <4>2
          <5>2. kinds[j+1] \in Adds /\ kinds[(j + 1) - 1] \in Adds
            BY <5>1
          <5>3. QED
            BY <5>1, <5>2
        <4>5. QED
          BY <4>3, <4>4 DEF Adds
      <3>4. QED
        BY <1>1, <1>3, <2>1, <3>1, <3>2, <3>3
    <2>2. wire'[Len(wire')].kind = kinds[Len(kinds)]
      BY <1>1, <1>2, <1>3
    <2>3. QED
      BY <2>1, <2>2 DEF WireOK
  <1>5. UnderWay' /\ stay' <= roster'
    BY DEF UnderWay, IInv, TypeOK, Rosters
  <1>6. \A m \in Nat : Serves(m)' <=> Serves(m)
    BY DEF Serves
  <1>7. wire' # <<>> /\ Head(wire') = wire'[1]
    BY <1>1, <1>2, <1>3
  <1>8. ~lost' => AddNext'
    <2>1. CASE wire # <<>>
      <3>1. Head(wire') = Head(wire)
        <4>1. 1 \in DOMAIN wire /\ Head(wire) = wire[1]
          BY <1>1, <2>1
        <4>2. QED
          BY <1>3, <1>7, <4>1
      <3>2. QED
        BY <1>6, <2>1, <3>1 DEF AddNext
    <2>2. CASE wire = <<>>
      <3>1. Head(wire').kind = kinds[1]
        BY <1>1, <1>2, <1>3, <1>7, <2>2
      <3>2. QED
        BY <1>6, <2>2, <3>1 DEF AddNext, Outside
    <2>3. QED
      BY <2>1, <2>2
  <1>9. ~lost' => Outside' /\ OfThisStay'
    BY <1>6, <1>7 DEF Outside, OfThisStay
  <1>10. QED
    BY <1>4, <1>5, <1>8, <1>9

LEMMA SendsOne ==
  ASSUME IInv, StayInv, NEW kind \in Kinds, NEW n \in Rosters, Sends(<<kind>>, n),
         kind \in Adds <=> ~member, member' <=> kind # "out",
         roster <= roster', roster' \in Nat,
         UNCHANGED <<row, present, memory, look, heard, lost>>
  PROVE  StayInv'
  <1> DEFINE kinds == <<kind>>
  <1>1. /\ kinds \in Seq(Kinds) /\ kinds # <<>> /\ Len(kinds) = 1
        /\ kinds[1] = kind /\ DOMAIN kinds = 1..1
    OBVIOUS
  <1>2. Sends(kinds, n)
    OBVIOUS
  <1> HIDE DEF kinds
  <1>3. \A i \in DOMAIN kinds : i > 1 => kinds[i] \in Adds /\ kinds[i-1] \in Adds
    BY <1>1
  <1>4. kinds[1] \in Adds <=> ~member
    BY <1>1
  <1>5. member' <=> kinds[Len(kinds)] # "out"
    BY <1>1
  <1>6. QED
    BY <1>1, <1>2, <1>3, <1>4, <1>5, SendsInOrder

LEMMA WhatsAppStays ==
  ASSUME IInv, StayInv, ParticipantsChange \/ GroupUpdated \/ AccountAdded \/ AccountRemoved
  PROVE  StayInv'
  <1>1. roster \in Nat /\ roster \in Rosters /\ roster + 1 \in Rosters /\ member \in BOOLEAN
    BY DEF IInv, TypeOK, Rosters, None
  <1>2. CASE ParticipantsChange /\ member
    <2>1. "change" \in Kinds
      BY DEF Kinds
    <2>2. /\ Sends(<<"change">>, roster + 1) /\ roster' = roster + 1 /\ (member' <=> "change" # "out")
          /\ UNCHANGED <<row, present, memory, look, heard, lost>>
          /\ "change" \in Adds <=> ~member
      BY <1>2 DEF ParticipantsChange, Adds
    <2>3. roster <= roster' /\ roster' \in Nat
      BY <1>1, <2>2
    <2>4. QED
      BY <1>1, <2>1, <2>2, <2>3, SendsOne
  <1>3. CASE ParticipantsChange /\ ~member
    <2>1. UNCHANGED <<member, wire, row, present, look, fence, epoch, stay, lost>>
      BY <1>3 DEF ParticipantsChange, memory, heard
    <2>2. \A n \in Nat : Serves(n)' <=> Serves(n)
      BY <2>1 DEF Serves
    <2>3. roster' = roster + 1 /\ stay \in Nat
      BY <1>3 DEF ParticipantsChange, IInv, TypeOK
    <2>4. WireOK' /\ UnderWay' /\ stay' <= roster'
      BY <1>1, <2>1, <2>3 DEF StayInv, WireOK, UnderWay
    <2>5. ~lost' => AddNext' /\ Outside' /\ OfThisStay'
      BY <2>1, <2>2 DEF StayInv, AddNext, Outside, OfThisStay
    <2>6. QED
      BY <2>4, <2>5 DEF StayInv
  <1>4. CASE GroupUpdated
    <2>1. "update" \in Kinds
      BY DEF Kinds
    <2>2. /\ Sends(<<"update">>, roster) /\ roster' = roster /\ (member' <=> "update" # "out")
          /\ UNCHANGED <<row, present, memory, look, heard, lost>>
          /\ "update" \in Adds <=> ~member
      BY <1>4 DEF GroupUpdated, server, Adds
    <2>3. QED
      BY <1>1, <2>1, <2>2, SendsOne
  <1>5. CASE AccountAdded
    <2>1. PICK kinds \in {<<"in">>, <<"upsert">>, <<"in", "upsert">>, <<"upsert", "in">>} :
            Sends(kinds, roster + 1)
      BY <1>5 DEF AccountAdded
    <2>2. /\ kinds \in Seq(Kinds) /\ kinds # <<>>
          /\ \A i \in DOMAIN kinds : kinds[i] \in Adds
          /\ kinds[1] \in Adds /\ kinds[Len(kinds)] \in Adds
      <3>1. {"in", "upsert"} \subseteq Kinds
        BY DEF Kinds
      <3>2. ASSUME NEW a \in Adds
            PROVE  /\ <<a>> \in Seq(Kinds) /\ <<a>> # <<>> /\ DOMAIN <<a>> = 1..1
                   /\ <<a>>[1] = a /\ Len(<<a>>) = 1
        BY <3>1 DEF Adds
      <3>3. ASSUME NEW a \in Adds, NEW b \in Adds
            PROVE  /\ <<a, b>> \in Seq(Kinds) /\ <<a, b>> # <<>> /\ DOMAIN <<a, b>> = 1..2
                   /\ <<a, b>>[1] = a /\ <<a, b>>[2] = b /\ Len(<<a, b>>) = 2
        BY <3>1 DEF Adds
      <3>4. CASE \E a \in Adds : kinds = <<a>>
        BY <3>2, <3>4
      <3>5. CASE \E a, b \in Adds : kinds = <<a, b>>
        BY <3>3, <3>5
      <3>6. QED
        BY <3>4, <3>5 DEF Adds
    <2>3. \A i \in DOMAIN kinds : i > 1 => kinds[i] \in Adds /\ kinds[i-1] \in Adds
      BY <2>2
    <2>4. QED
      BY <1>1, <1>5, <2>1, <2>2, <2>3, SendsInOrder DEF AccountAdded, Adds
  <1>6. CASE AccountRemoved
    <2>1. "out" \in Kinds
      BY DEF Kinds
    <2>2. /\ Sends(<<"out">>, roster + 1) /\ roster' = roster + 1 /\ (member' <=> "out" # "out")
          /\ UNCHANGED <<row, present, memory, look, heard, lost>>
          /\ "out" \in Adds <=> ~member
      BY <1>6 DEF AccountRemoved, Adds
    <2>3. roster <= roster' /\ roster' \in Nat
      BY <1>1, <2>2
    <2>4. QED
      BY <1>1, <2>1, <2>2, <2>3, SendsOne
  <1>7. QED
    BY <1>1, <1>2, <1>3, <1>4, <1>5, <1>6

\* A step of a lookup: it serves what was served, or what WhatsApp tells it now.
LEMMA ServesNow ==
  ASSUME IInv, StayInv, UNCHANGED <<wire, member, roster, present, stay, lost>>,
         \A n \in Nat : Serves(n)' => Serves(n) \/ (n = roster /\ member)
  PROVE  /\ WireOK' /\ stay' <= roster'
         /\ ~lost' => AddNext' /\ Outside' /\ \A n \in Nat : Serves(n)' => n >= stay
  <1> USE DEF StayInv
  <1>1. WireOK' /\ stay' <= roster'
    BY DEF WireOK
  <1>2. wire # <<>> => Head(wire).roster <= roster
    <2>1. wire \in Seq(Event)
      BY DEF IInv, TypeOK
    <2>2. wire # <<>> => 1 \in DOMAIN wire /\ Head(wire) = wire[1]
      BY <2>1
    <2>3. QED
      BY <2>2 DEF IInv, OfThePast
  <1>3. roster \in Nat /\ stay \in Nat
    BY DEF IInv, TypeOK, Rosters
  <1>4. ASSUME ~lost, wire # <<>>, Head(wire).kind \in Adds, present # "in",
               NEW n \in Nat, Serves(n)'
        PROVE  n >= Head(wire).roster
    BY <1>2, <1>4 DEF AddNext
  <1>5. ~lost' => AddNext'
    BY <1>4 DEF AddNext
  <1>6. ~lost' => Outside'
    BY DEF Outside
  <1>7. ~lost' => \A n \in Nat : Serves(n)' => n >= stay
    BY <1>3 DEF OfThisStay
  <1>8. QED
    BY <1>1, <1>5, <1>6, <1>7

LEMMA TellsStays ==
  ASSUME IInv, StayInv, NEW l \in Lookups, Tells(l) \/ Refuses(l)
  PROVE  StayInv'
  <1> USE DEF server, memory, heard
  <1>1. look \in [Lookups -> Lookup] /\ look[l] \in Lookup /\ roster \in Nat
    BY DEF IInv, TypeOK, Rosters
  <1>2. UNCHANGED <<roster, member, wire, row, present, removed, fence, epoch, stay, lost>>
    BY DEF Tells, Refuses
  <1>3. /\ look[l].pc = "asked"
        /\ \/ member /\ look' = [look EXCEPT ![l].pc = "told", ![l].told = roster]
           \/ look' = [look EXCEPT ![l].pc = "refused"]
    BY DEF Tells, Refuses
  <1>4. /\ \A k \in Lookups \ {l} : look'[k] = look[k]
        /\ look'[l].epoch = look[l].epoch /\ look'[l].cached = look[l].cached
        /\ look'[l].chosen = look[l].chosen
        /\ \/ look'[l].pc = "told" /\ look'[l].told = roster /\ member
           \/ look'[l].pc = "refused"
    BY <1>1, <1>3 DEF Lookup
  <1>5. \A n \in Nat : Serves(n)' => Serves(n) \/ (n = roster /\ member)
    <2>1. ASSUME NEW n \in Nat, NEW k \in Lookups,
                 look'[k].pc = "told", look'[k].fence = fence, look'[k].told = n
          PROVE  Serves(n) \/ (n = roster /\ member)
      BY <1>4, <2>1 DEF Serves
    <2>2. QED
      BY <1>2, <2>1 DEF Serves
  <1>6. UnderWay'
    BY <1>2, <1>3, <1>4 DEF StayInv, UnderWay
  <1>7. ~lost' => \A k \in Routes :
          look'[k].pc \in {"asked", "told", "refused"} /\ look'[k].epoch = epoch' /\ present' # "out"
          => look'[k].cached = None \/ look'[k].cached >= stay'
    BY <1>2, <1>3, <1>4 DEF StayInv, OfThisStay, Lookups
  <1>8. QED
    BY <1>2, <1>5, <1>6, <1>7, ServesNow DEF StayInv, OfThisStay

LEMMA EndedLookup ==
  ASSUME NEW n \in Nat, NEW k \in Nat, NEW chosen \in BOOLEAN, NEW r, r = Ended(n, k, chosen)
  PROVE  /\ r.pc = "done" /\ r.epoch = 0 /\ r.told = n
         /\ r.chosen => n # None /\ chosen
  <1>1. r = [pc |-> "done", fence |-> 0, cached |-> None, told |-> n, epoch |-> 0,
             since |-> k, chosen |-> n # None /\ chosen]
    BY DEF Ended, Idle
  <1>2. r.pc = "done" /\ r.epoch = 0 /\ r.told = n
    BY <1>1
  <1>3. CASE ~(n # None /\ chosen)
    <2>1. r = [pc |-> "done", fence |-> 0, cached |-> None, told |-> n, epoch |-> 0,
               since |-> k, chosen |-> FALSE]
      BY <1>1, <1>3
    <2>2. r.chosen = FALSE
      BY <2>1
    <2>3. QED
      BY <1>2, <2>2
  <1>4. QED
    BY <1>2, <1>3

LEMMA ResultFields ==
  ASSUME IInv, NEW l \in Lookups, look[l].pc \in {"told", "refused"}
  PROVE  Result(l) \in Nat /\ look[l].since \in Nat
  <1>1. look[l] \in Lookup /\ row \in Nat /\ None \in Nat
    BY DEF IInv, TypeOK, None
  <1>2. look[l].told \in Nat /\ look[l].cached \in Nat /\ look[l].since \in Nat
    BY <1>1, LookupFields
  <1>3. Stored(l) \in Nat
    BY <1>1, <1>2 DEF Stored
  <1>4. QED
    BY <1>1, <1>2, <1>3 DEF Result

LEMMA RouteStays ==
  ASSUME IInv, StayInv, NEW l \in Routes, Route(l)
  PROVE  StayInv'
  <1> USE DEF server, memory, heard
  <1>1. /\ look \in [Lookups -> Lookup] /\ row \in Nat /\ epoch \in Nat /\ known \in Nat
        /\ l \in Lookups /\ None \in Nat
    BY DEF IInv, TypeOK, Lookups, None
  <1>2. UNCHANGED <<roster, member, wire, row, present, removed, fence, epoch, stay, lost>>
    BY DEF Route
  <1>3. PICK r \in {Ended(row, known, TRUE), Asked(fence, row), Ended(None, known, FALSE)} :
          look' = [look EXCEPT ![l] = r]
    BY DEF Route
  <1>4. /\ r.epoch \in {0, epoch} /\ r.pc \in {"asked", "done"}
        /\ r.pc = "asked" => r.cached = row /\ ~r.chosen
    <2>1. CASE r = Asked(fence, row)
      <3>1. r = [pc |-> "asked", fence |-> fence, cached |-> row, told |-> None,
                 epoch |-> epoch, since |-> known, chosen |-> FALSE]
        BY <2>1 DEF Asked, Idle
      <3>2. QED
        BY <3>1
    <2>2. ASSUME NEW n \in Nat, NEW chosen \in BOOLEAN, r = Ended(n, known, chosen)
          PROVE  r.epoch = 0 /\ r.pc = "done"
      BY <1>1, <2>2, EndedLookup
    <2>3. QED
      BY <1>1, <1>3, <2>1, <2>2
  <1>5. \A k \in Lookups : look'[k] = IF k = l THEN r ELSE look[k]
    BY <1>1, <1>3
  <1>6. \A n \in Nat : Serves(n)' => Serves(n)
    <2>1. ASSUME NEW k \in Lookups, look'[k].pc = "told"
          PROVE  look'[k] = look[k]
      BY <1>4, <1>5, <2>1
    <2>2. QED
      BY <1>2, <2>1 DEF Serves
  <1>7. UnderWay'
    BY <1>1, <1>2, <1>4, <1>5 DEF StayInv, UnderWay
  <1>8. ~lost' => \A k \in Routes :
          look'[k].pc \in {"asked", "told", "refused"} /\ look'[k].epoch = epoch' /\ present' # "out"
          => look'[k].cached = None \/ look'[k].cached >= stay'
    <2>1. ~lost => row = None \/ row >= stay
      BY <1>1 DEF StayInv, OfThisStay, Serves
    <2>2. QED
      BY <1>2, <1>4, <1>5, <2>1 DEF StayInv, OfThisStay, Lookups
  <1>9. QED
    BY <1>2, <1>6, <1>7, <1>8, ServesNow DEF StayInv, OfThisStay

LEMMA ResumeStays ==
  ASSUME IInv, StayInv, NEW l \in Lookups, Resume(l)
  PROVE  StayInv'
  <1> USE DEF server, memory, heard
  <1>1. look \in [Lookups -> Lookup] /\ look[l].pc \in {"told", "refused"} /\ epoch \in Nat
    BY DEF IInv, TypeOK, Resume
  <1>2. /\ UNCHANGED <<roster, member, wire, present, removed, fence, epoch, stay, lost>>
        /\ row' = Stored(l)
    BY DEF Resume
  <1>3. PICK r \in {Ended(Result(l), look[l].since, Available(look[l].epoch)), Idle} :
          look' = [look EXCEPT ![l] = r]
    BY DEF Resume
  <1>4. r.epoch = 0 /\ r.pc \in {"idle", "done"}
    <2>1. CASE r = Idle
      BY <2>1 DEF Idle
    <2>2. CASE r = Ended(Result(l), look[l].since, Available(look[l].epoch))
      <3>1. Result(l) \in Nat /\ look[l].since \in Nat
        BY <1>1, ResultFields
      <3>2. Available(look[l].epoch) \in BOOLEAN
        BY DEF Available
      <3>3. QED
        BY <2>2, <3>1, <3>2, EndedLookup
    <2>3. QED
      BY <2>1, <2>2, <1>3
  <1>5. \A k \in Lookups : look'[k] = IF k = l THEN r ELSE look[k]
    BY <1>1, <1>3
  <1>6. \A n \in Nat : Serves(n)' => Serves(n)
    <2>1. ASSUME NEW k \in Lookups, look'[k].pc = "told"
          PROVE  look'[k] = look[k]
      BY <1>4, <1>5, <2>1
    <2>2. row' # None => Serves(row')
      BY <1>2 DEF Serves, Stored, Superseded
    <2>3. QED
      BY <1>2, <2>1, <2>2 DEF Serves
  <1>7. UnderWay'
    BY <1>1, <1>2, <1>4, <1>5 DEF StayInv, UnderWay
  <1>8. ~lost' => \A k \in Routes :
          look'[k].pc \in {"asked", "told", "refused"} /\ look'[k].epoch = epoch' /\ present' # "out"
          => look'[k].cached = None \/ look'[k].cached >= stay'
    BY <1>2, <1>4, <1>5 DEF StayInv, OfThisStay, Lookups
  <1>9. QED
    BY <1>2, <1>6, <1>7, <1>8, ServesNow DEF StayInv, OfThisStay

\* What is behind the event that is handled.
LEMMA HandledInOrder ==
  ASSUME IInv, StayInv, Handled, member' = member
  PROVE  /\ WireOK'
         /\ wire' # <<>> /\ Head(wire').kind \in Adds =>
              \/ Next1.kind = "out"
              \/ Next1.kind \in Adds /\ Next1.roster = Head(wire').roster
         /\ wire' = <<>> /\ ~member => Next1.kind = "out"
  <1>1. wire \in Seq(Event) /\ wire # <<>> /\ wire' = Tail(wire) /\ Next1 = wire[1]
    BY DEF IInv, TypeOK, Handled, Next1
  <1>2. /\ DOMAIN wire = 1..Len(wire) /\ Len(wire) \in Nat \ {0}
        /\ Len(wire') = Len(wire) - 1 /\ DOMAIN wire' = 1..Len(wire')
        /\ \A i \in DOMAIN wire' : i + 1 \in DOMAIN wire /\ wire'[i] = wire[i+1]
    BY <1>1
  <1>3. WireOK
    BY DEF StayInv
  <1>4. \A i \in DOMAIN wire' : i + 1 \in DOMAIN wire' =>
          /\ wire'[i].kind = "out" => wire'[i+1].kind \in Adds
          /\ wire'[i+1].kind \in Adds =>
               \/ wire'[i].kind = "out"
               \/ wire'[i].kind \in Adds /\ wire'[i].roster = wire'[i+1].roster
    BY <1>2, <1>3 DEF WireOK
  <1>5. wire' # <<>> => wire'[Len(wire')] = wire[Len(wire)]
    BY <1>1, <1>2
  <1>6. WireOK'
    BY <1>1, <1>3, <1>4, <1>5 DEF WireOK
  <1>7. ASSUME wire' # <<>>, Head(wire').kind \in Adds
        PROVE  \/ Next1.kind = "out"
               \/ Next1.kind \in Adds /\ Next1.roster = Head(wire').roster
    <2>1. 1 \in DOMAIN wire' /\ Head(wire') = wire'[1] /\ wire'[1] = wire[2]
      BY <1>1, <1>2, <1>7
    <2>2. 1 \in DOMAIN wire /\ 1 + 1 \in DOMAIN wire
      BY <1>2, <2>1
    <2>3. /\ wire[1].kind = "out" => wire[1+1].kind \in Adds
          /\ wire[1+1].kind \in Adds =>
               wire[1].kind = "out" \/ (wire[1].kind \in Adds /\ wire[1].roster = wire[1+1].roster)
      BY <1>3, <2>2 DEF WireOK
    <2>4. 1 + 1 = 2
      OBVIOUS
    <2>5. QED
      BY <1>1, <1>7, <2>1, <2>3, <2>4
  <1>8. wire' = <<>> => Len(wire) = 1
    <2>1. Len(wire) - 1 = Len(wire') /\ Len(wire) \in Nat
      BY <1>2
    <2>2. wire' = <<>> => Len(wire') = 0
      OBVIOUS
    <2>3. QED
      BY <2>1, <2>2
  <1>9. QED
    BY <1>1, <1>3, <1>6, <1>7, <1>8 DEF WireOK

\* A fetch that an event begins is no lookup of the router.
LEMMA WarmIsNoRoute ==
  ASSUME TypeOK, NEW f \in Nat, NEW cached \in Nat, look' = look \/ Warm(f, cached),
         UnderWay, epoch' \in Nat, epoch <= epoch'
  PROVE  /\ \A l \in Routes : look'[l] = look[l]
         /\ \A l \in Lookups : look'[l].pc = "told" => look'[l] = look[l]
         /\ UnderWay'
  <1> DEFINE a == [Idle EXCEPT !.pc = "asked", !.fence = f, !.cached = cached]
  <1>1. a.pc = "asked" /\ a.epoch = 0 /\ ~a.chosen
    BY DEF Idle
  <1> HIDE DEF a
  <1>2. look' = look \/ \E w \in Warmups : look' = [look EXCEPT ![w] = a]
    BY DEF Warm, a
  <1>3. look \in [Lookups -> Lookup] /\ epoch \in Nat
    BY DEF TypeOK
  <1>4. \A l \in Lookups : look'[l] = look[l] \/ (l \in Warmups /\ look'[l] = a)
    BY <1>2, <1>3 DEF Lookups
  <1>5. \A l \in Routes : look'[l] = look[l]
    BY <1>4, LookupsAssumption DEF Lookups
  <1>6. \A l \in Lookups : look[l].epoch \in Nat
    BY <1>3, LookupFields
  <1>7. UnderWay'
    BY <1>1, <1>3, <1>4, <1>6 DEF UnderWay
  <1>8. QED
    BY <1>1, <1>4, <1>5, <1>7

\* With a later fence and no row nothing is served.
LEMMA NothingServed ==
  ASSUME IInv, fence' = fence + 1, row' = None,
         \A l \in Lookups : look'[l].pc = "told" => look'[l] = look[l]
  PROVE  \A n \in Nat : ~Serves(n)'
  <1>1. \A l \in Lookups : look[l].fence <= fence /\ look[l].fence \in Nat /\ fence \in Nat
    BY LookupFields DEF IInv, TypeOK, FenceGrows
  <1>2. \A l \in Lookups : look'[l].pc = "told" => look'[l].fence # fence'
    BY <1>1
  <1>3. QED
    BY <1>2 DEF Serves

\* The account is added, or the other half of that is heard.
LEMMA AddedStays ==
  ASSUME IInv, StayInv, OnSelfAdded \/ OnUpsert
  PROVE  StayInv'
  <1> USE DEF server, memory, heard
  <1>1. TypeOK /\ fence \in Nat /\ row \in Nat /\ epoch \in Nat /\ stay \in Nat
    BY DEF IInv, TypeOK
  <1>2. /\ Handled /\ Next1.kind \in Adds /\ stay' = Next1.roster /\ present' = "in"
        /\ epoch' = (IF present = "in" THEN epoch ELSE epoch + 1)
        /\ UNCHANGED <<roster, member, lost>>
    BY DEF OnSelfAdded, OnUpsert, SelfAdded, Adds
  <1>3. wire # <<>> /\ Next1 = Head(wire)
    BY <1>2 DEF Handled, Next1
  <1>4. look' = look \/ \E f \in Nat, cached \in Nat : Warm(f, cached)
    <2>1. CASE OnSelfAdded
      BY <1>1, <2>1 DEF OnSelfAdded, None
    <2>2. CASE OnUpsert
      BY <2>2 DEF OnUpsert
    <2>3. QED
      BY <2>1, <2>2
  <1>5. /\ \A l \in Routes : look'[l] = look[l]
        /\ \A l \in Lookups : look'[l].pc = "told" => look'[l] = look[l]
        /\ UnderWay'
    <2>1. UnderWay /\ epoch' \in Nat /\ epoch <= epoch'
      BY <1>1, <1>2 DEF StayInv
    <2>2. QED
      BY <1>1, <1>4, <2>1, WarmIsNoRoute
  <1>6. /\ WireOK'
        /\ wire' # <<>> /\ Head(wire').kind \in Adds => Head(wire').roster = stay'
        /\ wire' = <<>> => member
    BY <1>2, HandledInOrder DEF Adds
  <1>7. stay' <= roster'
    BY <1>2, HandledEvent
  <1>8. \A n \in Nat : Serves(n)' => Serves(n)
    <2>1. CASE OnSelfAdded
      <3>1. fence' = fence + 1 /\ row' = None
        BY <2>1 DEF OnSelfAdded
      <3>2. QED
        BY <1>5, <3>1, NothingServed
    <2>2. CASE OnUpsert
      BY <2>2 DEF OnUpsert, Serves
    <2>3. QED
      BY <2>1, <2>2
  <1>9. CASE lost
    BY <1>2, <1>5, <1>6, <1>7, <1>9 DEF StayInv
  <1>10. CASE ~lost
    <2>1. AddNext' /\ Outside'
      BY <1>2, <1>6 DEF AddNext, Outside
    <2>2. CASE present = "in"
      <3>1. stay' = stay /\ epoch' = epoch
        BY <1>2, <1>3, <1>10, <2>2 DEF StayInv, AddNext
      <3>2. QED
        BY <1>5, <1>6, <1>7, <1>8, <1>10, <2>1, <2>2, <3>1 DEF StayInv, OfThisStay
    <2>3. CASE present # "in"
      <3>1. \A n \in Nat : Serves(n)' => n >= stay'
        BY <1>2, <1>3, <1>8, <1>10, <2>3 DEF StayInv, AddNext
      <3>2. \A l \in Routes : look'[l].epoch # epoch'
        <4>1. \A l \in Routes : look[l].epoch <= epoch /\ look[l].epoch \in Nat
          BY <1>1, LookupFields DEF StayInv, UnderWay, Lookups, TypeOK
        <4>2. QED
          BY <1>1, <1>2, <1>5, <2>3, <4>1
      <3>3. QED
        BY <1>5, <1>6, <1>7, <2>1, <3>1, <3>2 DEF StayInv, OfThisStay
    <2>4. QED
      BY <2>2, <2>3
  <1>11. QED
    BY <1>9, <1>10

LEMMA EventStays ==
  ASSUME IInv, StayInv, OnChange \/ OnSelfAdded \/ OnUpsert \/ OnSelfRemoved \/ OnUpdate
  PROVE  StayInv'
  <1> USE DEF server, memory, heard
  <1>1. TypeOK /\ fence \in Nat /\ row \in Nat /\ epoch \in Nat /\ stay \in Nat /\ UnderWay
    BY DEF IInv, TypeOK, StayInv
  <1>2. CASE OnSelfAdded \/ OnUpsert
    BY <1>2, AddedStays
  <1>3. CASE OnSelfRemoved
    <2>1. /\ Handled /\ Next1.kind = "out" /\ look' = look /\ fence' = fence + 1 /\ row' = None
          /\ present' = "out" /\ epoch' = epoch + 1 /\ stay' = Next1.roster
          /\ UNCHANGED <<roster, member, lost>>
      BY <1>3 DEF OnSelfRemoved
    <2>2. WireOK' /\ stay' <= roster'
      BY <2>1, HandledInOrder, HandledEvent
    <2>3. UnderWay'
      <3>1. \A l \in Lookups : look[l].epoch \in Nat
        BY <1>1, LookupFields DEF TypeOK
      <3>2. QED
        BY <1>1, <2>1, <3>1 DEF UnderWay
    <2>4. \A n \in Nat : ~Serves(n)'
      BY <2>1, NothingServed
    <2>5. AddNext' /\ Outside' /\ OfThisStay'
      BY <2>1, <2>4 DEF AddNext, Outside, OfThisStay
    <2>6. QED
      BY <2>2, <2>3, <2>5 DEF StayInv
  <1>4. CASE OnChange \/ OnUpdate
    <2>1. /\ Handled /\ Next1.kind \in {"change", "update"}
          /\ UNCHANGED <<roster, member, present, epoch, stay, lost>>
      BY <1>4 DEF OnChange, OnUpdate
    <2>2. look' = look \/ \E f \in Nat, cached \in Nat : Warm(f, cached)
      <3>1. CASE OnChange
        BY <1>1, <3>1 DEF OnChange, None
      <3>2. CASE OnUpdate
        BY <1>1, <3>2 DEF OnUpdate
      <3>3. QED
        BY <1>4, <3>1, <3>2
    <2>3. /\ \A l \in Routes : look'[l] = look[l]
          /\ \A l \in Lookups : look'[l].pc = "told" => look'[l] = look[l]
          /\ UnderWay'
      <3>1. epoch' \in Nat /\ epoch <= epoch'
        BY <1>1, <2>1
      <3>2. QED
        BY <1>1, <2>2, <3>1, WarmIsNoRoute
    <2>4. /\ WireOK' /\ (wire' # <<>> => Head(wire').kind \notin Adds)
          /\ wire' = <<>> => member
      BY <2>1, HandledInOrder DEF Adds
    <2>5. \A n \in Nat : Serves(n)' => Serves(n)
      <3>1. CASE OnChange
        BY <2>3, <3>1, NothingServed DEF OnChange
      <3>2. CASE OnUpdate
        BY <2>3, <3>2 DEF OnUpdate, Serves
      <3>3. QED
        BY <1>4, <3>1, <3>2
    <2>6. ~lost' => AddNext' /\ Outside' /\ OfThisStay'
      BY <2>1, <2>3, <2>4, <2>5 DEF StayInv, AddNext, Outside, OfThisStay
    <2>7. QED
      BY <2>1, <2>3, <2>4, <2>6 DEF StayInv
  <1>5. QED
    BY <1>2, <1>3, <1>4

LEMMA RestartStays ==
  ASSUME IInv, StayInv, Restart
  PROVE  StayInv'
  <1> USE DEF server, heard
  <1>1. /\ UNCHANGED <<roster, member, row, present, stay>> /\ epoch' = 0
        /\ look' = [l \in Lookups |-> Idle]
        /\ UNCHANGED <<wire, lost>> \/ (wire' = <<>> /\ lost')
    BY DEF Restart
  <1>2. UnderWay'
    BY <1>1 DEF UnderWay, Idle
  <1>3. \A n \in Nat : Serves(n)' => Serves(n)
    BY <1>1 DEF Serves, Idle
  <1>4. WireOK' /\ stay' <= roster'
    BY <1>1 DEF StayInv, WireOK
  <1>5. ~lost' => AddNext' /\ Outside' /\ OfThisStay'
    BY <1>1, <1>3 DEF StayInv, AddNext, Outside, OfThisStay, Idle, Lookups
  <1>6. QED
    BY <1>2, <1>4, <1>5 DEF StayInv

\* What may be served is of the present stay, unless events were lost: the inductive
\* invariant, over that of the fence.
THEOREM StayInvariant == Spec => []StayInv
  <1>1. Init => StayInv
    <2> SUFFICES ASSUME Init
                 PROVE  StayInv
      OBVIOUS
    <2> USE DEF Init
    <2>1. \A l \in Lookups : look[l].pc = "idle" /\ look[l].epoch = 0
      BY DEF Idle
    <2>2. \A n \in Nat : ~Serves(n)
      BY <2>1 DEF Serves
    <2>3. WireOK /\ UnderWay /\ stay <= roster
      BY <2>1 DEF WireOK, UnderWay, None
    <2>4. AddNext /\ Outside /\ OfThisStay
      BY <2>1, <2>2 DEF AddNext, Outside, OfThisStay, Lookups
    <2>5. QED
      BY <2>3, <2>4 DEF StayInv
  <1>2. IInv /\ StayInv /\ [Next]_vars => StayInv'
    <2> SUFFICES ASSUME IInv, StayInv, [Next]_vars
                 PROVE  StayInv'
      OBVIOUS
    <2>1. CASE UNCHANGED vars
      <3>1. UNCHANGED <<roster, member, wire, row, present, fence, epoch, look, stay, lost>>
        BY <2>1 DEF vars, server, memory, heard
      <3>2. QED
        BY <3>1 DEF StayInv, WireOK, UnderWay, AddNext, Outside, OfThisStay, Serves
    <2>2. QED
      BY <2>1, WhatsAppStays, TellsStays, RouteStays, ResumeStays, EventStays, RestartStays
         DEF Next
  <1>3. QED
    BY <1>1, <1>2, FenceInvariant, PTL DEF Spec

\* What a lookup answers the router with, when the router goes on with it.
LEMMA ChosenIsOfThisStay ==
  ASSUME IInv, StayInv, ~lost, NEW l \in Routes, Route(l) \/ Resume(l), look'[l].chosen
  PROVE  look'[l].told >= stay
  <1>1. /\ look \in [Lookups -> Lookup] /\ l \in Lookups /\ row \in Nat
        /\ look[l] \in Lookup /\ OfThisStay
    BY DEF IInv, TypeOK, Lookups, StayInv
  <1>2. row # None => row >= stay
    BY <1>1 DEF OfThisStay, Serves
  <1>3. CASE Route(l)
    <2>1. PICK r \in {Ended(row, known, TRUE), Asked(fence, row), Ended(None, known, FALSE)} :
            look' = [look EXCEPT ![l] = r]
      BY <1>3 DEF Route
    <2>2. r.chosen => r.told = row /\ row # None
      <3>1. CASE r = Asked(fence, row)
        BY <3>1 DEF Asked, Idle
      <3>2. CASE r = Ended(row, known, TRUE) \/ r = Ended(None, known, FALSE)
        <4>1. known \in Nat /\ None \in Nat
          BY DEF IInv, TypeOK, None
        <4>2. PICK n \in {row, None}, c \in BOOLEAN : r = Ended(n, known, c) /\ (n = None \/ n = row)
          BY <3>2
        <4>3. r.told = n /\ (r.chosen => n # None)
          BY <1>1, <4>1, <4>2, EndedLookup
        <4>4. QED
          BY <4>2, <4>3
      <3>3. QED
        BY <3>1, <3>2
    <2>3. QED
      BY <1>1, <1>2, <2>1, <2>2
  <1>4. CASE Resume(l)
    <2>1. /\ look[l].pc \in {"told", "refused"}
          /\ look' = [look EXCEPT ![l] =
               Ended(Result(l), look[l].since, Available(look[l].epoch))]
      BY <1>4 DEF Resume
    <2>2. look'[l] = Ended(Result(l), look[l].since, Available(look[l].epoch))
      BY <1>1, <2>1
    <2>3. /\ look'[l].told = Result(l) /\ Result(l) # None
          /\ look[l].epoch = epoch /\ present # "out"
      <3>1. Result(l) \in Nat /\ look[l].since \in Nat
        BY <1>1, <2>1, ResultFields
      <3>2. Available(look[l].epoch) \in BOOLEAN
        BY DEF Available
      <3>3. /\ look'[l].told = Result(l)
            /\ look'[l].chosen => Result(l) # None /\ Available(look[l].epoch)
        BY <2>2, <3>1, <3>2, EndedLookup
      <3>4. QED
        BY <3>3 DEF Available
    <2>4. CASE look[l].pc = "refused"
      BY <1>1, <2>3, <2>4 DEF Result, OfThisStay
    <2>5. CASE look[l].pc = "told" /\ ~Superseded(l)
      <3>1. Serves(look[l].told) /\ look[l].told \in Nat
        BY <1>1, <2>5, LookupFields DEF Serves, Superseded
      <3>2. Result(l) \in {look[l].told, row}
        BY <2>5 DEF Result, Stored
      <3>3. QED
        BY <1>1, <1>2, <2>3, <3>1, <3>2 DEF OfThisStay
    <2>6. CASE look[l].pc = "told" /\ Superseded(l)
      BY <2>3, <2>6 DEF Result
    <2>7. QED
      BY <2>1, <2>4, <2>5, <2>6
  <1>5. QED
    BY <1>3, <1>4

\* An owner is chosen from a roster of the present stay, for any lookups, events,
\* removals and restarts.
THEOREM OwnersAreOfThisStay == Spec => OwnerIsOfThisStay
  <1>1. ASSUME IInv, StayInv, [Next]_vars, NEW l \in Routes,
               look'[l] # look[l], look'[l].chosen, ~lost
        PROVE  look'[l].told >= stay
    <2> USE DEF server, memory, heard
    <2>1. TypeOK /\ look \in [Lookups -> Lookup] /\ l \in Lookups /\ UnderWay /\ look[l] \in Lookup
      BY <1>1 DEF IInv, TypeOK, Lookups, StayInv
    <2>2. CASE Route(l) \/ Resume(l)
      BY <1>1, <2>2, ChosenIsOfThisStay
    <2>3. CASE Tells(l) \/ Refuses(l)
      <3>1. look[l].pc = "asked" /\ look'[l].chosen = look[l].chosen
        <4>1. /\ look[l].pc = "asked"
              /\ \/ look' = [look EXCEPT ![l].pc = "told", ![l].told = roster]
                 \/ look' = [look EXCEPT ![l].pc = "refused"]
          BY <2>3 DEF Tells, Refuses
        <4>2. QED
          BY <2>1, <4>1 DEF Lookup
      <3>2. QED
        BY <1>1, <2>1, <3>1 DEF UnderWay
    <2>4. CASE \E k \in Lookups \ {l} :
                 Tells(k) \/ Refuses(k) \/ Resume(k) \/ (k \in Routes /\ Route(k))
      <3>1. PICK k \in Lookups \ {l} :
              Tells(k) \/ Refuses(k) \/ Resume(k) \/ (k \in Routes /\ Route(k))
        BY <2>4
      <3>2. look'[l] = look[l]
        BY <2>1, <3>1 DEF Tells, Refuses, Resume, Route
      <3>3. QED
        BY <1>1, <3>2
    <2>5. CASE OnChange \/ OnSelfAdded \/ OnUpsert \/ OnSelfRemoved \/ OnUpdate
      <3>1. look' = look \/ \E w \in Warmups : \E r : look' = [look EXCEPT ![w] = r]
        BY <2>5 DEF OnChange, OnSelfAdded, OnUpsert, OnSelfRemoved, OnUpdate, Warm
      <3>2. look'[l] = look[l]
        BY <2>1, <3>1, LookupsAssumption
      <3>3. QED
        BY <1>1, <3>2
    <2>6. CASE Restart
      BY <1>1, <2>1, <2>6 DEF Restart, Idle
    <2>7. CASE ParticipantsChange \/ GroupUpdated \/ AccountAdded \/ AccountRemoved
               \/ UNCHANGED vars
      BY <1>1, <2>7 DEF ParticipantsChange, GroupUpdated, AccountAdded, AccountRemoved, vars
    <2>8. QED
      BY <1>1, <2>1, <2>2, <2>3, <2>4, <2>5, <2>6, <2>7 DEF Next, Lookups
  <1>2. IInv /\ StayInv /\ [Next]_vars =>
          [\A l \in Routes :
             look'[l] # look[l] /\ look'[l].chosen /\ ~lost => look'[l].told >= stay]_vars
    BY <1>1
  <1>3. QED
    BY <1>2, FenceInvariant, StayInvariant, PTL DEF Spec, OwnerIsOfThisStay

===============================================================================
