------------------------------- MODULE GroupMeta -------------------------------
(***************************************************************************)
(* whatsapp/groupMeta.ts for one group, with the handlers of               *)
(* whatsapp/socket.ts that keep it current and the lookups of              *)
(* routing/inboundRouter.ts that choose a group's owner from it.           *)
(*                                                                         *)
(* A roster is known by its number: WhatsApp counts up with every change   *)
(* of the participants.  An event carries the number it was sent with.  A  *)
(* lookup that asks WhatsApp is under way between two steps, while events  *)
(* are handled; whether a cached row is within its TTL is left open, so a  *)
(* row is served or fetched anew at will.                                  *)
(*                                                                         *)
(* Not told apart: subjects, phones, and who of a roster becomes owner.    *)
(***************************************************************************)
EXTENDS Naturals, Sequences

CONSTANTS
  Routes,      \* lookups of the router, one per batch under way
  Warmups,     \* fetches that events may have under way
  MaxRoster,   \* bound on the changes of the group
  MaxWire,     \* bound on the events under way
  MaxRestarts  \* bound on the restarts of the process

ASSUME LookupsAssumption == Routes \cap Warmups = {}
ASSUME BoundsAssumption == {MaxRoster, MaxWire, MaxRestarts} \subseteq Nat

Lookups == Routes \cup Warmups

\* Rosters are numbered from 1; where there is none, 0 stands.
None == 0
Rosters == Nat \ {None}

VARIABLES
  roster,       \* WhatsApp: the number of the present roster
  member,       \* WhatsApp: the account is in the group
  wire,         \* events WhatsApp has sent and the process has not handled
  row,          \* the cached roster in whatsapp_group_metadata
  present,      \* the membership row: "unknown", "in" or "out"
  removed,      \* GroupMetaStore.removed has the group
  fence,        \* GroupMetaStore.versions of the group
  selfPresent,  \* the socket's selfPresent of the group is TRUE
  epoch,        \* the router's membership epoch of the group
  look,         \* look[l]: the lookup l
  known,        \* the roster of the latest participant event handled
  stay,         \* the roster of the latest membership event handled
  lost,         \* a restart has lost an event
  restarts

server == <<roster, member>>
memory == <<removed, fence, selfPresent, epoch>>
heard == <<known, stay>>
vars == <<server, wire, row, present, memory, look, heard, lost, restarts>>

Kinds == {"change", "in", "upsert", "out", "update"}
Event == [kind : Kinds, roster : Rosters]

\* A lookup: where it stands, the fence and the row it began with, what it was
\* told, the epoch of the message it is for, and, to judge it, what was known
\* when it began and whether an owner was chosen from it.
Lookup == [pc : {"idle", "asked", "told", "refused", "done"}, fence : Nat,
           cached : Nat, told : Nat, epoch : Nat, since : Nat, chosen : BOOLEAN]
Idle == [pc |-> "idle", fence |-> 0, cached |-> None, told |-> None, epoch |-> 0,
         since |-> None, chosen |-> FALSE]

TypeOK ==
  /\ roster \in Rosters /\ member \in BOOLEAN
  /\ wire \in Seq(Event)
  /\ row \in Nat
  /\ present \in {"unknown", "in", "out"}
  /\ removed \in BOOLEAN /\ fence \in Nat /\ selfPresent \in BOOLEAN /\ epoch \in Nat
  /\ look \in [Lookups -> Lookup]
  /\ known \in Nat /\ stay \in Nat
  /\ lost \in BOOLEAN /\ restarts \in Nat

Init ==
  /\ roster = 1 /\ member \in BOOLEAN
  /\ wire = <<>>
  /\ row = None
  /\ present = "unknown"
  /\ removed = FALSE /\ fence = 0 /\ selfPresent = FALSE /\ epoch = 0
  /\ look = [l \in Lookups |-> Idle]
  /\ known = None /\ stay = None
  /\ lost = FALSE /\ restarts = 0

-------------------------------------------------------------------------------
(***************************************************************************)
(* WhatsApp                                                                *)
(***************************************************************************)

Sends(kinds, n) ==
  /\ Len(wire) + Len(kinds) <= MaxWire
  /\ wire' = wire \o [i \in DOMAIN kinds |-> [kind |-> kinds[i], roster |-> n]]

\* Somebody else joins or leaves; only members are told.
ParticipantsChange ==
  /\ roster < MaxRoster
  /\ roster' = roster + 1
  /\ IF member THEN Sends(<<"change">>, roster + 1) ELSE wire' = wire
  /\ UNCHANGED <<member, row, present, memory, look, heard, lost, restarts>>

\* A new subject or the like.
GroupUpdated ==
  /\ member
  /\ Sends(<<"update">>, roster)
  /\ UNCHANGED <<server, row, present, memory, look, heard, lost, restarts>>

\* The account is added: a participant event, a groups.upsert, or both.
AccountAdded ==
  /\ ~member /\ roster < MaxRoster
  /\ roster' = roster + 1 /\ member' = TRUE
  /\ \E kinds \in {<<"in">>, <<"upsert">>, <<"in", "upsert">>, <<"upsert", "in">>} :
       Sends(kinds, roster + 1)
  /\ UNCHANGED <<row, present, memory, look, heard, lost, restarts>>

AccountRemoved ==
  /\ member /\ roster < MaxRoster
  /\ roster' = roster + 1 /\ member' = FALSE
  /\ Sends(<<"out">>, roster + 1)
  /\ UNCHANGED <<row, present, memory, look, heard, lost, restarts>>

\* sock.groupMetadata() gets its answer, unless the account is not a member.
Tells(l) ==
  /\ look[l].pc = "asked" /\ member
  /\ look' = [look EXCEPT ![l].pc = "told", ![l].told = roster]
  /\ UNCHANGED <<server, wire, row, present, memory, heard, lost, restarts>>

\* It is refused or lost.
Refuses(l) ==
  /\ look[l].pc = "asked"
  /\ look' = [look EXCEPT ![l].pc = "refused"]
  /\ UNCHANGED <<server, wire, row, present, memory, heard, lost, restarts>>

-------------------------------------------------------------------------------
(***************************************************************************)
(* readOrFetch()                                                           *)
(***************************************************************************)

\* Its request, with the fence and the cached row it leaves with.
Asked(f, cached) == [Idle EXCEPT !.pc = "asked", !.fence = f, !.cached = cached,
                                 !.epoch = epoch, !.since = known]

\* Mutant of Superseded: the fence is not looked at.
NeverSuperseded(l) == FALSE

\* The group was invalidated while the request was under way.
Superseded(l) == look[l].fence # fence

\* upsert() behind the await: nothing of a group that was left.
Stored(l) ==
  IF look[l].pc = "told" /\ ~Superseded(l) /\ ~removed THEN look[l].told ELSE row

\* What the await leads to: nothing when superseded, the stored row, or the row
\* it began with, "stale rather than nothing".
Result(l) ==
  CASE look[l].pc = "refused" -> look[l].cached
    [] look[l].pc = "told" /\ Superseded(l) -> None
    [] look[l].pc = "told" /\ ~Superseded(l) -> Stored(l)

\* Mutant of Available: membership is not looked at behind the await.
AlwaysAvailable(e) == TRUE

\* available() of inboundRouter.ts, for a message of epoch e.
Available(e) == e = epoch /\ present # "out"

\* A lookup of the router that began with k known and ends with roster n.
Ended(n, k, chosen) ==
  [Idle EXCEPT !.pc = "done", !.told = n, !.since = k, !.chosen = n # None /\ chosen]

\* A batch resolves its destination: the cached row does, or WhatsApp is asked.
Route(l) ==
  /\ look[l].pc \in {"idle", "done"} /\ present # "out"
  /\ \/ /\ row # None /\ ~removed
        /\ look' = [look EXCEPT ![l] = Ended(row, known, TRUE)]
     \/ /\ ~removed
        /\ look' = [look EXCEPT ![l] = Asked(fence, row)]
     \/ \* no socket, or the group was left
        look' = [look EXCEPT ![l] = Ended(None, known, FALSE)]
  /\ UNCHANGED <<server, wire, row, present, memory, heard, lost, restarts>>

\* Behind the await, for the router and for an event.
Resume(l) ==
  /\ look[l].pc \in {"told", "refused"}
  /\ row' = Stored(l)
  /\ look' = [look EXCEPT ![l] = 
       IF l \in Routes
       THEN Ended(Result(l), look[l].since, Available(look[l].epoch))
       ELSE Idle]
  /\ UNCHANGED <<server, wire, present, memory, heard, lost, restarts>>

-------------------------------------------------------------------------------
(***************************************************************************)
(* Events                                                                  *)
(***************************************************************************)

Next1 == Head(wire)
Handled == wire # <<>> /\ wire' = Tail(wire)

\* A fetch that nobody waits for.
Warm(f, cached) ==
  \E w \in Warmups :
    /\ look[w].pc = "idle"
    /\ look' = [look EXCEPT ![w] = [Idle EXCEPT !.pc = "asked", !.fence = f,
                                               !.cached = cached]]

\* group-participants.update of others: invalidate(), and a fetch unless the
\* group was left.
OnChange ==
  /\ Handled /\ Next1.kind = "change"
  /\ fence' = fence + 1
  /\ row' = None
  /\ known' = Next1.roster
  /\ \/ removed /\ look' = look
     \/ ~removed /\ Warm(fence + 1, None)
  /\ UNCHANGED <<server, present, removed, selfPresent, epoch, stay, lost, restarts>>

\* onSelfMembership("add") of socket and router: an add that is already known is
\* passed on and changes nothing.
SelfAdded ==
  /\ selfPresent' = TRUE
  /\ removed' = (removed /\ selfPresent)
  /\ epoch' = IF present = "in" THEN epoch ELSE epoch + 1
  /\ present' = "in"
  /\ stay' = Next1.roster

\* The participant event: the membership, then as for any participant.
OnSelfAdded ==
  /\ Handled /\ Next1.kind = "in"
  /\ SelfAdded
  /\ fence' = fence + 1
  /\ row' = None
  /\ known' = Next1.roster
  /\ Warm(fence + 1, None)
  /\ UNCHANGED <<server, lost, restarts>>

\* groups.upsert: the membership only.
OnUpsert ==
  /\ Handled /\ Next1.kind = "upsert"
  /\ SelfAdded
  /\ UNCHANGED <<server, row, fence, look, known, lost, restarts>>

\* The removal: remove() forgets the row and keeps later fetches out.
OnSelfRemoved ==
  /\ Handled /\ Next1.kind = "out"
  /\ selfPresent' = FALSE
  /\ removed' = TRUE
  /\ fence' = fence + 1
  /\ row' = None
  /\ epoch' = epoch + 1
  /\ present' = "out"
  /\ known' = Next1.roster
  /\ stay' = Next1.roster
  /\ UNCHANGED <<server, look, lost, restarts>>

\* groups.update: the subject is patched into the row, whose roster stays; a row
\* that is missing or stale is fetched.
OnUpdate ==
  /\ Handled /\ Next1.kind = "update"
  /\ \/ (removed \/ row # None) /\ look' = look
     \/ ~removed /\ Warm(fence, row)
  /\ UNCHANGED <<server, row, present, memory, heard, lost, restarts>>

\* The process restarts.  WhatsApp delivers what was not handled again, or it was
\* acknowledged and is lost.
Restart ==
  /\ restarts < MaxRestarts
  /\ restarts' = restarts + 1
  /\ \/ UNCHANGED <<wire, lost>>
     \/ wire # <<>> /\ wire' = <<>> /\ lost' = TRUE
  /\ removed' = FALSE /\ fence' = 0 /\ selfPresent' = FALSE /\ epoch' = 0
  /\ look' = [l \in Lookups |-> Idle]
  /\ UNCHANGED <<server, row, present, heard>>

Next ==
  \/ ParticipantsChange \/ GroupUpdated \/ AccountAdded \/ AccountRemoved
  \/ \E l \in Lookups : Tells(l) \/ Refuses(l) \/ Resume(l)
  \/ \E l \in Routes : Route(l)
  \/ OnChange \/ OnSelfAdded \/ OnUpsert \/ OnSelfRemoved \/ OnUpdate
  \/ Restart

Spec == Init /\ [][Next]_vars

-------------------------------------------------------------------------------
(***************************************************************************)
(* Properties                                                              *)
(***************************************************************************)

\* However fetches overlap events, removals and restarts, the cache never holds a
\* roster older than one the process has been told of ("A metadata fetch begun
\* before removal may finish afterwards", groupMeta.ts:92), and nothing of a group
\* it knows it has left.
CacheIsCurrent ==
  /\ row # None => row >= known
  /\ removed => row = None

\* A lookup of the router never answers with a roster older than what was known
\* when it began, also when it has to serve the row it began with.
AnswersAreCurrent ==
  \A l \in Routes :
    look[l].pc = "done" /\ look[l].told # None => look[l].told >= look[l].since

\* At the moment an owner is chosen from a roster, that roster is of the present
\* stay in the group: an account that was removed and added again while a lookup
\* was under way does not take its owner from before ("Owner and room are fixed
\* when the bot is created", README.md:112).  Lost events excepted.
OwnerIsOfThisStay ==
  [][\A l \in Routes :
       look'[l] # look[l] /\ look'[l].chosen /\ ~lost => look'[l].told >= stay]_vars

===============================================================================
