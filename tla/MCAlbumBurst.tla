------------------------------ MODULE MCAlbumBurst ------------------------------
(***************************************************************************)
(* A direct chat with two photos and a text, and a group where one sends a *)
(* photo and a text and another writes between them.                       *)
(***************************************************************************)
EXTENDS AlbumBurst

CONSTANTS p1, p2, t, g, h, u, dm, group, sender, other

MCTurns == {p1, p2, t, g, h, u}
MCChats == {dm, group}
MCChatOf == [m \in Turns |-> IF m \in {p1, p2, t} THEN dm ELSE group]
MCParties == {dm, sender, other}
MCPartyOf ==
  [m \in Turns |-> CASE m \in {p1, p2, t} -> dm [] m \in {g, h} -> sender [] m = u -> other]
MCPhotos == {p1, p2, g}

\* The messages of one of these arrive: an album and its caption, an album beside
\* another chat's photo, and two senders of one group.  Of two, p1 and g are the first.
Scenes == {{p1, p2, t}, {p1, p2, g}, {g, u, h}}

MCNext ==
  /\ Next
  /\ \E scene \in Scenes : arrived' \subseteq scene
  /\ p2 \in arrived' => p1 \in arrived'
  /\ h \in arrived' => g \in arrived'

MCSpec == Init /\ [][MCNext]_vars /\ Fairness

===============================================================================
