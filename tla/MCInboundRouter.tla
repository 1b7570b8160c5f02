--------------------------- MODULE MCInboundRouter ---------------------------
(***************************************************************************)
(* A group of an operator, who writes a tagged text and an image, another  *)
(* operator and a client, who tags the bot; and the direct chat of an      *)
(* operator, with a greeting, a text, its redelivery and a message of the  *)
(* linked phone.                                                           *)
(***************************************************************************)
EXTENDS InboundRouter

CONSTANTS text, image, ask,            \* in the group
          hello, question, again, own, \* in the direct chat
          group, dm, opParty, clientParty, op, other

MCMsgOf == [d \in Deliveries |-> IF d = again THEN question ELSE d]
MCChatOf == [d \in Deliveries |-> IF d \in {text, image, ask} THEN group ELSE dm]
MCPartyOf == [d \in Deliveries |->
  CASE d \in {text, image} -> opParty [] d = ask -> clientParty [] OTHER -> dm]
MCFromOf == [d \in Deliveries |->
  CASE d = ask -> "client" [] d = own -> "me" [] OTHER -> op]
MCTagged == {text, ask}
MCKindOf == [d \in Deliveries |->
  CASE d = image -> "image" [] d = hello -> "hello" [] OTHER -> "text"]
MCGroups == {group}
MCMembersOf == [c \in {group, dm} |-> IF c = group THEN {op, other} ELSE {op}]

GroupTraffic == {text, image, ask}
DirectTraffic == {hello, question, again, own}
MCDeliveries == GroupTraffic \cup DirectTraffic

\* The chats share nothing but the registrations, so a behaviour has traffic in one
\* of them: in the direct chat with crashes, in the group with membership events
\* and a second operator.
Scenario ==
  \/ /\ ToSet(arrived) \subseteq DirectTraffic
     /\ epoch[group] = 0 /\ registered \subseteq {op}
  \/ /\ ToSet(arrived) \subseteq GroupTraffic
     /\ \A b \in Deliveries : batch[b].pc # "dead"

MCSpec == Init /\ [][Next /\ Scenario']_vars

==============================================================================
