------------------------------ MODULE MCDispatcher ------------------------------
(***************************************************************************)
(* Two deliveries of one direct message, another direct message of the     *)
(* same operator, and two messages of a group.  Any two of the five come   *)
(* in one behaviour: every pair that can meet at a key, at a chat, or at   *)
(* the operator's welcome is among them.                                   *)
(***************************************************************************)
EXTENDS Dispatcher

CONSTANTS d1, d2, e1, g1, g2, kd, ke, kg, kh, dm, group, op

MCAttempts == {d1, d2, e1, g1, g2}
MCKeys == {kd, ke, kg, kh}
MCChats == {dm, group}
MCGroups == {group}
MCKeyOf == [a \in Attempts |->
  CASE a \in {d1, d2} -> kd [] a = e1 -> ke [] a = g1 -> kg [] a = g2 -> kh]
MCChatOf == [k \in Keys |-> IF k \in {kd, ke} THEN dm ELSE group]
MCOperatorOf == [c \in Chats |-> op]

Pairs == {{d1, d2}, {d1, e1}, {g1, g2}}
Arrived == {a \in Attempts : phase[a] # "idle"}

MCSpec ==
  /\ Init
  /\ [][Next /\ \E pair \in Pairs : Arrived' \subseteq pair]_vars
  /\ \A a \in Attempts : WF_vars(Progress(a))

===============================================================================
