------------------------------- MODULE SendLanes -------------------------------
(***************************************************************************)
(* What the send queue promises, without timers or promises: each chat of  *)
(* a connection is a lane, whose sends go to WhatsApp one after another in *)
(* the order they were accepted; a connection accepts a bounded number, and*)
(* turns a send away only when it is full.                                 *)
(***************************************************************************)
EXTENDS Naturals, Sequences, FiniteSets, SequencesExt

CONSTANTS Sends, ConnOf, ChatOf, MaxPending

VARIABLES
  lane,    \* lane[c, j]: the accepted sends of connection c to chat j
  begun,   \* the heads of lanes whose turn has come
  refused  \* the sends that were turned away

laneVars == <<lane, begun, refused>>

Lanes == {ConnOf[s] : s \in Sends} \X {ChatOf[s] : s \in Sends}
LaneOf(s) == <<ConnOf[s], ChatOf[s]>>

Backlog(c) == {s \in Sends : ConnOf[s] = c /\ s \in ToSet(lane[LaneOf(s)])}

Init == lane = [l \in Lanes |-> <<>>] /\ begun = {} /\ refused = {}

Join(s) ==
  /\ s \notin refused \cup Backlog(ConnOf[s])
  /\ Cardinality(Backlog(ConnOf[s])) < MaxPending
  /\ lane' = [lane EXCEPT ![LaneOf(s)] = Append(@, s)]
  /\ UNCHANGED <<begun, refused>>

TurnAway(s) ==
  /\ s \notin refused \cup Backlog(ConnOf[s])
  /\ Cardinality(Backlog(ConnOf[s])) = MaxPending
  /\ refused' = refused \cup {s}
  /\ UNCHANGED <<lane, begun>>

Begin(s) ==
  /\ s \notin begun
  /\ lane[LaneOf(s)] # <<>> /\ Head(lane[LaneOf(s)]) = s
  /\ begun' = begun \cup {s}
  /\ UNCHANGED <<lane, refused>>

Finish(s) ==
  /\ s \in begun
  /\ lane' = [lane EXCEPT ![LaneOf(s)] = Tail(@)]
  /\ begun' = begun \ {s}
  /\ UNCHANGED refused

Next == \E s \in Sends : Join(s) \/ TurnAway(s) \/ Begin(s) \/ Finish(s)

Spec == Init /\ [][Next]_laneVars

================================================================================
