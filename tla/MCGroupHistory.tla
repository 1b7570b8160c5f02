---------------------------- MODULE MCGroupHistory ----------------------------
(***************************************************************************)
(* A row of the past, a message that comes both ways, and a live message   *)
(* that the gateway has sent itself.                                       *)
(***************************************************************************)
EXTENDS GroupHistory

MCLiveMsgs == {2, 3}
MCPastMsgs == {1, 2}
MCEchoes == {3}

===============================================================================
