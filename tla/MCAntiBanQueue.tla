---------------------------- MODULE MCAntiBanQueue ----------------------------
(***************************************************************************)
(* One account with three sends to a group, a reaction among them, and one *)
(* to a client; another account that sends to the same group.              *)
(***************************************************************************)
EXTENDS AntiBanQueue

CONSTANTS s1, s2, s3, s4, t1, t2, one, two, group, client

MCConnOf == [s \in Sends |-> IF s \in {t1, t2} THEN two ELSE one]
MCChatOf == [s \in Sends |-> IF s = s4 THEN client ELSE group]
OneAccount == {s1, s2, s3, s4}
Neighbours == {s1, s2, s3, t1}
MCReactions == {s2}
MCPaReplies == {s3, s4}
Second == {one}
Nobody == {}

===============================================================================
