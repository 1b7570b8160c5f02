------------------------------ MODULE MCGroupMeta ------------------------------
(***************************************************************************)
(* A batch that looks the group up, and two fetches that events start.     *)
(***************************************************************************)
EXTENDS GroupMeta

CONSTANTS r1, w1, w2

MCRoutes == {r1}
MCWarmups == {w1, w2}

===============================================================================
