---------------------------- MODULE MCMcpSessions ----------------------------
(***************************************************************************)
(* The two roles of one shopper, each with a turn.  The shopper's token    *)
(* can be rotated, the assistant's revoked.                                *)
(***************************************************************************)
EXTENDS McpSessions

CONSTANTS t1, t2, shopper, pa, ines

MCTurns == {t1, t2}
MCIdentities == {shopper, pa}
MCIdentityOf == [t \in Turns |-> IF t = t1 THEN shopper ELSE pa]
MCShopperOf == [i \in Identities |-> ines]
MCMaxVersion == [i \in Identities |-> IF i = shopper THEN 2 ELSE 1]
MCMaxFiles == [t \in Turns |-> IF t = t1 THEN 2 ELSE 0]

===============================================================================
