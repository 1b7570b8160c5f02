----------------------------- MODULE MCOutboundLog -----------------------------
(***************************************************************************)
(* Three deliveries of one inbound message and one of another: enough for  *)
(* a slow sender, the retry that overtakes it, and a third that meets the  *)
(* remains of both.                                                        *)
(***************************************************************************)
EXTENDS OutboundLog, TLC

CONSTANTS a1, a2, a3, b1, k1, k2

MCAttempts == {a1, a2, a3, b1}
MCKeys == {k1, k2}
MCKeyOf == [a \in MCAttempts |-> IF a = b1 THEN k2 ELSE k1]

\* The deliveries of k1 are interchangeable.
MCSymmetry == Permutations({a1, a2, a3})

===============================================================================
