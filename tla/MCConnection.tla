----------------------------- MODULE MCConnection -----------------------------
(***************************************************************************)
(* Two numbers, two requests and a reboot.                                 *)
(***************************************************************************)
EXTENDS Connection

CONSTANTS n1, n2, s1, s2, s3

MCNumbers == {n1, n2}
MCSlots == {s1, s2, s3}

===============================================================================
