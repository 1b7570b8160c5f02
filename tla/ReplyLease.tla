------------------------------ MODULE ReplyLease ------------------------------
(***************************************************************************)
(* What the outbound log promises, with no clock, no table and no network. *)
(*                                                                         *)
(* Each inbound message (a key) has at most one holder, the delivery       *)
(* attempt that owns the right to answer it.  A holder gets the lease once *)
(* and never again, and gives it back at most once.  Giving it back, the   *)
(* current holder says what became of the message; a holder that was       *)
(* overtaken says nothing.  After the verdict "answered" the key is never  *)
(* granted to anybody.                                                     *)
(***************************************************************************)

CONSTANTS
  Keys,      \* inbound message ids
  Holders,   \* delivery attempts
  Nobody     \* the holder of a key nobody has claimed

VARIABLES
  holder,    \* holder[k]: the attempt the key was last granted to
  verdict,   \* verdict[k]: "free", "open", "answered" or "void"
  past,      \* the attempts that were granted a lease at some time
  out        \* those that have not given it back

leaseVars == <<holder, verdict, past, out>>

LeaseTypeOK ==
  /\ holder \in [Keys -> Holders \cup {Nobody}]
  /\ verdict \in [Keys -> {"free", "open", "answered", "void"}]
  /\ past \subseteq Holders
  /\ out \subseteq past

Init ==
  /\ holder = [k \in Keys |-> Nobody]
  /\ verdict = [k \in Keys |-> "free"]
  /\ past = {}
  /\ out = {}

\* The key goes to a newcomer.  An open lease may be taken away (its holder is
\* presumed dead); an answered one may not.
Grant(k, h) ==
  /\ verdict[k] # "answered"
  /\ h \notin past
  /\ holder' = [holder EXCEPT ![k] = h]
  /\ verdict' = [verdict EXCEPT ![k] = "open"]
  /\ past' = past \cup {h}
  /\ out' = out \cup {h}

\* The current holder gives the lease back and says what became of the message.
Conclude(k, v) ==
  /\ verdict[k] = "open"
  /\ holder[k] \in out
  /\ verdict' = [verdict EXCEPT ![k] = v]
  /\ out' = out \ {holder[k]}
  /\ UNCHANGED <<holder, past>>

\* One that was overtaken gives it back, and the keys stay as they are.
Withdraw(h) ==
  /\ h \in out
  /\ \A k \in Keys : holder[k] # h
  /\ out' = out \ {h}
  /\ UNCHANGED <<holder, verdict, past>>

Next ==
  \/ \E h \in Holders : Withdraw(h)
  \/ \E k \in Keys :
       \/ \E h \in Holders : Grant(k, h)
       \/ Conclude(k, "answered")
       \/ Conclude(k, "void")

Spec == Init /\ [][Next]_leaseVars

===============================================================================
