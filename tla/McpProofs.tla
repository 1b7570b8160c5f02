------------------------------- MODULE McpProofs -------------------------------
(***************************************************************************)
(* Whose account an ask runs under, and how often it runs, for any turns,  *)
(* identities, tokens, retries and times.                                  *)
(***************************************************************************)
EXTENDS McpSessions, TLAPS

-------------------------------------------------------------------------------
(***************************************************************************)
(* The inductive invariant                                                 *)
(***************************************************************************)

Call == [pc : Open \cup {"none", "sleep"}, tok : Tokens \cup {NoToken},
         attempt : Nat, age : Nat, body : BOOLEAN]
TurnRecord == [at : InCall \cup Ended \cup {"idle", "between"}, time : Nat, left : Nat]

Typed ==
  /\ \A i \in Identities : vault[i] \in 0..issued[i] /\ issued[i] \in 1..MaxVersion[i]
  /\ vault \in [Identities -> Nat] /\ issued \in [Identities -> Nat]
  /\ cache \in [Identities -> Tokens \cup {NoToken}]
  /\ turn \in [Turns -> TurnRecord]
  /\ call \in [Turns -> Call]
  /\ ran \in [Turns -> [Tokens -> Nat]]
  /\ lost \in [Turns -> Nat]

\* A session was made with a token of the identity that uses it.
OwnSessions ==
  /\ \A i \in Identities : cache[i] # NoToken => cache[i][1] = i
  /\ \A t \in Turns : call[t].pc # "none" =>
       call[t].tok # NoToken /\ call[t].tok[1] = IdentityOf[t]

\* A turn waits for a call exactly while it is in one.
CallsOfTurns == \A t \in Turns : turn[t].at \in InCall <=> call[t].pc # "none"

\* An ask runs under one token; what ran and was not lost is being answered.
RunsOf(t, k) ==
  /\ \A j \in Tokens \ {k} : ran[t][j] = 0
  /\ ran[t][k] <= lost[t] + (IF call[t].pc = "sent" /\ call[t].body THEN 1 ELSE 0)

Counted ==
  \A t \in Turns :
    /\ turn[t].at = "idle" => lost[t] = 0 /\ \A k \in Tokens : ran[t][k] = 0
    /\ turn[t].at = "asking" => RunsOf(t, call[t].tok)

IInv == Typed /\ OwnSessions /\ CallsOfTurns /\ Counted
        /\ AttributedToItsAccount /\ RepeatsFollowLosses

LEMMA InitOK == Init => IInv
  <1> USE McpSessionsAssumption, NoTokenAssumption
  <1>1. ASSUME Init
        PROVE  /\ vault = [i \in Identities |-> 1] /\ issued = [i \in Identities |-> 1]
               /\ cache = [i \in Identities |-> NoToken]
               /\ turn = [t \in Turns |-> [at |-> "idle", time |-> 0, left |-> 0]]
               /\ call = [t \in Turns |-> NoCall]
               /\ ran = [t \in Turns |-> [k \in Tokens |-> 0]]
               /\ lost = [t \in Turns |-> 0]
    BY <1>1 DEF Init, NeverRan
  <1>2. NoCall \in Call /\ NoCall.pc = "none"
    BY DEF NoCall, Call, Open
  <1>3. [at |-> "idle", time |-> 0, left |-> 0] \in TurnRecord
    BY DEF TurnRecord, InCall, Ended
  <1> HIDE DEF NoCall, TurnRecord, Call
  <1>4. Init => Typed
    BY <1>1, <1>2, <1>3 DEF Typed
  <1>5. Init => OwnSessions /\ CallsOfTurns
    BY <1>1, <1>2 DEF OwnSessions, CallsOfTurns, InCall
  <1>6. Init => Counted /\ AttributedToItsAccount /\ RepeatsFollowLosses
    BY <1>1 DEF Counted, AttributedToItsAccount, RepeatsFollowLosses
  <1>7. QED
    BY <1>4, <1>5, <1>6 DEF IInv

-------------------------------------------------------------------------------
(***************************************************************************)
(* Steps of one turn                                                       *)
(***************************************************************************)

\* What ran for a turn is its identity's, and repeated only after losses.
InOrder(t, f, l) ==
  \A k \in Tokens : f[k] > 0 =>
    /\ k[1] = IdentityOf[t] /\ f[k] <= 1 + l
    /\ \A j \in Tokens \ {k} : f[j] = 0

\* The session a call c of turn t has is the turn's own.
OwnCall(t, c) == c.pc # "none" => c.tok \in Tokens /\ c.tok[1] = IdentityOf[t]

OwnCache ==
  /\ cache' \in [Identities -> Tokens \cup {NoToken}]
  /\ \A i \in Identities : cache'[i] # NoToken => cache'[i][1] = i

\* A step of turn t that leaves it as r, its call as c, its runs as f and its losses
\* as l.
Leaves(t, r, c, f, l) ==
  /\ r \in TurnRecord /\ c \in Call /\ f \in [Tokens -> Nat] /\ l \in Nat
  /\ turn' = [turn EXCEPT ![t] = r] /\ call' = [call EXCEPT ![t] = c]
  /\ ran' = [ran EXCEPT ![t] = f] /\ lost' = [lost EXCEPT ![t] = l]
  /\ UNCHANGED admin /\ OwnCache
  /\ r.at # "idle" /\ (r.at \in InCall <=> c.pc # "none") /\ OwnCall(t, c)
  /\ r.at = "asking" =>
       /\ \A j \in Tokens \ {c.tok} : f[j] = 0
       /\ f[c.tok] <= l + (IF c.pc = "sent" /\ c.body THEN 1 ELSE 0)
  /\ r.at # "asking" => InOrder(t, f, l)

LEMMA OwnStep ==
  ASSUME IInv, NEW t \in Turns, NEW r, NEW c, NEW f, NEW l, Leaves(t, r, c, f, l)
  PROVE  IInv'
  <1> USE NoTokenAssumption DEF IInv, Typed, Leaves, admin
  <1>1. Typed'
    BY DEF OwnCache
  <1>2. OwnSessions'
    BY DEF OwnSessions, OwnCache, OwnCall
  <1>3. CallsOfTurns'
    BY DEF CallsOfTurns
  <1>4. Counted'
    BY DEF Counted, RunsOf
  <1>5. InOrder(t, f, l)
    <2>1. CASE r.at = "asking"
      <3>1. c.tok \in Tokens /\ c.tok[1] = IdentityOf[t]
        BY <2>1 DEF OwnCall, InCall
      <3>2. f[c.tok] <= 1 + l
        BY <2>1, <3>1
      <3>3. QED
        BY <2>1, <3>1, <3>2 DEF InOrder
    <2>2. QED
      BY <2>1
  <1>6. AttributedToItsAccount' /\ RepeatsFollowLosses'
    BY <1>5 DEF AttributedToItsAccount, RepeatsFollowLosses, InOrder
  <1>7. QED
    BY <1>1, <1>2, <1>3, <1>4, <1>6

\* What the steps need to know of the state.
Here(t) ==
  /\ turn[t] \in TurnRecord /\ call[t] \in Call /\ ran[t] \in [Tokens -> Nat]
  /\ lost[t] \in Nat
  /\ ran = [ran EXCEPT ![t] = ran[t]] /\ lost = [lost EXCEPT ![t] = lost[t]]
  /\ call = [call EXCEPT ![t] = call[t]] /\ turn = [turn EXCEPT ![t] = turn[t]]
  /\ OwnCall(t, call[t]) /\ InOrder(t, ran[t], lost[t])
  /\ turn[t].at \in InCall <=> call[t].pc # "none"
  /\ turn[t].at = "asking" => RunsOf(t, call[t].tok)
  /\ UNCHANGED cache => OwnCache

LEMMA IsHere ==
  ASSUME IInv, NEW t \in Turns
  PROVE  Here(t)
  <1> USE NoTokenAssumption DEF IInv, Typed
  <1>1. OwnCall(t, call[t])
    BY DEF OwnSessions, OwnCall, Call
  <1>2. InOrder(t, ran[t], lost[t])
    BY DEF InOrder, AttributedToItsAccount, RepeatsFollowLosses
  <1>3. UNCHANGED cache => OwnCache
    BY DEF OwnSessions, OwnCache
  <1>4. QED
    BY <1>1, <1>2, <1>3 DEF Here, CallsOfTurns, Counted

LEMMA BegunCall ==
  ASSUME NEW tok \in Tokens
  PROVE  /\ Begun(tok) \in Call /\ Begun(tok).pc \in {"sent", "hello"}
         /\ Begun(tok).tok = tok /\ ~Begun(tok).body
  BY DEF Begun, NoCall, Call, Open

LEMMA NoCallCall == NoCall \in Call /\ NoCall.pc = "none"
  BY DEF NoCall, Call, Open

\* session() finds a session of the identity it is asked for, and keeps it.
LEMMA SessionOK ==
  ASSUME IInv, NEW i \in Identities
  PROVE  /\ Session(i) # NoToken => Session(i) \in Tokens /\ Session(i)[1] = i
         /\ Looked(i) => OwnCache
  <1> USE NoTokenAssumption, McpSessionsAssumption DEF IInv, Typed, Key
  <1>1. vault[i] # 0 => <<i, vault[i]>> \in Tokens
    <2>1. vault[i] \in Nat /\ issued[i] \in Nat /\ vault[i] <= issued[i]
          /\ issued[i] <= MaxVersion[i] /\ MaxVersion[i] \in Nat
      OBVIOUS
    <2>2. vault[i] # 0 => vault[i] \in 1..MaxVersion[i]
      BY <2>1
    <2>3. QED
      BY <2>2 DEF Tokens
  <1>2. Session(i) # NoToken => Session(i) \in Tokens /\ Session(i)[1] = i
    BY <1>1 DEF Session, OwnSessions
  <1>3. Looked(i) => OwnCache
    BY <1>2 DEF Looked, OwnCache, OwnSessions
  <1>4. QED
    BY <1>2, <1>3

\* A step of a turn t that is not asking afterwards, or asks for the first time.
Calls(t, r, c) ==
  /\ r \in TurnRecord /\ c \in Call
  /\ turn' = [turn EXCEPT ![t] = r] /\ call' = [call EXCEPT ![t] = c]
  /\ r.at # "idle" /\ (r.at \in InCall <=> c.pc # "none") /\ OwnCall(t, c)

\* The end of a call, or of a turn.
LEMMA ReturnOK ==
  ASSUME IInv, NEW t \in Turns, NEW at \in Ended \cup {"between"}, Return(t, at)
  PROVE  \E r : Calls(t, r, NoCall) /\ r.at = at
  <1> DEFINE r == [turn[t] EXCEPT !.at = at, !.time = IF at \in Ended THEN 0 ELSE @]
  <1>1. turn[t] \in TurnRecord
    BY IsHere DEF Here
  <1>2. r \in TurnRecord /\ r.at = at
    BY <1>1 DEF TurnRecord
  <1>3. turn' = [turn EXCEPT ![t] = r] /\ call' = [call EXCEPT ![t] = NoCall]
    BY DEF Return
  <1>4. at # "idle" /\ at \notin InCall
    BY DEF Ended, InCall
  <1> HIDE DEF r
  <1>5. QED
    BY <1>2, <1>3, <1>4, NoCallCall DEF Calls, OwnCall

LEMMA SeriesOK ==
  ASSUME IInv, NEW t \in Turns, turn[t].at \in InSeries, NextOfSeries(t)
  PROVE  \E r, c : Calls(t, r, c) /\ r.at # "asking"
  <1>1. /\ turn[t] \in TurnRecord /\ call[t].tok \in Tokens
        /\ call[t].tok[1] = IdentityOf[t]
    BY IsHere DEF Here, InSeries, InCall, OwnCall
  <1>2. CASE MoreOfSeries(t)
    <2> DEFINE r == [turn[t] EXCEPT !.left = @ - 1]
    <2>1. r \in TurnRecord /\ r.at = turn[t].at
      BY <1>1, <1>2 DEF TurnRecord, MoreOfSeries
    <2>2. turn' = [turn EXCEPT ![t] = r] /\ call' = [call EXCEPT ![t] = Begun(call[t].tok)]
      BY <1>2 DEF NextOfSeries
    <2> HIDE DEF r
    <2>3. Calls(t, r, Begun(call[t].tok)) /\ r.at # "asking"
      BY <1>1, <2>1, <2>2, BegunCall DEF Calls, OwnCall, InSeries, InCall
    <2>4. QED
      BY <2>3
  <1>3. CASE ~MoreOfSeries(t)
    BY <1>3, ReturnOK DEF NextOfSeries, Ended
  <1>4. QED
    BY <1>2, <1>3

LEMMA ThrowOK ==
  ASSUME IInv, NEW t \in Turns, Throw(t)
  PROVE  \E r, c : Calls(t, r, c) /\ r.at # "asking"
  BY SeriesOK, ReturnOK DEF Throw, Ended

\* A step that counts nothing, and after which the turn is not asking.
LEMMA UncountedStep ==
  ASSUME IInv, NEW t \in Turns, NEW r, NEW c, Calls(t, r, c), r.at # "asking",
         UNCHANGED <<admin, ran, lost>>, OwnCache
  PROVE  IInv'
  <1>1. Leaves(t, r, c, ran[t], lost[t])
    BY IsHere DEF Leaves, Here, Calls
  <1>2. QED
    BY <1>1, OwnStep

\* The same with the caches left alone.
LEMMA QuietStep ==
  ASSUME IInv, NEW t \in Turns, NEW r, NEW c, Calls(t, r, c), r.at # "asking",
         UNCHANGED <<admin, ran, lost>>, UNCHANGED cache
  PROVE  IInv'
  BY UncountedStep, IsHere DEF Here

\* A step of the call alone.
LEMMA CallStep ==
  ASSUME IInv, NEW t \in Turns, NEW c \in Call, call' = [call EXCEPT ![t] = c],
         call[t].pc # "none", c.pc # "none", c.tok = call[t].tok,
         call[t].body /\ call[t].pc = "sent" => c.body /\ c.pc = "sent",
         UNCHANGED <<turn, ran, lost>>, Quiet
  PROVE  IInv'
  <1>1. Here(t)
    BY IsHere
  <1>2. UNCHANGED admin /\ OwnCache /\ OwnCall(t, c) /\ turn[t].at # "idle"
    BY <1>1 DEF Quiet, Here, OwnCall, InCall
  <1>3. turn[t].at = "asking" =>
          /\ \A j \in Tokens \ {c.tok} : ran[t][j] = 0
          /\ ran[t][c.tok] <= lost[t] + (IF c.pc = "sent" /\ c.body THEN 1 ELSE 0)
    <2>1. ASSUME turn[t].at = "asking"
          PROVE  /\ ran[t][c.tok] \in Nat
                 /\ ran[t][c.tok] <= lost[t] + (IF call[t].pc = "sent" /\ call[t].body THEN 1 ELSE 0)
      BY <1>1, <2>1 DEF Here, RunsOf, OwnCall
    <2>2. QED
      BY <1>1, <2>1 DEF Here, RunsOf
  <1>4. Leaves(t, turn[t], c, ran[t], lost[t])
    BY <1>1, <1>2, <1>3 DEF Here, Leaves
  <1>5. QED
    BY <1>4, OwnStep

-------------------------------------------------------------------------------
(***************************************************************************)
(* The actions                                                             *)
(***************************************************************************)

LEMMA HeadersStep ==
  ASSUME IInv, NEW t \in Turns, Headers(t)
  PROVE  IInv'
  <1> DEFINE c == [call[t] EXCEPT !.body = TRUE]
  <1>1. Here(t) /\ call[t].pc \in {"hello", "sent"} /\ ~call[t].body
    BY IsHere DEF Headers, Head
  <1>2. c \in Call /\ c.pc = call[t].pc /\ c.tok = call[t].tok /\ c.body
        /\ call' = [call EXCEPT ![t] = c]
    BY <1>1 DEF Here, Call, Headers
  <1> HIDE DEF c
  <1>3. CASE ~Asking(t)
    BY <1>1, <1>2, <1>3, CallStep DEF Headers, Quiet
  <1>4. CASE Asking(t)
    <2> DEFINE f == [ran[t] EXCEPT ![call[t].tok] = @ + 1]
    <2>1. /\ call[t].tok \in Tokens /\ ran[t][call[t].tok] \in Nat /\ lost[t] \in Nat
          /\ ran[t][call[t].tok] <= lost[t]
          /\ \A j \in Tokens \ {call[t].tok} : ran[t][j] = 0
      BY <1>1, <1>4 DEF Here, OwnCall, Asking, RunsOf
    <2>2. ran' = [ran EXCEPT ![t] = f] /\ f \in [Tokens -> Nat]
      BY <1>1, <1>4, <2>1 DEF Headers, RanOnce, Here
    <2>3. f[c.tok] <= lost[t] + 1 /\ \A j \in Tokens \ {c.tok} : f[j] = 0
      BY <1>2, <2>1, <1>1 DEF Here
    <2> HIDE DEF f
    <2>4. /\ turn' = [turn EXCEPT ![t] = turn[t]] /\ lost' = [lost EXCEPT ![t] = lost[t]]
          /\ UNCHANGED admin /\ OwnCache /\ turn[t].at = "asking" /\ OwnCall(t, c)
      BY <1>1, <1>2, <1>4 DEF Headers, Quiet, Here, Asking, OwnCall
    <2>5. Leaves(t, turn[t], c, f, lost[t])
      BY <1>1, <1>2, <1>4, <2>2, <2>3, <2>4 DEF Leaves, Here, Asking, InCall
    <2>6. QED
      BY <2>5, OwnStep
  <1>5. QED
    BY <1>3, <1>4

\* What a failed post of an ask leaves counted.
LEMMA FailCounts ==
  ASSUME IInv, NEW t \in Turns, NEW how, NEW carriedOut \in BOOLEAN, Fail(t, how, carriedOut)
  PROVE  \E f \in [Tokens -> Nat], l \in Nat :
           /\ ran' = [ran EXCEPT ![t] = f] /\ lost' = [lost EXCEPT ![t] = l]
           /\ InOrder(t, f, l)
           /\ Asking(t) /\ how = "lost" =>
                /\ \A j \in Tokens \ {call[t].tok} : f[j] = 0
                /\ f[call[t].tok] <= l
  <1> DEFINE k == call[t].tok
             f == IF Asking(t) /\ carriedOut /\ ~call[t].body
                  THEN [ran[t] EXCEPT ![k] = @ + 1] ELSE ran[t]
             l == IF Asking(t) /\ how = "lost" THEN lost[t] + 1 ELSE lost[t]
  <1>1. Here(t) /\ call[t].pc = "sent" /\ k \in Tokens /\ k[1] = IdentityOf[t]
    BY IsHere DEF Fail, Here, OwnCall
  <1>2. f \in [Tokens -> Nat] /\ l \in Nat
    BY <1>1 DEF Here
  <1>3. ran' = [ran EXCEPT ![t] = f] /\ lost' = [lost EXCEPT ![t] = l]
    BY <1>1 DEF Fail, RanOnce, Here
  <1>4. ASSUME Asking(t)
        PROVE  /\ \A j \in Tokens \ {k} : f[j] = 0
               /\ f[k] <= lost[t] + 1
    <2>1. /\ \A j \in Tokens \ {k} : ran[t][j] = 0
          /\ ran[t][k] \in Nat /\ lost[t] \in Nat
          /\ ran[t][k] <= lost[t] + (IF call[t].body THEN 1 ELSE 0)
      BY <1>1, <1>4 DEF Here, Asking, RunsOf
    <2>2. CASE carriedOut /\ ~call[t].body
      <3>1. f = [ran[t] EXCEPT ![k] = @ + 1]
        BY <1>4, <2>2
      <3>2. QED
        BY <1>1, <2>1, <2>2, <3>1 DEF Here
    <2>3. CASE ~(carriedOut /\ ~call[t].body)
      BY <2>1, <2>3
    <2>4. QED
      BY <2>2, <2>3
  <1>5. InOrder(t, f, l)
    <2>1. CASE Asking(t)
      <3> HIDE DEF f
      <3>1. \A j \in Tokens \ {k} : f[j] = 0
        BY <1>4, <2>1
      <3>2. f[k] <= 1 + l
        <4>1. f[k] \in Nat /\ lost[t] \in Nat /\ f[k] <= lost[t] + 1
          BY <1>1, <1>2, <1>4, <2>1 DEF Here
        <4>2. QED
          BY <4>1
      <3>3. QED
        BY <1>1, <3>1, <3>2 DEF InOrder
    <2>2. CASE ~Asking(t)
      BY <1>1, <2>2 DEF Here
    <2>3. QED
      BY <2>1, <2>2
  <1>6. Asking(t) /\ how = "lost" =>
          (\A j \in Tokens \ {k} : f[j] = 0) /\ f[k] <= l
    BY <1>4
  <1> HIDE DEF f, l
  <1>7. QED
    BY <1>2, <1>3, <1>5, <1>6

LEMMA FailStep ==
  ASSUME IInv, NEW t \in Turns, NEW how \in {"lost", "refused"},
         NEW carriedOut \in BOOLEAN, Fail(t, how, carriedOut)
  PROVE  IInv'
  <1>1. Here(t) /\ call[t].pc = "sent" /\ UNCHANGED admin /\ OwnCache
    BY IsHere DEF Fail, Quiet, Here
  <1>2. PICK f \in [Tokens -> Nat], l \in Nat :
          /\ ran' = [ran EXCEPT ![t] = f] /\ lost' = [lost EXCEPT ![t] = l]
          /\ InOrder(t, f, l)
          /\ Asking(t) /\ how = "lost" =>
               /\ \A j \in Tokens \ {call[t].tok} : f[j] = 0
               /\ f[call[t].tok] <= l
    BY FailCounts
  <1>3. CASE Retried(how) /\ call[t].attempt < MaxRetries
    <2> DEFINE c == [call[t] EXCEPT !.pc = "sleep", !.attempt = @ + 1,
                                    !.age = 0, !.body = FALSE]
    <2>1. c \in Call /\ c.pc = "sleep" /\ c.tok = call[t].tok
      <3>1. call[t] \in Call
        BY <1>1 DEF Here
      <3>2. call[t].attempt + 1 \in Nat
        BY <3>1 DEF Call
      <3>3. QED
        BY <3>1, <3>2 DEF Call
    <2>2. call' = [call EXCEPT ![t] = c] /\ turn' = [turn EXCEPT ![t] = turn[t]]
      BY <1>1, <1>3 DEF Fail, Here
    <2> HIDE DEF c
    <2>3. turn[t].at = "asking" =>
            (\A j \in Tokens \ {c.tok} : f[j] = 0) /\ f[c.tok] <= l
      BY <1>1, <1>2, <1>3, <2>1 DEF Retried, Asking
    <2>4. OwnCall(t, c) /\ turn[t].at \in InCall /\ turn[t] \in TurnRecord
      BY <1>1, <2>1 DEF Here, OwnCall
    <2>5. Leaves(t, turn[t], c, f, l)
      BY <1>1, <1>2, <2>1, <2>2, <2>3, <2>4 DEF Leaves, InCall
    <2>6. QED
      BY <2>5, OwnStep
  <1>4. CASE ~(Retried(how) /\ call[t].attempt < MaxRetries)
    <2>1. PICK r, c : Calls(t, r, c) /\ r.at # "asking"
      BY <1>4, ThrowOK DEF Fail
    <2>2. Leaves(t, r, c, f, l)
      BY <1>1, <1>2, <2>1 DEF Leaves, Calls
    <2>3. QED
      BY <2>2, OwnStep
  <1>5. QED
    BY <1>3, <1>4

LEMMA HandshakeStep ==
  ASSUME IInv, NEW t \in Turns,
         Wake(t) \/ Expired(t) \/ Greeted(t) \/ Initialized(t) \/ HandshakeFails(t)
  PROVE  IInv'
  <1>1. call[t] \in Call /\ call[t].pc # "none" /\ Quiet /\ UNCHANGED <<ran, lost>>
    BY IsHere DEF Here, Wake, Expired, Greeted, Initialized, HandshakeFails, Head
  <1>2. CASE Wake(t)
    <2> DEFINE c == [call[t] EXCEPT !.pc = "sent"]
    <2>1. c \in Call /\ c.pc = "sent" /\ c.tok = call[t].tok /\ call[t].pc = "sleep"
      BY <1>1, <1>2 DEF Call, Wake, Open
    <2>2. call' = [call EXCEPT ![t] = c] /\ turn' = turn
      BY <1>2 DEF Wake
    <2> HIDE DEF c
    <2>3. QED
      BY <1>1, <2>1, <2>2, CallStep
  <1>3. CASE Expired(t)
    <2> DEFINE c == [call[t] EXCEPT !.pc = "hello", !.age = 0, !.attempt = Spent(t)]
    <2>1. c \in Call /\ c.pc = "hello" /\ c.tok = call[t].tok
      <3>1. Spent(t) \in Nat
        BY <1>1 DEF Call, Spent
      <3>2. QED
        BY <1>1, <3>1 DEF Call, Open
    <2>2. call' = [call EXCEPT ![t] = c] /\ turn' = turn
      BY <1>3 DEF Expired
    <2>3. ~call[t].body
      BY <1>3 DEF Expired, Head
    <2> HIDE DEF c
    <2>4. QED
      BY <1>1, <2>1, <2>2, <2>3, CallStep
  <1>4. CASE Greeted(t)
    <2> DEFINE c == [call[t] EXCEPT !.pc = "ready", !.age = 0, !.body = FALSE]
    <2>1. c \in Call /\ c.pc = "ready" /\ c.tok = call[t].tok /\ call[t].pc = "hello"
      BY <1>1, <1>4 DEF Call, Greeted, Open
    <2>2. call' = [call EXCEPT ![t] = c] /\ turn' = turn
      BY <1>4 DEF Greeted
    <2> HIDE DEF c
    <2>3. QED
      BY <1>1, <2>1, <2>2, CallStep
  <1>5. CASE Initialized(t) /\ ~(call[t].attempt > MaxRetries)
    <2> DEFINE c == [call[t] EXCEPT !.pc = "sent", !.age = 0]
    <2>1. c \in Call /\ c.pc = "sent" /\ c.tok = call[t].tok /\ call[t].pc = "ready"
      BY <1>1, <1>5 DEF Call, Initialized, Open
    <2>2. call' = [call EXCEPT ![t] = c] /\ turn' = turn
      BY <1>5 DEF Initialized
    <2> HIDE DEF c
    <2>3. QED
      BY <1>1, <2>1, <2>2, CallStep
  <1>6. CASE Throw(t)
    BY <1>1, <1>6, ThrowOK, QuietStep DEF Quiet
  <1>7. QED
    BY <1>2, <1>3, <1>4, <1>5, <1>6 DEF Initialized, HandshakeFails

\* A call with the session of the moment.
LEMMA StartOK ==
  ASSUME IInv, NEW t \in Turns, NEW at \in InCall, Start(t, at),
         call[t].pc = "none"
  PROVE  /\ OwnCache
         /\ \E r, c : /\ Calls(t, r, c) /\ r.at \in {at, "failed"}
                      /\ r.at = at => ~c.body
  <1> DEFINE tok == Session(IdentityOf[t])
             to == IF tok = NoToken THEN "failed" ELSE at
             r == [turn[t] EXCEPT !.at = to]
             c == IF tok = NoToken THEN call[t] ELSE Begun(tok)
  <1>1. IdentityOf[t] \in Identities
    BY McpSessionsAssumption
  <1>2. OwnCache /\ (tok # NoToken => tok \in Tokens /\ tok[1] = IdentityOf[t])
    BY <1>1, SessionOK DEF Start
  <1>3. r \in TurnRecord /\ r.at = to
    <2>1. turn[t] \in TurnRecord
      BY IsHere DEF Here
    <2>2. QED
      BY <2>1 DEF TurnRecord, Ended
  <1>4. turn' = [turn EXCEPT ![t] = r]
    BY DEF Start, Goto
  <1>5. call' = [call EXCEPT ![t] = c]
    BY IsHere DEF Start, Here
  <1>6. c \in Call /\ OwnCall(t, c) /\ (tok = NoToken <=> c.pc = "none")
        /\ (tok # NoToken => ~c.body)
    BY <1>2, BegunCall, IsHere DEF Here, OwnCall
  <1>7. r.at # "idle" /\ (r.at \in InCall <=> c.pc # "none")
    BY <1>3, <1>6 DEF InCall
  <1>8. r.at \in {at, "failed"} /\ (r.at = at => ~c.body)
    BY <1>3, <1>6 DEF InCall
  <1> HIDE DEF r, c
  <1>9. QED
    BY <1>2, <1>3, <1>4, <1>5, <1>6, <1>7, <1>8 DEF Calls

LEMMA AskStep ==
  ASSUME IInv, NEW t \in Turns, Ask(t)
  PROVE  IInv'
  <1>1. /\ Here(t) /\ call[t].pc = "none" /\ lost[t] = 0
        /\ \A k \in Tokens : ran[t][k] = 0
    BY IsHere DEF Ask, Here, IInv, Counted, InCall
  <1>2. OwnCache
    BY <1>1, StartOK DEF Ask, InCall
  <1>3. PICK r, c : Calls(t, r, c) /\ r.at \in {"asking", "failed"}
    BY <1>1, StartOK DEF Ask, InCall
  <1>4. r.at = "asking" => c.tok \in Tokens
    BY <1>3 DEF Calls, OwnCall, InCall
  <1>5. Leaves(t, r, c, ran[t], lost[t])
    BY <1>1, <1>2, <1>3, <1>4 DEF Leaves, Calls, Here, Ask
  <1>6. QED
    BY <1>5, OwnStep

LEMMA AcceptedStep ==
  ASSUME IInv, NEW t \in Turns, Accepted(t)
  PROVE  IInv'
  <1> DEFINE r == [turn[t] EXCEPT !.at = "between", !.time = ResponseMax]
  <1>1. Here(t) /\ UNCHANGED admin /\ OwnCache
    BY IsHere DEF Accepted, Quiet, Here
  <1>2. r \in TurnRecord /\ r.at = "between"
    <2>1. turn[t] \in TurnRecord
      BY <1>1 DEF Here
    <2>2. QED
      BY <2>1, McpSessionsAssumption DEF TurnRecord
  <1>3. /\ turn' = [turn EXCEPT ![t] = r] /\ call' = [call EXCEPT ![t] = NoCall]
        /\ ran' = [ran EXCEPT ![t] = NeverRan] /\ lost' = [lost EXCEPT ![t] = 0]
    BY DEF Accepted
  <1> HIDE DEF r
  <1>4. NeverRan \in [Tokens -> Nat] /\ InOrder(t, NeverRan, 0)
    BY DEF NeverRan, InOrder
  <1>5. Leaves(t, r, NoCall, NeverRan, 0)
    BY <1>1, <1>2, <1>3, <1>4, NoCallCall DEF Leaves, OwnCall, InCall
  <1>6. QED
    BY <1>5, OwnStep

LEMMA PollStep ==
  ASSUME IInv, NEW t \in Turns, Poll(t)
  PROVE  IInv'
  <1>1. Here(t) /\ turn[t].at = "between" /\ call[t].pc = "none"
    BY IsHere DEF Poll, Here, InCall
  <1>2. CASE turn[t].time > 0
    <2>1. OwnCache
      BY <1>1, <1>2, StartOK DEF Poll, InCall
    <2>2. PICK r, c : Calls(t, r, c) /\ r.at \in {"polling", "failed"}
      BY <1>1, <1>2, StartOK DEF Poll, InCall
    <2>3. QED
      BY <2>1, <2>2, UncountedStep DEF Poll
  <1>3. CASE ~(turn[t].time > 0)
    <2> DEFINE r == [turn[t] EXCEPT !.at = "failed"]
    <2>1. r \in TurnRecord /\ r.at = "failed"
      BY <1>1 DEF Here, TurnRecord, Ended
    <2>2. turn' = [turn EXCEPT ![t] = r] /\ call' = call /\ cache' = cache
      BY <1>3 DEF Poll, Goto
    <2> HIDE DEF r
    <2>3. Calls(t, r, call[t])
      BY <1>1, <2>1, <2>2 DEF Calls, Here, InCall
    <2>4. QED
      BY <2>1, <2>2, <2>3, QuietStep DEF Poll
  <1>4. QED
    BY <1>2, <1>3

LEMMA ApprovalStep ==
  ASSUME IInv, NEW t \in Turns, NEW n \in 0..MaxFiles[t], Approval(t, n)
  PROVE  IInv'
  <1> DEFINE r == [turn[t] EXCEPT !.at = "declining", !.left = n - 1]
  <1>1. Here(t) /\ call[t].tok \in Tokens /\ call[t].tok[1] = IdentityOf[t]
    BY IsHere DEF Approval, Answered, Here, OwnCall
  <1>2. r \in TurnRecord /\ r.at = "declining"
    <2>1. turn[t] \in TurnRecord /\ n - 1 \in Nat
      BY <1>1, McpSessionsAssumption DEF Here, Approval
    <2>2. QED
      BY <2>1 DEF TurnRecord, InCall
  <1>3. turn' = [turn EXCEPT ![t] = r] /\ call' = [call EXCEPT ![t] = Begun(call[t].tok)]
    BY DEF Approval
  <1> HIDE DEF r
  <1>4. Calls(t, r, Begun(call[t].tok))
    BY <1>1, <1>2, <1>3, BegunCall DEF Calls, OwnCall, InCall
  <1>5. QED
    BY <1>2, <1>4, QuietStep DEF Approval, Quiet

LEMMA CompletedStep ==
  ASSUME IInv, NEW t \in Turns, NEW n \in 0..MaxFiles[t], Completed(t, n)
  PROVE  IInv'
  <1>1. CASE n = 0
    <2>1. PICK r : Calls(t, r, NoCall) /\ r.at = "done"
      BY <1>1, ReturnOK DEF Completed, Ended
    <2>2. QED
      BY <1>1, <2>1, QuietStep DEF Completed
  <1>2. CASE n # 0
    <2> DEFINE tok == Session(IdentityOf[t])
               to == IF tok = NoToken THEN "failed" ELSE "fetching"
               r == [turn[t] EXCEPT !.at = to, !.left = n - 1]
               c == IF tok = NoToken THEN NoCall ELSE Begun(tok)
    <2>1. /\ Looked(IdentityOf[t])
          /\ turn' = [turn EXCEPT ![t] = r] /\ call' = [call EXCEPT ![t] = c]
      BY <1>2 DEF Completed
    <2>2. OwnCache /\ (tok # NoToken => tok \in Tokens /\ tok[1] = IdentityOf[t])
      BY <2>1, SessionOK, McpSessionsAssumption
    <2>3. r \in TurnRecord /\ r.at = to
      <3>1. turn[t] \in TurnRecord /\ n - 1 \in Nat
        BY <1>2, IsHere, McpSessionsAssumption DEF Here
      <3>2. QED
        BY <3>1 DEF TurnRecord, InCall, Ended
    <2>4. c \in Call /\ OwnCall(t, c) /\ (tok = NoToken <=> c.pc = "none")
      BY <2>2, BegunCall, NoCallCall DEF OwnCall
    <2>5. r.at # "idle" /\ r.at # "asking" /\ (r.at \in InCall <=> c.pc # "none")
      BY <2>3, <2>4 DEF InCall
    <2> HIDE DEF r, c
    <2>6. Calls(t, r, c)
      BY <2>1, <2>3, <2>4, <2>5 DEF Calls
    <2>7. QED
      BY <2>2, <2>5, <2>6, UncountedStep DEF Completed
  <1>3. QED
    BY <1>1, <1>2

\* Rejected, Analyzing and OneOfSeries.
LEMMA AnsweredStep ==
  ASSUME IInv, NEW t \in Turns, Rejected(t) \/ Analyzing(t) \/ OneOfSeries(t)
  PROVE  IInv'
  <1>1. \E r, c : Calls(t, r, c) /\ r.at # "asking"
    BY ReturnOK, SeriesOK
       DEF Rejected, Analyzing, OneOfSeries, Ended, Answered, InSeries
  <1>2. UNCHANGED <<admin, ran, lost>> /\ UNCHANGED cache
    BY DEF Rejected, Analyzing, OneOfSeries, Quiet
  <1>3. QED
    BY <1>1, <1>2, QuietStep

LEMMA TickStep ==
  ASSUME IInv, Tick
  PROVE  IInv'
  <1> USE DEF IInv
  <1>1. /\ \A t \in Turns : call'[t] \in Call /\ call'[t].pc = call[t].pc
                           /\ call'[t].tok = call[t].tok /\ call'[t].body = call[t].body
        /\ call' \in [Turns -> Call]
    <2>1. ASSUME NEW t \in Turns
          PROVE  call[t] \in Call /\ call[t].age + 1 \in Nat
      BY DEF Typed, Call
    <2>2. QED
      BY <2>1 DEF Tick, Call
  <1>2. /\ \A t \in Turns : turn'[t] \in TurnRecord /\ turn'[t].at = turn[t].at
        /\ turn' \in [Turns -> TurnRecord]
    <2>1. ASSUME NEW t \in Turns
          PROVE  /\ turn[t] \in TurnRecord
                 /\ (IF turn[t].time > 0 THEN turn[t].time - 1 ELSE 0) \in Nat
      BY DEF Typed, TurnRecord
    <2>2. QED
      BY <2>1 DEF Tick, TurnRecord
  <1>3. UNCHANGED <<vault, issued, cache, ran, lost>>
    BY DEF Tick, admin
  <1>4. Typed'
    BY <1>1, <1>2, <1>3 DEF Typed
  <1>5. OwnSessions' /\ CallsOfTurns'
    BY <1>1, <1>2, <1>3 DEF OwnSessions, CallsOfTurns
  <1>6. Counted' /\ AttributedToItsAccount' /\ RepeatsFollowLosses'
    BY <1>1, <1>2, <1>3 DEF Counted, RunsOf, AttributedToItsAccount, RepeatsFollowLosses
  <1>7. QED
    BY <1>4, <1>5, <1>6

\* A rotation and a revocation touch no turn: a call goes on with the session it has.
LEMMA AdminStep ==
  ASSUME IInv, NEW i \in Identities, Rotate(i) \/ Revoke(i)
  PROVE  IInv'
  <1> USE DEF IInv
  <1>1. UNCHANGED <<turn, call, ran, lost>> /\ cache' = [cache EXCEPT ![i] = NoToken]
    BY DEF Rotate, Revoke, Invalidated, Key
  <1>2. Typed'
    <2>1. MaxVersion[i] \in Nat /\ issued[i] \in Nat /\ vault[i] \in Nat
          /\ issued[i] >= 1 /\ issued[i] <= MaxVersion[i]
      BY McpSessionsAssumption DEF Typed
    <2>2. CASE Rotate(i)
      <3>1. /\ issued' = [issued EXCEPT ![i] = issued[i] + 1]
            /\ vault' = [vault EXCEPT ![i] = issued[i] + 1]
            /\ issued[i] < MaxVersion[i]
        BY <2>2 DEF Rotate
      <3>2. \A j \in Identities : vault'[j] \in 0..issued'[j] /\ issued'[j] \in 1..MaxVersion[j]
        BY <2>1, <3>1 DEF Typed
      <3>3. QED
        BY <1>1, <2>1, <3>1, <3>2 DEF Typed
    <2>3. CASE Revoke(i)
      BY <1>1, <2>1, <2>3 DEF Typed, Revoke
    <2>4. QED
      BY <2>2, <2>3
  <1>3. OwnSessions'
    BY <1>1 DEF OwnSessions, Typed
  <1>4. CallsOfTurns' /\ Counted' /\ AttributedToItsAccount' /\ RepeatsFollowLosses'
    BY <1>1 DEF CallsOfTurns, Counted, RunsOf, AttributedToItsAccount, RepeatsFollowLosses
  <1>5. QED
    BY <1>2, <1>3, <1>4

LEMMA NextStep ==
  ASSUME IInv, [Next]_vars
  PROVE  IInv'
  <1>1. ASSUME NEW t \in Turns, Progress(t)
        PROVE  IInv'
    BY <1>1, HeadersStep, FailStep, HandshakeStep, AcceptedStep, AnsweredStep, PollStep,
       ApprovalStep, CompletedStep DEF Progress
  <1>2. CASE UNCHANGED vars
    BY <1>2 DEF vars, IInv, Typed, OwnSessions, CallsOfTurns, Counted, RunsOf,
                AttributedToItsAccount, RepeatsFollowLosses
  <1>3. QED
    BY <1>1, <1>2, AskStep, AdminStep, TickStep DEF Next

-------------------------------------------------------------------------------
(***************************************************************************)
(* Theorems                                                                *)
(***************************************************************************)

\* The inductive invariant of sessions, calls and turns.
THEOREM SessionInvariant == Spec => []IInv
  <1>1. Init => IInv
    BY InitOK
  <1>2. IInv /\ [Next]_vars => IInv'
    BY NextStep
  <1>3. QED
    BY <1>1, <1>2, PTL DEF Spec

\* Whatever is rotated or revoked meanwhile, no ask runs under a token of another
\* posting identity.
THEOREM AsksAreAttributed == Spec => []AttributedToItsAccount
  <1>1. IInv => AttributedToItsAccount
    BY DEF IInv
  <1>2. QED
    BY <1>1, SessionInvariant, PTL

\* An ask runs at most once more than its answers were lost, and under one token.
THEOREM RepeatsOnlyAfterLosses == Spec => []RepeatsFollowLosses
  <1>1. IInv => RepeatsFollowLosses
    BY DEF IInv
  <1>2. QED
    BY <1>1, SessionInvariant, PTL

===============================================================================
