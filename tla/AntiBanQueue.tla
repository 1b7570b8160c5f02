----------------------------- MODULE AntiBanQueue -----------------------------
(***************************************************************************)
(* whatsapp/antiBan.ts, with its callers in whatsapp/socket.ts: the queue  *)
(* every WhatsApp send goes through.                                       *)
(*                                                                         *)
(* A lane is a chat of a connection.  Its sends hang on a chain of         *)
(* promises: each remembers the one before it and starts when that one has *)
(* settled.  The chains of a connection share a token bucket and a counter *)
(* of unsettled sends.  A step lasts from one await to the next.           *)
(*                                                                         *)
(* A token is Period units, and a bucket gains one unit per tick; the code *)
(* refills when it looks, which comes to the same.  A connection without a *)
(* bucket is given a full one, so it is shown here with a full one.        *)
(* Typing delays and the pause of a PA reply take any number of ticks.     *)
(***************************************************************************)
EXTENDS Integers, Sequences, FiniteSets

CONSTANTS
  Sends,       \* calls of enqueue()
  ConnOf,      \* ConnOf[s]: the connection
  ChatOf,      \* ChatOf[s]: the chat
  Reactions,   \* the sends with ctx.reaction
  PaReplies,   \* the sends with pacingProfile "pa_reply"
  MaxPending,  \* maxPendingPerConnection
  Burst,       \* capacity of a bucket, in tokens
  Period,      \* ticks per token
  MaxTime,     \* the record of tokens taken ends here; the queue goes on
  Live,        \* the connections whose timers and socket answer (fairness)
  NoSend

Conns == {ConnOf[s] : s \in Sends}

ASSUME SendsAssumption == IsFiniteSet(Sends) /\ NoSend \notin Sends
ASSUME LimitsAssumption ==
  /\ MaxPending \in Nat \ {0} /\ Burst \in Nat \ {0} /\ Period \in Nat \ {0}
  /\ MaxTime \in Nat
ASSUME LiveAssumption == Live \subseteq Conns

VARIABLES
  phase,    \* phase[s]: the await at which s stands
  prev,     \* prev[s]: the send s was chained to
  tail,     \* chatChains: the last send of a lane
  pending,  \* pending[c]: queued and in-flight sends of connection c
  tokens,   \* tokens[c]: what the bucket of c holds, in units
  ticket,   \* history: ticket[s] is the number of s among the accepted of its lane
  now,      \* history: the clock
  takes,    \* history: takes[c], the times at which c took a token
  busy      \* history: busy[c] of them were before c was last drained

queueVars == <<phase, prev, tail, pending, tokens>>
history == <<ticket, now, takes, busy>>
vars == <<queueVars, history>>

\* Mutant of LaneOf: chains are kept per chat only.
LaneOfChat(s) == <<"any", ChatOf[s]>>

\* chainKey.
LaneOf(s) == <<ConnOf[s], ChatOf[s]>>

Lanes == {LaneOf(s) : s \in Sends}

SameLane(s, t) == ConnOf[s] = ConnOf[t] /\ ChatOf[s] = ChatOf[t]

Running == {"pausing", "taking", "typing", "sending", "clearing"}
Settled == {"done", "failed"}
Unsettled == {s \in Sends : phase[s] \in {"queued"} \cup Running}

Full == Burst * Period

TypeOK ==
  /\ phase \in [Sends -> {"idle", "shed", "queued"} \cup Running \cup Settled]
  /\ prev \in [Sends -> Sends \cup {NoSend}]
  /\ tail \in [Lanes -> Sends \cup {NoSend}]
  /\ pending \in [Conns -> 0..MaxPending]
  /\ tokens \in [Conns -> 0..Full]
  /\ ticket \in [Sends -> Nat]
  /\ now \in 0..MaxTime
  /\ takes \in [Conns -> Seq(0..MaxTime)]
  /\ busy \in [Conns -> Nat]

Init ==
  /\ phase = [s \in Sends |-> "idle"]
  /\ prev = [s \in Sends |-> NoSend]
  /\ tail = [l \in Lanes |-> NoSend]
  /\ pending = [c \in Conns |-> 0]
  /\ tokens = [c \in Conns |-> Full]
  /\ ticket = [s \in Sends |-> 0]
  /\ now = 0
  /\ takes = [c \in Conns |-> <<>>]
  /\ busy = [c \in Conns |-> 0]

-------------------------------------------------------------------------------

At(s, p) == phase[s] = p
Goto(s, p) == phase' = [phase EXCEPT ![s] = p]

\* Mutant of Room: one send too few.
RoomForOneLess(c) == pending[c] + 1 < MaxPending

Room(c) == pending[c] < MaxPending

\* The send joins the chain of its lane.
Enqueue(s) ==
  /\ At(s, "idle") /\ Room(ConnOf[s])
  /\ pending' = [pending EXCEPT ![ConnOf[s]] = @ + 1]
  /\ prev' = [prev EXCEPT ![s] = tail[LaneOf(s)]]
  /\ tail' = [tail EXCEPT ![LaneOf(s)] = s]
  /\ ticket' = [ticket EXCEPT ![s] =
       1 + Cardinality({r \in Sends : ticket[r] > 0 /\ SameLane(r, s)})]
  /\ Goto(s, "queued")
  /\ UNCHANGED <<tokens, now, takes, busy>>

\* QueueFullError.
Shed(s) ==
  /\ At(s, "idle") /\ ~Room(ConnOf[s])
  /\ Goto(s, "shed")
  /\ UNCHANGED <<prev, tail, pending, tokens, history>>

\* The promise before it has settled, either way.
TurnOf(s) == prev[s] \in {NoSend} \cup {r \in Sends : phase[r] \in Settled}

\* The lane is free; a PA reply pauses inside the chain.
Start(s) ==
  /\ At(s, "queued") /\ TurnOf(s)
  /\ Goto(s, IF s \in PaReplies THEN "pausing" ELSE "taking")
  /\ UNCHANGED <<prev, tail, pending, tokens, history>>

Paused(s) ==
  /\ At(s, "pausing")
  /\ Goto(s, "taking")
  /\ UNCHANGED <<prev, tail, pending, tokens, history>>

\* take(); until then the send sleeps and looks again.  A reaction is not typed.
Take(s) ==
  LET c == ConnOf[s] IN
  /\ At(s, "taking") /\ tokens[c] >= Period
  /\ tokens' = [tokens EXCEPT ![c] = @ - Period]
  /\ takes' = IF now < MaxTime THEN [takes EXCEPT ![c] = Append(@, now)] ELSE takes
  /\ Goto(s, IF s \in Reactions THEN "sending" ELSE "typing")
  /\ UNCHANGED <<prev, tail, pending, ticket, now, busy>>

\* The typing delay is over: doSend().
Typed(s) ==
  /\ At(s, "typing")
  /\ Goto(s, "sending")
  /\ UNCHANGED <<prev, tail, pending, tokens, history>>

\* doSend() has returned or thrown; a typed send clears its presence.
Sent(s) ==
  /\ At(s, "sending") /\ s \notin Reactions
  /\ Goto(s, "clearing")
  /\ UNCHANGED <<prev, tail, pending, tokens, history>>

\* Mutant of TailAfter: the chain is dropped whoever its tail is.
TailDropped(s) == NoSend

\* The lane's chain once s has settled.
TailAfter(s) == IF tail[LaneOf(s)] = s THEN NoSend ELSE tail[LaneOf(s)]

\* Mutant of PendingAfter: a failed send stays counted.
PendingUnlessFailed(c, outcome) ==
  IF outcome = "failed" THEN pending[c] ELSE pending[c] - 1

\* The connection's counter once one of its sends has settled.
PendingAfter(c, outcome) == pending[c] - 1

\* Mutant of TokensAfter: the bucket goes with every send.
TokensAnew(c, n) == Full

\* A drained connection drops its bucket.
TokensAfter(c, n) == IF n = 0 THEN Full ELSE tokens[c]

\* The run settles and cleans up.
Settle(s, outcome) ==
  LET c == ConnOf[s]
      n == PendingAfter(c, outcome)
  IN
  /\ IF s \in Reactions THEN At(s, "sending") ELSE At(s, "clearing")
  /\ Goto(s, outcome)
  /\ tail' = [tail EXCEPT ![LaneOf(s)] = TailAfter(s)]
  /\ pending' = [pending EXCEPT ![c] = n]
  /\ tokens' = [tokens EXCEPT ![c] = TokensAfter(c, n)]
  /\ busy' = [busy EXCEPT ![c] = IF n = 0 THEN Len(takes[c]) ELSE @]
  /\ UNCHANGED <<prev, ticket, now, takes>>

Refilled(n) == IF n < Full THEN n + 1 ELSE n

Tick ==
  /\ now < MaxTime \/ \E c \in Conns : tokens[c] < Full
  /\ now' = IF now < MaxTime THEN now + 1 ELSE now
  /\ tokens' = [c \in Conns |-> Refilled(tokens[c])]
  /\ UNCHANGED <<phase, prev, tail, pending, ticket, takes, busy>>

Progress(s) ==
  \/ Start(s) \/ Paused(s) \/ Take(s) \/ Typed(s) \/ Sent(s)
  \/ \E outcome \in Settled : Settle(s, outcome)

Next == (\E s \in Sends : Enqueue(s) \/ Shed(s) \/ Progress(s)) \/ Tick

Spec == Init /\ [][Next]_vars

\* Timers fire, and the socket of a live connection answers or throws.
FairSpec ==
  Spec /\ WF_vars(Tick) /\ \A s \in Sends : ConnOf[s] \in Live => WF_vars(Progress(s))

-------------------------------------------------------------------------------

\* "At most one in-flight send per chat WITHIN a connection" (antiBan.ts:9), and
\* "the pause cannot reorder replies" (antiBan.ts:177): what runs is the eldest
\* unsettled send of its lane, whatever failed or was cleaned up before it.
EldestRuns ==
  \A s, t \in Unsettled :
    phase[s] \in Running /\ s # t /\ SameLane(s, t) => ticket[s] < ticket[t]

\* The counter that sheds load counts exactly the unsettled sends: one settle
\* missed would in the end silence the connection, one too many would lift the cap.
PendingIsBacklog ==
  \A c \in Conns : pending[c] = Cardinality({s \in Unsettled : ConnOf[s] = c})

\* "WHATSAPP_SEND_RATE_PER_SEC caps each connection's own send rate"
\* (antiBan.ts:12), while the connection is busy: in any stretch the tokens taken
\* exceed the rate by no more than the burst, whichever chats take them.
RateWhileBusy ==
  \A c \in Conns : \A i, j \in (busy[c] + 1)..Len(takes[c]) :
    i <= j => (j - i + 1) * Period <= Full + takes[c][j] - takes[c][i]

\* The elements of S in the order of their ranks.
Ascending(S, rank) ==
  [i \in 1..Cardinality(S) |->
     CHOOSE s \in S : Cardinality({r \in S : rank[r] <= rank[s]}) = i]

\* The queue keeps the promises of SendLanes: lane l is the unsettled sends, as accepted.
InLane(l) == {s \in Unsettled : <<ConnOf[s], ChatOf[s]>> = l}
Lane(l) == Ascending(InLane(l), ticket)

Contract == INSTANCE SendLanes WITH
  lane <- [l \in Conns \X {ChatOf[s] : s \in Sends} |-> Lane(l)],
  begun <- {s \in Sends : phase[s] \in Running},
  refused <- {s \in Sends : phase[s] = "shed"}

ImplementsLanes == Contract!Spec

\* "One noisy chat must not pace, serialize, or starve another" across
\* connections (antiBan.ts:6-11): every send a live connection has accepted
\* settles, also when another connection that shares the chat hangs.
AcceptedSettles ==
  \A s \in Sends : ConnOf[s] \in Live => (At(s, "queued") ~> phase[s] \in Settled)

================================================================================
