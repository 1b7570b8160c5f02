--------------------------- MODULE AntiBanQueueProofs ---------------------------
(***************************************************************************)
(* Theorems about AntiBanQueue, for any sends, connections, chats, limits  *)
(* and outcomes.                                                           *)
(***************************************************************************)
EXTENDS AntiBanQueue, SequencesExt, FiniteSetTheorems, SequenceTheorems, TLAPS

-------------------------------------------------------------------------------
(***************************************************************************)
(* The chain of a lane.  What runs is the eldest because every younger send*)
(* still hangs on an unsettled one that is no older than the eldest.       *)
(***************************************************************************)

PhasesOK ==
  /\ phase \in [Sends -> {"idle", "shed", "queued"} \cup Running \cup Settled]
  /\ prev \in [Sends -> Sends \cup {NoSend}]
  /\ tail \in [Lanes -> Sends \cup {NoSend}]
  /\ ticket \in [Sends -> Nat]

\* The accepted sends of the lane of s.
Accepted(s) == {r \in Sends : ticket[r] > 0 /\ SameLane(r, s)}

TicketsBounded == \A s \in Sends : ticket[s] <= Cardinality(Accepted(s))

TicketsGiven ==
  \A s \in Sends : (phase[s] = "idle" => ticket[s] = 0) /\ (s \in Unsettled => ticket[s] > 0)

TicketsDiffer ==
  \A s, t \in Unsettled : SameLane(s, t) /\ s # t => ticket[s] # ticket[t]

TailIsYoungest ==
  /\ \A l \in Lanes : tail[l] # NoSend => tail[l] \in Unsettled /\ LaneOf(tail[l]) = l
  /\ \A s \in Unsettled : tail[LaneOf(s)] # NoSend /\ ticket[s] <= ticket[tail[LaneOf(s)]]

YoungerHang ==
  \A s, t \in Unsettled : SameLane(s, t) /\ ticket[s] < ticket[t] =>
    /\ phase[t] = "queued" /\ prev[t] \in Unsettled
    /\ SameLane(prev[t], t) /\ ticket[s] <= ticket[prev[t]]

ChainInv ==
  /\ PhasesOK /\ TicketsBounded /\ TicketsGiven /\ TicketsDiffer
  /\ TailIsYoungest /\ YoungerHang

\* A lane is the pair of a connection and a chat.
LEMMA LanesAreLanes ==
  \A s, t \in Sends : LaneOf(s) \in Lanes /\ (LaneOf(s) = LaneOf(t) <=> SameLane(s, t))
BY DEF LaneOf, Lanes, SameLane

LEMMA ChainInit == Init => ChainInv
<1> SUFFICES ASSUME Init PROVE ChainInv
  OBVIOUS
<1>1. PhasesOK
  BY DEF Init, PhasesOK
<1>2. Unsettled = {}
  BY DEF Init, Unsettled, Running
<1>3. \A s \in Sends : Accepted(s) = {}
  BY DEF Init, Accepted
<1>4. TicketsBounded
  <2>1. ASSUME NEW s \in Sends PROVE ticket[s] <= Cardinality(Accepted(s))
    <3>1. ticket[s] = 0
      BY DEF Init
    <3>2. Accepted(s) = {}
      BY <1>3
    <3>3. Cardinality(Accepted(s)) = 0
      BY <3>2, FS_EmptySet
    <3> QED
      BY <3>1, <3>3
  <2> QED
    BY <2>1 DEF TicketsBounded
<1>5. TailIsYoungest
  BY <1>2 DEF Init, TailIsYoungest
<1> QED
  BY <1>1, <1>2, <1>4, <1>5 DEF ChainInv, TicketsGiven, TicketsDiffer, YoungerHang, Init

\* A new send gets the highest ticket of its lane.
LEMMA NewTicket ==
  ASSUME ChainInv, NEW s \in Sends, Enqueue(s)
  PROVE  /\ ticket' \in [Sends -> Nat]
         /\ \A t \in Sends \ {s} : ticket'[t] = ticket[t]
         /\ \A t \in Sends : SameLane(t, s) => ticket[t] < ticket'[s]
         /\ ticket'[s] > 0
         /\ \A t \in Sends : ticket'[t] <= Cardinality(Accepted(t)')
<1>1. ticket[s] = 0 /\ ticket \in [Sends -> Nat]
  BY DEF ChainInv, PhasesOK, TicketsGiven, Enqueue, At
<1>2. \A t \in Sends : IsFiniteSet(Accepted(t)) /\ Cardinality(Accepted(t)) \in Nat
  BY SendsAssumption, FS_Subset, FS_CardinalityType DEF Accepted
<1>3. ticket' = [ticket EXCEPT ![s] = 1 + Cardinality(Accepted(s))]
  BY DEF Enqueue, Accepted
<1>4. \A t \in Sends \ {s} : ticket'[t] = ticket[t]
  BY <1>1, <1>3
<1>5. ticket'[s] = 1 + Cardinality(Accepted(s))
  BY <1>1, <1>3
<1>6. ASSUME NEW t \in Sends, SameLane(t, s)
      PROVE  ticket[t] <= Cardinality(Accepted(s))
  <2>1. Accepted(t) = Accepted(s)
    BY <1>6 DEF Accepted, SameLane
  <2> QED
    BY <2>1 DEF ChainInv, TicketsBounded
<1>7. ASSUME NEW t \in Sends
      PROVE  ticket'[t] <= Cardinality(Accepted(t)')
  <2>1. CASE SameLane(t, s)
    <3>1. Accepted(t) = Accepted(s)
      BY <2>1 DEF Accepted, SameLane
    <3>2. Accepted(t)' = Accepted(s) \cup {s}
      BY <2>1, <1>1, <1>2, <1>4, <1>5 DEF Accepted, SameLane
    <3>3. s \notin Accepted(s)
      BY <1>1 DEF Accepted
    <3>4. Cardinality(Accepted(t)') = Cardinality(Accepted(s)) + 1
      BY <1>2, <3>2, <3>3, FS_AddElement
    <3> QED
      BY <1>1, <1>2, <1>4, <1>5, <3>4, <1>6, <2>1
  <2>2. CASE ~SameLane(t, s)
    <3>1. t # s
      BY <2>2 DEF SameLane
    <3>2. Accepted(t)' = Accepted(t)
      BY <2>2, <1>1, <1>4 DEF Accepted, SameLane
    <3> QED
      BY <3>1, <3>2, <1>4 DEF ChainInv, TicketsBounded
  <2> QED
    BY <2>1, <2>2
<1> QED
  BY <1>1, <1>2, <1>3, <1>4, <1>5, <1>6, <1>7

LEMMA ChainEnqueue == ASSUME ChainInv, NEW s \in Sends, Enqueue(s) PROVE ChainInv'
<1> USE LanesAreLanes
<1>1. PhasesOK'
  BY NewTicket DEF ChainInv, PhasesOK, Enqueue, Goto
<1>2. /\ Unsettled' = Unsettled \cup {s}
      /\ s \notin Unsettled
      /\ \A t \in Sends \ {s} : phase'[t] = phase[t] /\ prev'[t] = prev[t]
      /\ phase'[s] = "queued"
      /\ prev'[s] = tail[LaneOf(s)]
      /\ tail'[LaneOf(s)] = s
      /\ \A l \in Lanes \ {LaneOf(s)} : tail'[l] = tail[l]
  BY DEF ChainInv, PhasesOK, Enqueue, Goto, At, Unsettled, Running
<1>3. TicketsBounded'
  BY NewTicket DEF TicketsBounded
<1>4. TicketsGiven'
  BY <1>2, NewTicket DEF ChainInv, TicketsGiven, Unsettled
<1>5. \A t \in Unsettled : t \in Sends /\ t # s /\ ticket'[t] = ticket[t]
                        /\ ticket[t] \in Nat /\ ticket'[s] \in Nat
                        /\ (SameLane(t, s) => ticket[t] < ticket'[s])
  BY <1>2, NewTicket DEF Unsettled, ChainInv, PhasesOK
<1>6. TicketsDiffer'
  <2> SUFFICES ASSUME NEW x \in Unsettled', NEW y \in Unsettled', SameLane(x, y), x # y
               PROVE  ticket'[x] # ticket'[y]
    BY DEF TicketsDiffer, SameLane
  <2> QED
    BY <1>2, <1>5 DEF ChainInv, TicketsDiffer, SameLane
<1>7. TailIsYoungest'
  <2>1. ASSUME NEW l \in Lanes, tail'[l] # NoSend
        PROVE  tail'[l] \in Unsettled' /\ LaneOf(tail'[l]) = l
    BY <1>2, <2>1 DEF ChainInv, TailIsYoungest
  <2>2. ASSUME NEW t \in Unsettled'
        PROVE  tail'[LaneOf(t)] # NoSend /\ ticket'[t] <= ticket'[tail'[LaneOf(t)]]
    <3>0. t \in Sends /\ s # NoSend
      BY <2>2, SendsAssumption DEF Unsettled
    <3>1. CASE LaneOf(t) = LaneOf(s)
      BY <1>2, <1>5, <2>2, <3>0, <3>1, NewTicket DEF SameLane
    <3>2. CASE LaneOf(t) # LaneOf(s)
      <4>1. t \in Unsettled /\ tail'[LaneOf(t)] = tail[LaneOf(t)]
        BY <1>2, <2>2, <3>0, <3>2
      <4>2. tail[LaneOf(t)] # NoSend /\ ticket[t] <= ticket[tail[LaneOf(t)]]
            /\ tail[LaneOf(t)] \in Unsettled
        BY <4>1, <3>0 DEF ChainInv, TailIsYoungest
      <4> QED
        BY <4>1, <4>2, <1>5
    <3> QED
      BY <3>1, <3>2
  <2> QED
    BY <2>1, <2>2 DEF TailIsYoungest, LaneOf, Lanes
<1>8. YoungerHang'
  <2> SUFFICES ASSUME NEW x \in Unsettled', NEW y \in Unsettled',
                      SameLane(x, y), ticket'[x] < ticket'[y]
               PROVE  /\ phase'[y] = "queued" /\ prev'[y] \in Unsettled'
                      /\ SameLane(prev'[y], y) /\ ticket'[x] <= ticket'[prev'[y]]
    BY DEF YoungerHang, SameLane
  <2>1. CASE y = s
    <3>1. x \in Unsettled /\ x \in Sends /\ LaneOf(x) = LaneOf(s)
      <4>1. x # s
        BY <2>1, NewTicket
      <4> QED
        BY <4>1, <1>2, <1>5, <2>1
    <3>2. tail[LaneOf(s)] \in Unsettled /\ LaneOf(tail[LaneOf(s)]) = LaneOf(s)
          /\ ticket[x] <= ticket[tail[LaneOf(s)]]
      BY <3>1 DEF ChainInv, TailIsYoungest
    <3> QED
      BY <1>2, <1>5, <2>1, <3>1, <3>2
  <2>2. CASE y # s
    <3>1. y \in Unsettled
      BY <1>2, <2>2
    <3>2. x # s
      BY <3>1, <1>5 DEF SameLane
    <3>3. x \in Unsettled
      BY <3>2, <1>2
    <3>4. /\ phase[y] = "queued" /\ prev[y] \in Unsettled
          /\ SameLane(prev[y], y) /\ ticket[x] <= ticket[prev[y]]
      BY <3>1, <3>3, <1>5 DEF ChainInv, YoungerHang
    <3> QED
      BY <3>1, <3>3, <3>4, <1>2, <1>5
  <2> QED
    BY <2>1, <2>2
<1> QED
  BY <1>1, <1>3, <1>4, <1>6, <1>7, <1>8 DEF ChainInv

\* A send that runs is the eldest unsettled one of its lane.
LEMMA EldestOfChain ==
  ASSUME ChainInv, NEW s \in Unsettled, phase[s] \in Running,
         NEW t \in Unsettled, SameLane(s, t), t # s
  PROVE  ticket[s] < ticket[t]
<1>1. ticket[s] # ticket[t] /\ ticket[s] \in Nat /\ ticket[t] \in Nat
  BY DEF ChainInv, TicketsDiffer, PhasesOK, Unsettled
<1>2. ~(ticket[t] < ticket[s])
  BY DEF ChainInv, YoungerHang, Running, SameLane
<1> QED
  BY <1>1, <1>2

\* A send that moves on without settling.
LEMMA ChainMove ==
  ASSUME ChainInv, NEW s \in Unsettled, NEW p \in Running,
         phase[s] \in Running \/ (phase[s] = "queued" /\ TurnOf(s)),
         Goto(s, p), UNCHANGED <<prev, tail, ticket>>
  PROVE  ChainInv'
<1>1. s \in Sends /\ Unsettled' = Unsettled /\ \A t \in Sends \ {s} : phase'[t] = phase[t]
  BY DEF Goto, ChainInv, PhasesOK, Unsettled
<1>2. PhasesOK' /\ TicketsBounded' /\ TicketsDiffer' /\ TailIsYoungest'
  BY <1>1 DEF ChainInv, PhasesOK, TicketsBounded, Accepted, TicketsDiffer, TailIsYoungest,
              Goto
<1>3. TicketsGiven'
  BY <1>1 DEF ChainInv, TicketsGiven, Goto, PhasesOK, Running
<1>4. \A t \in Unsettled : SameLane(t, s) => ~(ticket[t] < ticket[s])
  <2> SUFFICES ASSUME NEW t \in Unsettled, SameLane(t, s), ticket[t] < ticket[s]
               PROVE  FALSE
    OBVIOUS
  <2>1. phase[s] = "queued" /\ prev[s] \in Unsettled
    BY DEF ChainInv, YoungerHang
  <2>2. TurnOf(s)
    BY <2>1 DEF Running
  <2> QED
    BY <2>1, <2>2, SendsAssumption DEF TurnOf, Unsettled, Settled, Running
<1>5. YoungerHang'
  BY <1>1, <1>4 DEF ChainInv, YoungerHang, SameLane, Unsettled
<1> QED
  BY <1>2, <1>3, <1>5 DEF ChainInv

LEMMA ChainSettle ==
  ASSUME ChainInv, NEW s \in Sends, NEW outcome \in Settled, Settle(s, outcome)
  PROVE  ChainInv'
<1> USE LanesAreLanes
<1>1. /\ s \in Unsettled /\ phase[s] \in Running
      /\ Unsettled' = Unsettled \ {s}
      /\ \A t \in Sends \ {s} : phase'[t] = phase[t]
      /\ phase'[s] = outcome
  BY DEF Settle, Goto, At, ChainInv, PhasesOK, Unsettled, Running, Settled
<1>2. prev' = prev /\ ticket' = ticket
  BY DEF Settle
<1>3. /\ \A l \in Lanes \ {LaneOf(s)} : tail'[l] = tail[l]
      /\ tail'[LaneOf(s)] = IF tail[LaneOf(s)] = s THEN NoSend ELSE tail[LaneOf(s)]
      /\ tail' \in [Lanes -> Sends \cup {NoSend}]
  BY DEF Settle, TailAfter, ChainInv, PhasesOK
<1>4. PhasesOK'
  BY <1>2, <1>3 DEF ChainInv, PhasesOK, Settle, Goto
<1>5. TicketsBounded' /\ TicketsDiffer'
  BY <1>1, <1>2 DEF ChainInv, TicketsBounded, Accepted, TicketsDiffer, SameLane
<1>6. TicketsGiven'
  BY <1>1, <1>2 DEF ChainInv, TicketsGiven, Settled
<1>7. \A t \in Unsettled' : t \in Unsettled /\ t \in Sends
         /\ (SameLane(s, t) => ticket[s] < ticket[t] /\ ticket[s] \in Nat /\ ticket[t] \in Nat)
  BY <1>1, EldestOfChain DEF Unsettled, ChainInv, PhasesOK
<1>8. TailIsYoungest'
  <2>1. ASSUME NEW l \in Lanes, tail'[l] # NoSend
        PROVE  tail'[l] \in Unsettled' /\ LaneOf(tail'[l]) = l
    <3>1. tail[l] \in Unsettled /\ LaneOf(tail[l]) = l /\ tail'[l] = tail[l]
      BY <2>1, <1>3 DEF ChainInv, TailIsYoungest
    <3>2. tail[l] # s
      BY <2>1, <3>1, <1>3
    <3> QED
      BY <3>1, <3>2, <1>1
  <2>2. ASSUME NEW t \in Unsettled'
        PROVE  tail'[LaneOf(t)] # NoSend /\ ticket'[t] <= ticket'[tail'[LaneOf(t)]]
    <3>1. tail[LaneOf(t)] # NoSend /\ ticket[t] <= ticket[tail[LaneOf(t)]]
      BY <1>7 DEF ChainInv, TailIsYoungest
    <3>2. tail[LaneOf(t)] # s
      <4> SUFFICES ASSUME tail[LaneOf(t)] = s PROVE FALSE
        OBVIOUS
      <4>1. LaneOf(s) = LaneOf(t)
        BY <1>7, SendsAssumption DEF ChainInv, TailIsYoungest
      <4> QED
        BY <4>1, <3>1, <1>7
    <3>3. tail'[LaneOf(t)] = tail[LaneOf(t)]
      BY <3>2, <1>3, <1>7
    <3> QED
      BY <3>1, <3>3, <1>2
  <2> QED
    BY <2>1, <2>2 DEF TailIsYoungest, LaneOf, Lanes
<1>9. YoungerHang'
  <2> SUFFICES ASSUME NEW x \in Unsettled', NEW y \in Unsettled',
                      SameLane(x, y), ticket'[x] < ticket'[y]
               PROVE  /\ phase'[y] = "queued" /\ prev'[y] \in Unsettled'
                      /\ SameLane(prev'[y], y) /\ ticket'[x] <= ticket'[prev'[y]]
    BY DEF YoungerHang, SameLane
  <2>1. /\ phase[y] = "queued" /\ prev[y] \in Unsettled
        /\ SameLane(prev[y], y) /\ ticket[x] <= ticket[prev[y]]
    BY <1>2, <1>7 DEF ChainInv, YoungerHang
  <2>2. prev[y] # s
    <3> SUFFICES ASSUME prev[y] = s PROVE FALSE
      OBVIOUS
    <3>1. SameLane(s, x)
      BY <2>1 DEF SameLane
    <3> QED
      BY <3>1, <2>1, <1>7
  <2> QED
    BY <2>1, <2>2, <1>1, <1>2, <1>7
<1> QED
  BY <1>4, <1>5, <1>6, <1>8, <1>9 DEF ChainInv

LEMMA ChainStep == ChainInv /\ [Next]_vars => ChainInv'
<1> SUFFICES ASSUME ChainInv, [Next]_vars PROVE ChainInv'
  OBVIOUS
<1>1. ASSUME NEW s \in Sends, Shed(s) PROVE ChainInv'
  <2>1. /\ Unsettled' = Unsettled /\ UNCHANGED <<prev, tail, ticket>>
        /\ \A t \in Unsettled : phase'[t] = phase[t]
        /\ \A t \in Sends : phase'[t] = "idle" => phase[t] = "idle"
        /\ phase' \in [Sends -> {"idle", "shed", "queued"} \cup Running \cup Settled]
    BY <1>1 DEF Shed, Goto, At, ChainInv, PhasesOK, Unsettled, Running, history
  <2>2. PhasesOK' /\ TicketsBounded' /\ TicketsGiven' /\ TicketsDiffer' /\ TailIsYoungest'
    BY <2>1 DEF ChainInv, PhasesOK, TicketsBounded, Accepted, TicketsGiven, TicketsDiffer,
                TailIsYoungest
  <2>3. YoungerHang'
    BY <2>1 DEF ChainInv, YoungerHang
  <2> QED
    BY <2>2, <2>3 DEF ChainInv
<1>2. ASSUME NEW s \in Sends, Start(s) PROVE ChainInv'
  BY <1>2, ChainMove DEF Start, At, Unsettled, Running, history
<1>3. ASSUME NEW s \in Sends, Paused(s) \/ Take(s) \/ Typed(s) \/ Sent(s) PROVE ChainInv'
  BY <1>3, ChainMove DEF Paused, Take, Typed, Sent, At, Unsettled, Running, history
<1>4. CASE Tick \/ UNCHANGED vars
  BY <1>4 DEF Tick, vars, queueVars, history, ChainInv, PhasesOK, TicketsBounded, Accepted,
              TicketsGiven, TicketsDiffer, TailIsYoungest, YoungerHang, Unsettled
<1> QED
  BY <1>1, <1>2, <1>3, <1>4, ChainEnqueue, ChainSettle DEF Next, Progress

\* At most one send per chat and connection is on its way, in the order of
\* enqueue(), for any number of sends (antiBan.ts:160-229).
THEOREM EldestAlwaysRuns == Spec => []EldestRuns
<1>1. ChainInv => EldestRuns
  BY EldestOfChain DEF EldestRuns
<1> QED
  BY <1>1, ChainInit, ChainStep, PTL DEF Spec

-------------------------------------------------------------------------------
(***************************************************************************)
(* The backlog counter                                                     *)
(***************************************************************************)

BacklogOf(c) == {s \in Unsettled : ConnOf[s] = c}

BacklogInv ==
  /\ phase \in [Sends -> {"idle", "shed", "queued"} \cup Running \cup Settled]
  /\ pending \in [Conns -> 0..MaxPending]
  /\ PendingIsBacklog

\* Backlogs are finite.
LEMMA BacklogFinite ==
  \A c : IsFiniteSet(BacklogOf(c)) /\ Cardinality(BacklogOf(c)) \in Nat
BY SendsAssumption, FS_Subset, FS_CardinalityType DEF BacklogOf, Unsettled

LEMMA BacklogInit == Init => BacklogInv
<1> SUFFICES ASSUME Init PROVE BacklogInv
  OBVIOUS
<1>1. ASSUME NEW c \in Conns
      PROVE  pending[c] = Cardinality({s \in Unsettled : ConnOf[s] = c})
  <2>1. {s \in Unsettled : ConnOf[s] = c} = {}
    BY DEF Init, Unsettled, Running
  <2>2. Cardinality({s \in Unsettled : ConnOf[s] = c}) = 0
    BY <2>1, FS_EmptySet
  <2> QED
    BY <2>2 DEF Init
<1> QED
  BY <1>1, LimitsAssumption DEF Init, BacklogInv, PendingIsBacklog

LEMMA BacklogEnqueue ==
  ASSUME BacklogInv, NEW s \in Sends, Enqueue(s) PROVE BacklogInv'
<1>1. /\ phase' \in [Sends -> {"idle", "shed", "queued"} \cup Running \cup Settled]
      /\ Unsettled' = Unsettled \cup {s} /\ s \notin Unsettled /\ ConnOf[s] \in Conns
  BY DEF BacklogInv, Enqueue, Goto, At, Unsettled, Running, Conns
<1>2. /\ pending' \in [Conns -> 0..MaxPending]
      /\ pending'[ConnOf[s]] = pending[ConnOf[s]] + 1
      /\ \A c \in Conns \ {ConnOf[s]} : pending'[c] = pending[c]
  BY <1>1, LimitsAssumption DEF BacklogInv, Enqueue, Room
<1>3. ASSUME NEW c \in Conns PROVE pending'[c] = Cardinality(BacklogOf(c)')
  <2>1. pending[c] = Cardinality(BacklogOf(c))
    BY DEF BacklogInv, PendingIsBacklog, BacklogOf
  <2>2. CASE c = ConnOf[s]
    <3>1. BacklogOf(c)' = BacklogOf(c) \cup {s} /\ s \notin BacklogOf(c)
      BY <1>1, <2>2 DEF BacklogOf
    <3>2. Cardinality(BacklogOf(c)') = Cardinality(BacklogOf(c)) + 1
      BY <3>1, BacklogFinite, FS_AddElement
    <3> QED
      BY <1>2, <2>1, <2>2, <3>2
  <2>3. CASE c # ConnOf[s]
    <3>1. BacklogOf(c)' = BacklogOf(c)
      BY <1>1, <2>3 DEF BacklogOf
    <3> QED
      BY <1>2, <2>1, <2>3, <3>1
  <2> QED
    BY <2>2, <2>3
<1> QED
  BY <1>1, <1>2, <1>3 DEF BacklogInv, PendingIsBacklog, BacklogOf

LEMMA BacklogSettle ==
  ASSUME BacklogInv, NEW s \in Sends, NEW outcome \in Settled, Settle(s, outcome)
  PROVE  BacklogInv'
<1>1. /\ phase' \in [Sends -> {"idle", "shed", "queued"} \cup Running \cup Settled]
      /\ Unsettled' = Unsettled \ {s} /\ s \in Unsettled /\ ConnOf[s] \in Conns
  BY DEF BacklogInv, Settle, Goto, At, Unsettled, Running, Settled, Conns
<1>2. pending[ConnOf[s]] = Cardinality(BacklogOf(ConnOf[s]))
  BY <1>1 DEF BacklogInv, PendingIsBacklog, BacklogOf
<1>3. /\ BacklogOf(ConnOf[s])' = BacklogOf(ConnOf[s]) \ {s}
      /\ s \in BacklogOf(ConnOf[s])
  BY <1>1 DEF BacklogOf
<1>4. Cardinality(BacklogOf(ConnOf[s])') = Cardinality(BacklogOf(ConnOf[s])) - 1
  BY <1>3, BacklogFinite, FS_RemoveElement
<1>5. Cardinality(BacklogOf(ConnOf[s])') \in Nat
  <2>1. IsFiniteSet(BacklogOf(ConnOf[s]) \ {s})
    BY BacklogFinite, FS_RemoveElement
  <2> QED
    BY <1>3, <2>1, FS_CardinalityType
<1>6. /\ pending' \in [Conns -> 0..MaxPending]
      /\ pending'[ConnOf[s]] = pending[ConnOf[s]] - 1
      /\ \A c \in Conns \ {ConnOf[s]} : pending'[c] = pending[c]
  BY <1>1, <1>2, <1>4, <1>5, LimitsAssumption DEF BacklogInv, Settle, PendingAfter
<1>7. ASSUME NEW c \in Conns PROVE pending'[c] = Cardinality(BacklogOf(c)')
  <2>1. CASE c = ConnOf[s]
    BY <1>2, <1>4, <1>6, <2>1
  <2>2. CASE c # ConnOf[s]
    <3>1. BacklogOf(c)' = BacklogOf(c)
      BY <1>1, <2>2 DEF BacklogOf
    <3>2. pending[c] = Cardinality(BacklogOf(c))
      BY DEF BacklogInv, PendingIsBacklog, BacklogOf
    <3> QED
      BY <1>6, <2>2, <3>1, <3>2
  <2> QED
    BY <2>1, <2>2
<1> QED
  BY <1>1, <1>6, <1>7 DEF BacklogInv, PendingIsBacklog, BacklogOf

LEMMA BacklogStep == BacklogInv /\ [Next]_vars => BacklogInv'
<1> SUFFICES ASSUME BacklogInv, [Next]_vars PROVE BacklogInv'
  OBVIOUS
<1>1. ASSUME pending' = pending, Unsettled' = Unsettled,
             phase' \in [Sends -> {"idle", "shed", "queued"} \cup Running \cup Settled]
      PROVE  BacklogInv'
  BY <1>1 DEF BacklogInv, PendingIsBacklog
<1>2. ASSUME NEW s \in Sends,
             Shed(s) \/ Start(s) \/ Paused(s) \/ Take(s) \/ Typed(s) \/ Sent(s)
      PROVE  BacklogInv'
  BY <1>1, <1>2 DEF Shed, Start, Paused, Take, Typed, Sent, Goto, At, BacklogInv,
                    Unsettled, Running
<1>3. CASE Tick \/ UNCHANGED vars
  BY <1>1, <1>3 DEF Tick, vars, queueVars, BacklogInv, Unsettled
<1> QED
  BY <1>2, <1>3, BacklogEnqueue, BacklogSettle DEF Next, Progress

\* The counter that sheds load counts exactly the unsettled sends, for any number
\* of connections and any cap (antiBan.ts:159-167 and 217-226).
THEOREM BacklogIsCounted == Spec => []PendingIsBacklog
<1>1. BacklogInv => PendingIsBacklog
  BY DEF BacklogInv
<1> QED
  BY <1>1, BacklogInit, BacklogStep, PTL DEF Spec

-------------------------------------------------------------------------------
(***************************************************************************)
(* The rate.  The tokens taken since any take, with those still in the     *)
(* bucket, are at most a full bucket and the ticks that have gone by.      *)
(***************************************************************************)

RateTypeOK ==
  /\ tokens \in [Conns -> 0..Full]
  /\ now \in 0..MaxTime
  /\ takes \in [Conns -> Seq(0..MaxTime)]
  /\ busy \in [Conns -> Nat]
  /\ \A c \in Conns : busy[c] <= Len(takes[c])

\* Connections and their records.
LEMMA ConnOfSend == \A s \in Sends : ConnOf[s] \in Conns
BY DEF Conns

LEMMA Records ==
  ASSUME RateTypeOK, NEW c \in Conns
  PROVE  /\ takes[c] \in Seq(0..MaxTime) /\ Len(takes[c]) \in Nat
         /\ busy[c] \in Nat /\ busy[c] <= Len(takes[c])
         /\ tokens[c] \in 0..Full /\ now \in 0..MaxTime
         /\ \A i \in 1..Len(takes[c]) : takes[c][i] \in 0..MaxTime
<1>1. takes[c] \in Seq(0..MaxTime)
  BY DEF RateTypeOK
<1>2. Len(takes[c]) \in Nat
  BY <1>1, LenProperties
<1>3. \A i \in 1..Len(takes[c]) : takes[c][i] \in 0..MaxTime
  BY <1>1, ElementOfSeq
<1> QED
  BY <1>1, <1>2, <1>3 DEF RateTypeOK

\* The tokens of n takes, in units.
Spent(n) == n * Period

Budget ==
  now < MaxTime =>
    \A c \in Conns : \A i \in (busy[c] + 1)..Len(takes[c]) :
      Spent(Len(takes[c]) - i + 1) + tokens[c] <= Full + now - takes[c][i]

RateInv == RateTypeOK /\ Budget /\ RateWhileBusy

LEMMA Units == Period \in Nat /\ Period > 0 /\ Full \in Nat /\ Full >= Period
BY LimitsAssumption DEF Full

LEMMA SpentOne == Spent(1) = Period
BY LimitsAssumption DEF Spent

LEMMA SpentMore ==
  ASSUME NEW n \in Int
  PROVE  Spent(n) \in Int /\ Spent(n + 1) = Spent(n) + Period
BY LimitsAssumption DEF Spent

\* A bucket that gives a token.
LEMMA Given ==
  ASSUME RateTypeOK, NEW c \in Conns, tokens[c] >= Period
  PROVE  [tokens EXCEPT ![c] = @ - Period] \in [Conns -> 0..Full]
<1>1. Full \in Nat /\ Period \in Nat
  BY Units
<1>2. tokens[c] - Period \in 0..Full
  BY <1>1 DEF RateTypeOK
<1> QED
  BY <1>2 DEF RateTypeOK

LEMMA RateInit == Init => RateInv
BY Units, LimitsAssumption DEF Init, RateInv, RateTypeOK, Budget, RateWhileBusy

\* A take, recorded.
LEMMA RateTake ==
  ASSUME RateInv, NEW s \in Sends, Take(s), now < MaxTime PROVE RateInv'
<1> DEFINE c == ConnOf[s]
           n == Len(takes[c])
<1>0. /\ c \in Conns /\ n \in Nat /\ busy[c] \in Nat /\ busy[c] <= n
      /\ tokens[c] \in 0..Full /\ now \in 0..MaxTime /\ takes[c] \in Seq(0..MaxTime)
  BY ConnOfSend, Records DEF RateInv
<1>1. /\ takes' = [takes EXCEPT ![c] = Append(@, now)]
      /\ tokens' = [tokens EXCEPT ![c] = @ - Period]
      /\ tokens[c] >= Period /\ now' = now /\ busy' = busy
  BY DEF Take
<1>2. /\ takes'[c] = Append(takes[c], now) /\ tokens'[c] = tokens[c] - Period
      /\ \A d \in Conns \ {c} : takes'[d] = takes[d] /\ tokens'[d] = tokens[d]
  BY <1>0, <1>1 DEF RateInv, RateTypeOK
<1>3. /\ Len(takes'[c]) = n + 1 /\ takes'[c][n + 1] = now
      /\ \A i \in 1..n : takes'[c][i] = takes[c][i]
      /\ takes'[c] \in Seq(0..MaxTime)
  BY <1>0, <1>2, AppendProperties
<1>4. RateTypeOK'
  <2>1. tokens' \in [Conns -> 0..Full]
    BY <1>0, <1>1, Given DEF RateInv
  <2>2. takes' \in [Conns -> Seq(0..MaxTime)]
    BY <1>0, <1>1, <1>2, <1>3 DEF RateInv, RateTypeOK
  <2>3. \A d \in Conns : busy'[d] <= Len(takes'[d])
    BY <1>0, <1>1, <1>2, <1>3 DEF RateInv, RateTypeOK
  <2> QED
    BY <1>1, <2>1, <2>2, <2>3 DEF RateInv, RateTypeOK
<1>5. ASSUME NEW i \in (busy[c] + 1)..(n + 1)
      PROVE  Spent(n + 1 - i + 1) + tokens'[c] <= Full + now - takes'[c][i]
  <2>1. CASE i = n + 1
    <3>1. n + 1 - i + 1 = 1
      BY <2>1, <1>0
    <3>2. Spent(n + 1 - i + 1) = Period
      BY <3>1, SpentOne
    <3>3. tokens[c] \in Int /\ tokens[c] <= Full /\ now \in Int
      BY <1>0, Units, LimitsAssumption
    <3> QED
      BY <3>2, <3>3, <2>1, <1>2, <1>3, Units
  <2>2. CASE i # n + 1
    <3>1. i \in (busy[c] + 1)..n /\ i \in 1..n
      BY <1>5, <2>2, <1>0
    <3>2. Spent(n - i + 1) + tokens[c] <= Full + now - takes[c][i]
      BY <3>1, <1>0 DEF RateInv, Budget
    <3>3. Spent(n + 1 - i + 1) = Spent(n - i + 1) + Period /\ Spent(n - i + 1) \in Int
      <4>1. n - i + 1 \in Int /\ n + 1 - i + 1 = (n - i + 1) + 1
        BY <1>0, <3>1
      <4> QED
        BY <4>1, SpentMore
    <3>4. tokens[c] \in Int /\ now \in Int /\ takes[c][i] \in Int
      BY <1>0, <3>1, Units, LimitsAssumption, ElementOfSeq
    <3> QED
      BY <3>1, <3>2, <3>3, <3>4, <1>2, <1>3, Units
  <2> QED
    BY <2>1, <2>2
<1>6. Budget'
  BY <1>0, <1>1, <1>2, <1>3, <1>5 DEF Budget, RateInv, Spent
<1>7. RateWhileBusy'
  <2> SUFFICES ASSUME NEW d \in Conns,
                      NEW i \in (busy'[d] + 1)..Len(takes'[d]),
                      NEW j \in (busy'[d] + 1)..Len(takes'[d]), i <= j
               PROVE  (j - i + 1) * Period <= Full + takes'[d][j] - takes'[d][i]
    BY DEF RateWhileBusy, Full
  <2>1. CASE d # c
    BY <2>1, <1>1, <1>2 DEF RateInv, RateWhileBusy
  <2>2. CASE d = c /\ j = n + 1
    <3>1. i \in (busy[c] + 1)..(n + 1)
      BY <2>2, <1>1, <1>3
    <3>2. takes'[c][i] \in 0..MaxTime
      <4>1. i \in 1..Len(takes'[c])
        BY <3>1, <1>0, <1>3
      <4> QED
        BY <4>1, <1>3, ElementOfSeq
    <3>3. Spent(j - i + 1) + tokens'[c] <= Full + now - takes'[c][i]
      BY <2>2, <3>1, <1>5
    <3>4. Spent(j - i + 1) \in Int
      <4>1. j - i + 1 \in Int
        BY <2>2, <1>0, <3>1
      <4> QED
        BY <4>1, SpentMore
    <3>5. tokens'[c] \in Nat /\ now \in Nat
      BY <1>0, <1>4 DEF RateTypeOK, RateInv
    <3>6. Spent(j - i + 1) <= Full + now - takes'[c][i]
      BY <3>2, <3>3, <3>4, <3>5, Units
    <3> QED
      BY <3>6, <2>2, <1>3 DEF Spent
  <2>3. CASE d = c /\ j # n + 1
    <3>1. i \in (busy[c] + 1)..n /\ j \in (busy[c] + 1)..n /\ i \in 1..n /\ j \in 1..n
      BY <2>3, <1>0, <1>1, <1>3
    <3> QED
      BY <3>1, <2>3, <1>3, <1>0 DEF RateInv, RateWhileBusy
  <2> QED
    BY <2>1, <2>2, <2>3
<1> QED
  BY <1>4, <1>6, <1>7 DEF RateInv

\* A step that records no take and adds no token beyond those of the clock.
LEMMA RateSettle ==
  ASSUME RateInv, NEW s \in Sends, NEW outcome \in Settled, Settle(s, outcome)
  PROVE  RateInv'
<1> DEFINE c == ConnOf[s]
<1>0. c \in Conns /\ Full \in 0..Full /\ Len(takes[c]) \in Nat /\ tokens[c] \in 0..Full
  BY Units, ConnOfSend, Records DEF RateInv
<1>1. /\ c \in Conns /\ now' = now /\ takes' = takes
      /\ \A d \in Conns \ {c} : busy'[d] = busy[d] /\ tokens'[d] = tokens[d]
      /\ \/ busy'[c] = busy[c] /\ tokens'[c] = tokens[c]
         \/ busy'[c] = Len(takes[c]) /\ tokens'[c] = Full
      /\ tokens' \in [Conns -> 0..Full] /\ busy' \in [Conns -> Nat]
  BY <1>0 DEF Settle, TokensAfter, RateInv, RateTypeOK
<1>2. \A d \in Conns : Len(takes[d]) \in Nat
  BY Records DEF RateInv
<1>3. RateTypeOK'
  BY <1>1, <1>2 DEF RateInv, RateTypeOK
<1>4. \A d \in Conns :
        \/ busy'[d] = busy[d] /\ tokens'[d] = tokens[d]
        \/ (busy'[d] + 1)..Len(takes'[d]) = {}
  BY <1>1, <1>2
<1>5. Budget'
  BY <1>1, <1>4 DEF RateInv, Budget, Spent, Full
<1>6. RateWhileBusy'
  BY <1>1, <1>4 DEF RateInv, RateWhileBusy, Full
<1> QED
  BY <1>3, <1>5, <1>6 DEF RateInv

\* A tick adds as much to the clock as it may add to the bucket.
LEMMA OneTickLater ==
  ASSUME NEW spent \in Int, NEW had \in Int, NEW has \in Int, NEW full \in Int,
         NEW then \in Int, NEW t0 \in Int, NEW t1, t1 = t0 + 1, has <= had + 1,
         spent + had <= full + t0 - then
  PROVE  spent + has <= full + t1 - then
OBVIOUS

LEMMA RateTick == ASSUME RateInv, Tick PROVE RateInv'
<1>0. ASSUME NEW k \in 0..Full PROVE Refilled(k) \in 0..Full /\ Refilled(k) <= k + 1
  BY <1>0, Units DEF Refilled
<1>1. /\ takes' = takes /\ busy' = busy
      /\ now' = IF now < MaxTime THEN now + 1 ELSE now
      /\ \A c \in Conns : tokens'[c] \in 0..Full /\ tokens'[c] <= tokens[c] + 1
      /\ tokens' \in [Conns -> 0..Full]
  BY <1>0 DEF Tick, RateInv, RateTypeOK
<1>2. RateTypeOK'
  BY <1>1, LimitsAssumption DEF RateInv, RateTypeOK
<1>3. Budget'
  <2> SUFFICES ASSUME now' < MaxTime, NEW c \in Conns,
                      NEW i \in (busy[c] + 1)..Len(takes[c])
               PROVE  Spent(Len(takes[c]) - i + 1) + tokens'[c] <= Full + now' - takes[c][i]
    BY <1>1 DEF Budget, Spent, Full
  <2>1. now < MaxTime /\ now' = now + 1 /\ now \in Nat
    BY <1>1 DEF RateInv, RateTypeOK
  <2>2. Len(takes[c]) \in Nat /\ busy[c] \in Nat /\ i \in 1..Len(takes[c])
    BY Records DEF RateInv
  <2>3. takes[c][i] \in 0..MaxTime /\ tokens[c] \in 0..Full
    BY <2>2, Records DEF RateInv
  <2>4. Spent(Len(takes[c]) - i + 1) \in Int
    <3>1. Len(takes[c]) - i + 1 \in Int
      BY <2>2
    <3> QED
      BY <3>1, SpentMore
  <2>5. Spent(Len(takes[c]) - i + 1) + tokens[c] <= Full + now - takes[c][i]
    BY <2>1 DEF RateInv, Budget
  <2>6. /\ tokens'[c] \in Int /\ tokens'[c] <= tokens[c] + 1 /\ tokens[c] \in Int
        /\ takes[c][i] \in Int /\ Full \in Int
    BY <1>1, <2>3, Units, LimitsAssumption
  <2>7. now \in Int /\ now' = now + 1
    BY <2>1
  <2> QED
    BY <2>4, <2>5, <2>6, <2>7, OneTickLater
<1>4. RateWhileBusy'
  BY <1>1 DEF RateInv, RateWhileBusy, Full
<1> QED
  BY <1>2, <1>3, <1>4 DEF RateInv

\* A take after the end of the record.
LEMMA RateTakeUnseen ==
  ASSUME RateInv, NEW s \in Sends, Take(s), ~(now < MaxTime) PROVE RateInv'
<1>1. /\ takes' = takes /\ busy' = busy /\ now' = now
      /\ tokens' \in [Conns -> 0..Full]
  BY ConnOfSend, Given DEF Take, RateInv
<1> QED
  BY <1>1 DEF RateInv, RateTypeOK, Budget, RateWhileBusy, Full

LEMMA RateStep == RateInv /\ [Next]_vars => RateInv'
<1> SUFFICES ASSUME RateInv, [Next]_vars PROVE RateInv'
  OBVIOUS
<1>1. ASSUME UNCHANGED <<tokens, now, takes, busy>> PROVE RateInv'
  BY <1>1 DEF RateInv, RateTypeOK, Budget, RateWhileBusy, Spent, Full
<1>2. ASSUME NEW s \in Sends,
             Enqueue(s) \/ Shed(s) \/ Start(s) \/ Paused(s) \/ Typed(s) \/ Sent(s)
      PROVE  RateInv'
  BY <1>1, <1>2 DEF Enqueue, Shed, Start, Paused, Typed, Sent, history
<1>3. CASE UNCHANGED vars
  BY <1>1, <1>3 DEF vars, queueVars, history
<1> QED
  BY <1>2, <1>3, RateTake, RateTakeUnseen, RateSettle, RateTick DEF Next, Progress

\* While a connection has sends to do, it takes no more tokens in any stretch of
\* time than the rate allows and one burst, for any rate and burst
\* (antiBan.ts:73-104 and 122-131).
THEOREM BusyRateIsCapped == Spec => []RateWhileBusy
<1>1. RateInv => RateWhileBusy
  BY DEF RateInv
<1> QED
  BY <1>1, RateInit, RateStep, PTL DEF Spec

\* Every variable keeps its type: the backlog within its cap, the bucket within
\* its capacity.
THEOREM TypeCorrect == Spec => []TypeOK
<1>1. ChainInv /\ BacklogInv /\ RateInv => TypeOK
  BY DEF ChainInv, PhasesOK, BacklogInv, RateInv, RateTypeOK, TypeOK
<1> QED
  BY <1>1, ChainInit, ChainStep, BacklogInit, BacklogStep, RateInit, RateStep, PTL DEF Spec

-------------------------------------------------------------------------------
(***************************************************************************)
(* The lanes.  A send's place in its lane is the number of those that are  *)
(* not younger; a new one gets the last place, and the first one leaves.   *)
(***************************************************************************)

Place(S, rank, s) == Cardinality({r \in S : rank[r] <= rank[s]})

\* Distinct ranks order a finite set.
Ranked(S, rank) ==
  /\ IsFiniteSet(S) /\ \A s \in S : rank[s] \in Nat
  /\ \A s, t \in S : rank[s] = rank[t] => s = t

\* Then every place is that of one element, and the sequence has it there.
LEMMA AscendingPlaces ==
  ASSUME NEW S, NEW rank, Ranked(S, rank)
  PROVE  /\ Cardinality(S) \in Nat
         /\ Ascending(S, rank) \in Seq(S) /\ Len(Ascending(S, rank)) = Cardinality(S)
         /\ \A s \in S : /\ Place(S, rank, s) \in 1..Cardinality(S)
                         /\ Ascending(S, rank)[Place(S, rank, s)] = s
         /\ \A i \in 1..Cardinality(S) :
              Ascending(S, rank)[i] \in S /\ Place(S, rank, Ascending(S, rank)[i]) = i
<1> DEFINE Below(s) == {r \in S : rank[r] <= rank[s]}
           n == Cardinality(S)
           P == [s \in S |-> Cardinality(Below(s))]
           a == Ascending(S, rank)
<1>1. n \in Nat
  BY FS_CardinalityType DEF Ranked
<1>2. ASSUME NEW s \in S
      PROVE  IsFiniteSet(Below(s)) /\ Cardinality(Below(s)) \in 1..n
  <2>1. Below(s) \in SUBSET S /\ s \in Below(s)
    BY DEF Ranked
  <2>2. IsFiniteSet(Below(s)) /\ Cardinality(Below(s)) <= n
    BY <2>1, FS_Subset DEF Ranked
  <2>3. Cardinality(Below(s)) \in Nat
    BY <2>2, FS_CardinalityType
  <2>4. Cardinality(Below(s)) # 0
    BY <2>1, <2>2, FS_EmptySet
  <2>5. QED
    BY <1>1, <2>2, <2>3, <2>4
<1>3. ASSUME NEW s \in S, NEW t \in S, rank[s] < rank[t]
      PROVE  P[s] # P[t]
  <2>1. rank[s] \in Nat /\ rank[t] \in Nat /\ \A r \in S : rank[r] \in Nat
    BY DEF Ranked
  <2>2. Below(s) \in SUBSET Below(t) /\ t \in Below(t) /\ t \notin Below(s)
    BY <1>3, <2>1
  <2>3. Cardinality(Below(s)) # Cardinality(Below(t))
    BY <1>2, <2>2, FS_Subset
  <2>4. QED
    BY <2>3
<1>4. P \in Injection(S, 1..n)
  <2>1. P \in [S -> 1..n]
    BY <1>2
  <2>2. ASSUME NEW s \in S, NEW t \in S, P[s] = P[t]
        PROVE  s = t
    <3>1. rank[s] \in Nat /\ rank[t] \in Nat
      BY DEF Ranked
    <3>2. ~(rank[s] < rank[t]) /\ ~(rank[t] < rank[s])
      BY <1>3, <2>2
    <3>3. rank[s] = rank[t]
      BY <3>1, <3>2
    <3>4. QED
      BY <3>3 DEF Ranked
  <2> HIDE DEF P
  <2>3. QED
    BY <2>1, <2>2 DEF Injection, IsInjective
<1>5. P \in Surjection(S, 1..n)
  <2>1. IsFiniteSet(1..n) /\ Cardinality(1..n) = n
    BY <1>1, FS_Interval
  <2>2. QED
    BY <1>4, <2>1, FS_Injection
<1>6. ASSUME NEW i \in 1..n
      PROVE  a[i] \in S /\ P[a[i]] = i
  <2>1. PICK s \in S : P[s] = i
    BY <1>5 DEF Surjection
  <2>2. a[i] = CHOOSE r \in S : Cardinality(Below(r)) = i
    BY DEF Ascending
  <2>3. QED
    BY <2>1, <2>2
<1>7. ASSUME NEW s \in S
      PROVE  a[P[s]] = s
  <2>1. P[s] \in 1..n
    BY <1>2
  <2>2. a[P[s]] \in S /\ P[a[P[s]]] = P[s]
    BY <1>6, <2>1
  <2> HIDE DEF P, a
  <2>3. QED
    BY <1>4, <2>1, <2>2 DEF Injection, IsInjective
<1>8. a \in Seq(S) /\ Len(a) = n
  <2>1. a \in [1..n -> S]
    BY <1>6 DEF Ascending
  <2>2. QED
    BY <1>1, <2>1, SeqDef
<1>9. \A s \in S : P[s] = Place(S, rank, s)
  BY DEF Place
<1>10. QED
  BY <1>1, <1>2, <1>6, <1>7, <1>8, <1>9

LEMMA AscendingSame ==
  ASSUME NEW S, NEW rank, NEW other, Ranked(S, rank), \A s \in S : other[s] = rank[s]
  PROVE  Ascending(S, other) = Ascending(S, rank)
<1> DEFINE a == Ascending(S, rank)
           b == Ascending(S, other)
<1>1. Ranked(S, other)
  BY DEF Ranked
<1>2. ASSUME NEW i \in 1..Cardinality(S)
      PROVE  b[i] = a[i]
  <2>1. a[i] \in S /\ Place(S, rank, a[i]) = i
    BY AscendingPlaces
  <2>2. {r \in S : other[r] <= other[a[i]]} = {r \in S : rank[r] <= rank[a[i]]}
    BY <2>1
  <2>3. Place(S, other, a[i]) = i
    BY <2>1, <2>2 DEF Place
  <2>4. PICK s \in S : s = a[i]
    BY <2>1
  <2>5. b[Place(S, other, s)] = s
    BY <1>1, AscendingPlaces
  <2>6. QED
    BY <2>3, <2>4, <2>5
<1>3. QED
  BY <1>2 DEF Ascending

LEMMA AscendingLast ==
  ASSUME NEW S, NEW rank, NEW other, NEW s, Ranked(S, rank), s \notin S,
         other[s] \in Nat, \A r \in S : other[r] = rank[r] /\ rank[r] < other[s]
  PROVE  Ascending(S \cup {s}, other) = Append(Ascending(S, rank), s)
<1> DEFINE n == Cardinality(S)
           T == S \cup {s}
           a == Ascending(S, rank)
           b == Ascending(T, other)
<1>1. Ranked(T, other) /\ Cardinality(T) = n + 1 /\ n \in Nat
  <2>1. IsFiniteSet(T) /\ Cardinality(T) = n + 1 /\ n \in Nat
    BY FS_AddElement, FS_CardinalityType DEF Ranked
  <2>2. \A r \in S : rank[r] \in Nat
    BY DEF Ranked
  <2>3. \A r \in T : other[r] \in Nat
    BY <2>2
  <2>4. \A q, r \in T : other[q] = other[r] => q = r
    BY <2>2 DEF Ranked
  <2>5. QED
    BY <2>1, <2>3, <2>4 DEF Ranked
<1>2. ASSUME NEW i \in 1..n
      PROVE  b[i] = a[i]
  <2>1. a[i] \in S /\ Place(S, rank, a[i]) = i
    BY AscendingPlaces
  <2>2. \A r \in S : rank[r] \in Nat
    BY DEF Ranked
  <2>3. {r \in T : other[r] <= other[a[i]]} = {r \in S : rank[r] <= rank[a[i]]}
    BY <2>1, <2>2
  <2>4. Place(T, other, a[i]) = i /\ a[i] \in T
    BY <2>1, <2>3 DEF Place
  <2>5. QED
    BY <1>1, <2>4, AscendingPlaces
<1>3. b[n + 1] = s
  <2>1. \A r \in S : rank[r] \in Nat
    BY DEF Ranked
  <2>2. {r \in T : other[r] <= other[s]} = T
    BY <2>1
  <2>3. Place(T, other, s) = n + 1 /\ s \in T
    BY <1>1, <2>2 DEF Place
  <2>4. QED
    BY <1>1, <2>3, AscendingPlaces
<1>4. a \in Seq(T) /\ Len(a) = n /\ b \in Seq(T) /\ Len(b) = n + 1
  <2>1. a \in Seq(S) /\ Len(a) = n
    BY AscendingPlaces
  <2>2. a \in Seq(T)
    BY <2>1
  <2>3. QED
    BY <1>1, <2>1, <2>2, AscendingPlaces
<1> HIDE DEF a, b, T
<1>5. s \in T
  BY DEF T
<1>6. /\ Append(a, s) \in Seq(T) /\ Len(Append(a, s)) = n + 1
      /\ Append(a, s)[n + 1] = s /\ \A i \in 1..n : Append(a, s)[i] = a[i]
  BY <1>1, <1>4, <1>5
<1>7. b = Append(a, s)
  BY <1>1, <1>2, <1>3, <1>4, <1>6, SeqEqual
<1>8. QED
  BY <1>7 DEF a, b, T

LEMMA AscendingFirst ==
  ASSUME NEW S, NEW rank, NEW s \in S, Ranked(S, rank), \A r \in S \ {s} : rank[s] < rank[r]
  PROVE  /\ Ascending(S, rank) # <<>> /\ Head(Ascending(S, rank)) = s
         /\ Ascending(S \ {s}, rank) = Tail(Ascending(S, rank))
<1> DEFINE n == Cardinality(S)
           T == S \ {s}
           a == Ascending(S, rank)
           b == Ascending(T, rank)
<1>1. Ranked(T, rank) /\ Cardinality(T) = n - 1 /\ n \in Nat
  BY FS_RemoveElement, FS_CardinalityType DEF Ranked
<1>2. \A r \in S : rank[r] \in Nat
  BY DEF Ranked
<1>3. Place(S, rank, s) = 1
  <2>1. {r \in S : rank[r] <= rank[s]} = {s}
    BY <1>2
  <2>2. QED
    BY <2>1, FS_Singleton DEF Place
<1>4. 1 \in 1..n /\ a[1] = s
  BY <1>3, AscendingPlaces
<1>5. ASSUME NEW i \in 1..(n - 1)
      PROVE  b[i] = a[i + 1]
  <2>1. b[i] \in T /\ Place(T, rank, b[i]) = i
    BY <1>1, AscendingPlaces
  <2>2. PICK r \in T : r = b[i]
    BY <2>1
  <2>3. {q \in S : rank[q] <= rank[r]} = {q \in T : rank[q] <= rank[r]} \cup {s}
    BY <1>2
  <2>4. IsFiniteSet({q \in T : rank[q] <= rank[r]})
    BY <1>1, FS_Subset DEF Ranked
  <2>5. Place(S, rank, r) = Place(T, rank, r) + 1
    BY <2>3, <2>4, FS_AddElement DEF Place
  <2>6. Place(S, rank, r) = i + 1
    BY <2>1, <2>2, <2>5
  <2>7. r \in S /\ a[Place(S, rank, r)] = r
    BY AscendingPlaces
  <2>8. QED
    BY <2>2, <2>6, <2>7
<1>6. a \in Seq(S) /\ Len(a) = n /\ b \in Seq(S) /\ Len(b) = n - 1
  <2>1. b \in Seq(T) /\ Len(b) = n - 1
    BY <1>1, AscendingPlaces
  <2>2. b \in Seq(S)
    BY <2>1
  <2>3. QED
    BY <2>1, <2>2, AscendingPlaces
<1> HIDE DEF a, b, T
<1>7. a # <<>> /\ Head(a) = a[1]
  BY <1>4, <1>6, HeadTailProperties
<1>8. /\ Tail(a) \in Seq(S) /\ Len(Tail(a)) = n - 1
      /\ \A i \in 1..(n - 1) : Tail(a)[i] = a[i + 1]
  BY <1>6, <1>7, HeadTailProperties
<1>9. b = Tail(a)
  BY <1>1, <1>5, <1>6, <1>8, SeqEqual
<1>10. QED
  BY <1>4, <1>7, <1>9 DEF a, b, T

\* All that is ordered is in the sequence.
LEMMA AscendingRange ==
  ASSUME NEW S, NEW rank, Ranked(S, rank)
  PROVE  ToSet(Ascending(S, rank)) = S
<1>1. DOMAIN Ascending(S, rank) = 1..Cardinality(S)
  BY DEF Ascending
<1>2. QED
  BY <1>1, AscendingPlaces DEF ToSet

-------------------------------------------------------------------------------
(***************************************************************************)
(* The queue as SendLanes sees it.                                         *)
(***************************************************************************)

Chats == {ChatOf[s] : s \in Sends}
SeenLanes == [l \in Conns \X Chats |-> Lane(l)]
Begun == {s \in Sends : phase[s] \in Running}
Refused == {s \in Sends : phase[s] = "shed"}

\* Tickets order every lane.
LEMMA LanesRanked == ASSUME ChainInv PROVE \A l : Ranked(InLane(l), ticket)
<1> SUFFICES ASSUME NEW l PROVE Ranked(InLane(l), ticket)
  OBVIOUS
<1>1. InLane(l) \in SUBSET Sends
  BY DEF InLane, Unsettled
<1>2. IsFiniteSet(InLane(l)) /\ \A s \in InLane(l) : ticket[s] \in Nat
  BY <1>1, SendsAssumption, FS_Subset DEF ChainInv, PhasesOK
<1>3. ASSUME NEW s \in InLane(l), NEW t \in InLane(l), ticket[s] = ticket[t]
      PROVE  s = t
  <2>1. s \in Unsettled /\ t \in Unsettled /\ SameLane(s, t)
    BY DEF InLane, SameLane
  <2>2. QED
    BY <1>3, <2>1 DEF ChainInv, TicketsDiffer
<1>4. QED
  BY <1>2, <1>3 DEF Ranked

\* The lane of a send is one that is seen.
LEMMA SeenLane ==
  ASSUME NEW s \in Sends
  PROVE  /\ LaneOf(s) \in Conns \X Chats /\ Contract!LaneOf(s) = LaneOf(s)
         /\ SeenLanes[LaneOf(s)] = Lane(LaneOf(s))
         /\ (s \in Unsettled <=> s \in InLane(LaneOf(s)))
<1>1. LaneOf(s) \in Conns \X Chats
  BY DEF LaneOf, Conns, Chats
<1>2. QED
  BY <1>1 DEF SeenLanes, LaneOf, Contract!LaneOf, InLane

\* SendLanes counts as this module does.
LEMMA SameLibrary ==
  /\ \A S : Contract!Cardinality(S) = Cardinality(S)
  /\ \A q : Contract!ToSet(q) = ToSet(q)
BY DEF Contract!Cardinality, Cardinality, Contract!ToSet, ToSet

\* Its backlog is what the counter counts.
LEMMA SameBacklog ==
  ASSUME ChainInv, NEW c
  PROVE  Contract!Backlog(c) = BacklogOf(c)
<1>1. \A s \in Sends : ToSet(SeenLanes[LaneOf(s)]) = InLane(LaneOf(s))
  BY LanesRanked, AscendingRange, SeenLane DEF Lane
<1>2. \A s \in Sends : s \in Unsettled <=> s \in ToSet(SeenLanes[Contract!LaneOf(s)])
  BY <1>1, SeenLane
<1>3. Contract!Backlog(c) =
        {s \in Sends : ConnOf[s] = c /\ s \in ToSet(SeenLanes[Contract!LaneOf(s)])}
  BY SameLibrary DEF Contract!Backlog, SeenLanes, Chats
<1>4. QED
  BY <1>2, <1>3 DEF BacklogOf, Unsettled

\* What leaves the accepted sends and their tickets leaves the lanes.
LEMMA LanesStay ==
  ASSUME Unsettled' = Unsettled, ticket' = ticket
  PROVE  SeenLanes' = SeenLanes
BY DEF SeenLanes, Lane, InLane

LEMMA EnqueueJoins ==
  ASSUME ChainInv, BacklogInv, NEW s \in Sends, Enqueue(s)
  PROVE  Contract!Join(s)
<1> DEFINE own == LaneOf(s)
<1>1. /\ Unsettled' = Unsettled \cup {s} /\ s \notin Unsettled /\ phase[s] = "idle"
      /\ Begun' = Begun /\ Refused' = Refused
  BY DEF ChainInv, PhasesOK, Enqueue, Goto, At, Unsettled, Running, Begun, Refused
<1>2. /\ InLane(own)' = InLane(own) \cup {s} /\ s \notin InLane(own)
      /\ \A l : l # own => InLane(l)' = InLane(l)
  BY <1>1 DEF InLane, LaneOf
<1>3. \A l : \A t \in InLane(l) : ticket'[t] = ticket[t]
  BY <1>1, NewTicket DEF InLane, Unsettled
<1>4. Lane(own)' = Append(Lane(own), s)
  <2>1. ticket'[s] \in Nat
    BY NewTicket
  <2>2. \A r \in InLane(own) : ticket[r] < ticket'[s]
    BY NewTicket DEF InLane, Unsettled, LaneOf, SameLane
  <2>3. Ascending(InLane(own) \cup {s}, ticket') = Append(Ascending(InLane(own), ticket), s)
    BY <1>2, <1>3, <2>1, <2>2, LanesRanked, AscendingLast
  <2>4. QED
    BY <1>2, <2>3 DEF Lane
<1>5. ASSUME NEW l, l # own
      PROVE  Lane(l)' = Lane(l)
  <2>1. Ascending(InLane(l), ticket') = Ascending(InLane(l), ticket)
    BY <1>3, LanesRanked, AscendingSame
  <2>2. QED
    BY <1>2, <1>5, <2>1 DEF Lane
<1>6. SeenLanes' = [SeenLanes EXCEPT ![own] = Append(@, s)]
  BY <1>4, <1>5, SeenLane DEF SeenLanes
<1>7. s \notin Refused \cup Contract!Backlog(ConnOf[s])
  BY <1>1, SameBacklog DEF Refused, BacklogOf
<1>8. Cardinality(Contract!Backlog(ConnOf[s])) < MaxPending
  <2>1. pending[ConnOf[s]] = Cardinality(BacklogOf(ConnOf[s]))
    BY ConnOfSend DEF BacklogInv, PendingIsBacklog, BacklogOf
  <2>2. QED
    BY <2>1, SameBacklog DEF Enqueue, Room
<1>9. QED
  BY <1>1, <1>6, <1>7, <1>8, SeenLane, SameLibrary
     DEF Contract!Join, SeenLanes, Chats, Begun, Refused

LEMMA ShedTurnsAway ==
  ASSUME ChainInv, BacklogInv, NEW s \in Sends, Shed(s)
  PROVE  Contract!TurnAway(s)
<1>1. /\ Unsettled' = Unsettled /\ s \notin Unsettled /\ phase[s] = "idle"
      /\ Begun' = Begun /\ Refused' = Refused \cup {s}
  BY DEF ChainInv, PhasesOK, Shed, Goto, At, Unsettled, Running, Begun, Refused
<1>2. SeenLanes' = SeenLanes
  BY <1>1, LanesStay DEF Shed, history
<1>3. s \notin Refused \cup Contract!Backlog(ConnOf[s])
  BY <1>1, SameBacklog DEF Refused, BacklogOf
<1>4. Cardinality(Contract!Backlog(ConnOf[s])) = MaxPending
  <2>1. pending[ConnOf[s]] = Cardinality(BacklogOf(ConnOf[s]))
        /\ pending[ConnOf[s]] \in 0..MaxPending
    BY ConnOfSend DEF BacklogInv, PendingIsBacklog, BacklogOf
  <2>2. QED
    BY <2>1, SameBacklog, LimitsAssumption DEF Shed, Room
<1>5. QED
  BY <1>1, <1>2, <1>3, <1>4, SameLibrary
     DEF Contract!TurnAway, SeenLanes, Chats, Begun, Refused

\* The eldest of a lane is at its head, and leaves it for the next one.
LEMMA EldestIsHead ==
  ASSUME ChainInv, NEW s \in Unsettled,
         \A t \in Unsettled : SameLane(s, t) /\ t # s => ticket[s] < ticket[t]
  PROVE  /\ Lane(LaneOf(s)) # <<>> /\ Head(Lane(LaneOf(s))) = s
         /\ Ascending(InLane(LaneOf(s)) \ {s}, ticket) = Tail(Lane(LaneOf(s)))
<1>1. s \in InLane(LaneOf(s))
  BY DEF InLane, LaneOf
<1>2. \A t \in InLane(LaneOf(s)) \ {s} : ticket[s] < ticket[t]
  BY DEF InLane, LaneOf, SameLane
<1>3. QED
  BY <1>1, <1>2, LanesRanked, AscendingFirst DEF Lane

LEMMA StartBegins ==
  ASSUME ChainInv, NEW s \in Sends, Start(s)
  PROVE  Contract!Begin(s)
<1>1. /\ Unsettled' = Unsettled /\ s \in Unsettled /\ phase[s] = "queued" /\ TurnOf(s)
      /\ Begun' = Begun \cup {s} /\ Refused' = Refused /\ s \notin Begun
  BY DEF ChainInv, PhasesOK, Start, Goto, At, Unsettled, Running, Begun, Refused
<1>2. SeenLanes' = SeenLanes
  BY <1>1, LanesStay DEF Start, history
<1>3. ASSUME NEW t \in Unsettled, SameLane(s, t), t # s
      PROVE  ticket[s] < ticket[t]
  <2>1. prev[s] \notin Unsettled
    BY <1>1, SendsAssumption DEF TurnOf, Unsettled, Settled, Running
  <2>2. ~(ticket[t] < ticket[s])
    BY <1>1, <1>3, <2>1 DEF ChainInv, YoungerHang, SameLane
  <2>3. ticket[s] # ticket[t] /\ ticket[s] \in Nat /\ ticket[t] \in Nat
    BY <1>1, <1>3 DEF ChainInv, TicketsDiffer, PhasesOK, Unsettled
  <2>4. QED
    BY <2>2, <2>3
<1>4. SeenLanes[LaneOf(s)] # <<>> /\ Head(SeenLanes[LaneOf(s)]) = s
  BY <1>1, <1>3, EldestIsHead, SeenLane
<1>5. QED
  BY <1>1, <1>2, <1>4, SeenLane DEF Contract!Begin, SeenLanes, Chats, Begun, Refused

LEMMA SettleFinishes ==
  ASSUME ChainInv, NEW s \in Sends, NEW outcome \in Settled, Settle(s, outcome)
  PROVE  Contract!Finish(s)
<1> DEFINE own == LaneOf(s)
<1>1. /\ Unsettled' = Unsettled \ {s} /\ s \in Unsettled /\ phase[s] \in Running
      /\ Begun' = Begun \ {s} /\ Refused' = Refused /\ s \in Begun /\ ticket' = ticket
  BY DEF ChainInv, PhasesOK, Settle, Goto, At, Unsettled, Running, Settled, Begun, Refused
<1>2. /\ InLane(own)' = InLane(own) \ {s}
      /\ \A l : l # own => InLane(l)' = InLane(l)
  BY <1>1 DEF InLane, LaneOf
<1>3. Lane(own)' = Tail(Lane(own))
  <2>1. Ascending(InLane(own) \ {s}, ticket) = Tail(Lane(own))
    BY <1>1, EldestOfChain, EldestIsHead
  <2>2. QED
    BY <1>1, <1>2, <2>1 DEF Lane
<1>4. \A l : l # own => Lane(l)' = Lane(l)
  BY <1>1, <1>2 DEF Lane
<1>5. SeenLanes' = [SeenLanes EXCEPT ![own] = Tail(@)]
  BY <1>3, <1>4, SeenLane DEF SeenLanes
<1>6. QED
  BY <1>1, <1>5, SeenLane DEF Contract!Finish, SeenLanes, Chats, Begun, Refused

\* Between its start and its end a send is seen to wait, whatever it does.
LEMMA InsideATurn ==
  ASSUME ChainInv,
         \/ \E s \in Sends : Paused(s) \/ Take(s) \/ Typed(s) \/ Sent(s)
         \/ Tick \/ UNCHANGED vars
  PROVE  UNCHANGED Contract!laneVars
<1>1. Unsettled' = Unsettled /\ ticket' = ticket /\ Begun' = Begun /\ Refused' = Refused
  <2>1. CASE \E s \in Sends : Paused(s) \/ Take(s) \/ Typed(s) \/ Sent(s)
    BY <2>1 DEF ChainInv, PhasesOK, Paused, Take, Typed, Sent, Goto, At, Unsettled, Running,
                Begun, Refused, history
  <2>2. CASE Tick \/ UNCHANGED vars
    BY <2>2 DEF Tick, vars, queueVars, history, Unsettled, Begun, Refused
  <2>3. QED
    BY <2>1, <2>2
<1>2. SeenLanes' = SeenLanes
  BY <1>1, LanesStay
<1>3. QED
  BY <1>1, <1>2 DEF Contract!laneVars, SeenLanes, Chats, Begun, Refused

LEMMA LanesInit == Init => Contract!Init
<1> SUFFICES ASSUME Init PROVE Contract!Init
  OBVIOUS
<1>1. Begun = {} /\ Refused = {} /\ \A l : InLane(l) = {}
  BY DEF Init, Begun, Refused, Running, InLane, Unsettled
<1>2. Ascending({}, ticket) = <<>>
  <2>1. Cardinality({}) = 0
    BY FS_EmptySet
  <2>2. Ranked({}, ticket)
    BY FS_EmptySet DEF Ranked
  <2>3. Len(Ascending({}, ticket)) = 0 /\ Ascending({}, ticket) \in Seq({})
    BY <2>1, <2>2, AscendingPlaces
  <2>4. QED
    BY <2>3, EmptySeq
<1>3. SeenLanes = [l \in Contract!Lanes |-> <<>>]
  BY <1>1, <1>2 DEF SeenLanes, Lane, Chats, Conns, Contract!Lanes
<1>4. QED
  BY <1>1, <1>3 DEF Contract!Init, SeenLanes, Chats, Begun, Refused

\* Every behaviour of the queue is, chat by chat, one that SendLanes allows: a send
\* is turned away only when its connection is full, and the accepted ones of a chat
\* begin and finish one after another in the order of enqueue(), for any number of
\* connections, chats and sends (antiBan.ts:149-229).
THEOREM QueueImplementsLanes == Spec => ImplementsLanes
<1>1. ChainInv /\ BacklogInv /\ [Next]_vars => [Contract!Next]_(Contract!laneVars)
  BY EnqueueJoins, ShedTurnsAway, StartBegins, SettleFinishes, InsideATurn
     DEF Next, Progress, Contract!Next
<1>2. QED
  BY <1>1, LanesInit, ChainInit, ChainStep, BacklogInit, BacklogStep, PTL
     DEF Spec, ImplementsLanes, Contract!Spec

================================================================================
