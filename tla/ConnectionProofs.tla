---------------------------- MODULE ConnectionProofs ----------------------------
(***************************************************************************)
(* One connector and a session that can be resumed, for any numbers,       *)
(* sockets, retries, requests and restarts; and, of the inbound queue of   *)
(* that socket, the past and the present of a group that is joined, for    *)
(* any messages, chunks and membership changes.                            *)
(***************************************************************************)
EXTENDS Connection, GroupHistory, FiniteSetTheorems, SequenceTheorems, TLAPS

-------------------------------------------------------------------------------
(***************************************************************************)
(* The inductive invariant                                                 *)
(***************************************************************************)

LiveRecord == [status : {"pending", "linked", "logged_out"}, linked : BOOLEAN,
               attempts : 0..MaxLinkAttempts, rejections : 0..MaxRejections,
               codeAsked : BOOLEAN, code : Numbers \cup {NoNumber}, stopped : BOOLEAN,
               number : Numbers \cup {NoNumber}, handle : Handles]
Socket == [state : Up \cup {"closing", "closed"}, handle : Handles,
           number : Numbers \cup {NoNumber}, code : {"none", "timer", "asked"}]

\* Types, with the reason why the counters of tries keep theirs: a connection that
\* has used up its tries is stopped, and a handle is made by a request or a boot.
Typed ==
  /\ TypeOK
  /\ ~live.stopped => live.attempts < MaxLinkAttempts /\ live.rejections < MaxRejections
  /\ live.handle <= requests + reboots

\* What is, or becomes, a socket: a live one, an opening one or a timer.
Single ==
  /\ opening + timers <= 1
  /\ \A s \in Slots : Live(s) => opening = 0 /\ timers = 0
  /\ \A s \in Slots : Live(s) => s = sock /\ sockets[s].handle = live.handle

\* A socket that closes was told to, by a request that stopped the connection.
ClosingIsStopped == \A s \in Slots : sockets[s].state = "closing" => live.stopped

\* A stopped connection opens nothing; a timer that is left does nothing.
StoppedIsQuiet == live.stopped => opening = 0 /\ \A s \in Slots : ~Live(s)

\* The database has the session of the credentials in use.
Stored ==
  /\ ~live.stopped /\ creds[live.handle] = "registered" => session = "registered"
  /\ row.status = "linked" => session = "registered" /\ creds[live.handle] = "registered"

AtPeace == Single /\ ClosingIsStopped /\ StoppedIsQuiet /\ Stored

IInv == Typed /\ (~hurried => AtPeace)

LEMMA ConstantsOK == /\ NoNumber \notin Numbers /\ NoSlot \notin Slots
                     /\ IsFiniteSet(Slots)
                     /\ MaxLinkAttempts \in Nat \ {0} /\ MaxRejections \in Nat \ {0}
                     /\ MaxRequests \in Nat /\ MaxReboots \in Nat
  BY ConnectionAssumption

LEMMA InitOK == Init => IInv
  <1> SUFFICES ASSUME Init PROVE IInv
    OBVIOUS
  <1>1. 0 \in Handles
    BY ConstantsOK DEF Handles
  <1>2. live = [status |-> "pending", linked |-> FALSE, attempts |-> 0, rejections |-> 0,
                codeAsked |-> FALSE, code |-> NoNumber, stopped |-> FALSE,
                number |-> NoNumber, handle |-> 0]
    BY DEF Init, Restored
  <1>3. Typed
    <2>1. live \in LiveRecord /\ live.handle = 0 /\ live.attempts = 0 /\ live.rejections = 0
      BY <1>1, <1>2, ConstantsOK DEF LiveRecord
    <2>2. Dead \in Socket
      BY <1>1 DEF Dead, Socket
    <2>3. sockets \in [Slots -> Socket] /\ creds \in [Handles -> {"fresh", "registered"}]
          /\ row \in [status : {"none", "pending", "linked", "logged_out"},
                     number : Numbers \cup {NoNumber}]
          /\ sock = NoSlot /\ opening = 0 /\ timers = 0 /\ session = "none"
          /\ requests = 0 /\ reboots = 0 /\ hurried = FALSE
      BY <2>2 DEF Init
    <2>4. TypeOK
      <3>1. requests \in 0..MaxRequests /\ reboots \in 0..MaxReboots
            /\ opening \in Nat /\ timers \in Nat
        BY <2>3, ConstantsOK
      <3>2. hurried \in BOOLEAN /\ sock \in Slots \cup {NoSlot} /\ session \in {"none", "fresh", "registered"}
        BY <2>3, Zenon
      <3>3. QED
        BY <2>1, <2>3, <3>1, <3>2, Zenon DEF TypeOK, LiveRecord, Socket
    <2>5. QED
      BY <2>1, <2>3, <2>4, ConstantsOK DEF Typed
  <1>4. AtPeace
    BY <1>1, <1>2
       DEF Init, AtPeace, Single, ClosingIsStopped, StoppedIsQuiet, Stored, Live, Up, Dead
  <1>5. QED
    BY <1>3, <1>4 DEF IInv

-------------------------------------------------------------------------------
(***************************************************************************)
(* Types                                                                   *)
(***************************************************************************)

LEMMA TypedParts ==
  ASSUME Typed
  PROVE  /\ live \in LiveRecord /\ sockets \in [Slots -> Socket]
         /\ row \in [status : {"none", "pending", "linked", "logged_out"},
                     number : Numbers \cup {NoNumber}]
         /\ Dead \in Socket /\ live.handle \in Nat /\ requests \in Nat /\ reboots \in Nat
  BY ConstantsOK DEF Typed, TypeOK, LiveRecord, Socket, Dead, Handles

LEMMA UpsertedType ==
  ASSUME Typed, NEW status \in {"pending", "linked", "logged_out"}
  PROVE  /\ Upserted(status) \in [status : {"none", "pending", "linked", "logged_out"},
                                  number : Numbers \cup {NoNumber}]
         /\ Upserted(status).status = status
  BY DEF Typed, TypeOK, Upserted

LEMMA StoppedType == ASSUME Typed PROVE Stopped \in [Slots -> Socket]
  <1>1. \A s \in Slots : [sockets[s] EXCEPT !.state = "closing"] \in Socket
    BY TypedParts DEF Socket
  <1>2. QED
    BY <1>1, TypedParts DEF Stopped

\* A handle made by one more request or boot.
LEMMA RestoredType ==
  ASSUME Typed, requests' + reboots' = requests + reboots + 1,
         requests' \in 0..MaxRequests, reboots' \in 0..MaxReboots,
         NEW r \in [status : {"none", "pending", "linked", "logged_out"},
                    number : Numbers \cup {NoNumber}],
         NEW stored \in {"none", "fresh", "registered"}
  PROVE  /\ live.handle + 1 \in Handles /\ live.handle + 1 <= requests' + reboots'
         /\ Restored(r, live.handle + 1) \in LiveRecord
         /\ Restored(r, live.handle + 1).handle = live.handle + 1
         /\ Restored(r, live.handle + 1).stopped = FALSE
         /\ Restored(r, live.handle + 1).attempts = 0
         /\ Restored(r, live.handle + 1).rejections = 0
         /\ Loaded(live.handle + 1, stored) \in [Handles -> {"fresh", "registered"}]
         /\ Loaded(live.handle + 1, stored)[live.handle + 1] = "registered"
              <=> stored = "registered"
  <1>1. live.handle + 1 \in Handles /\ live.handle + 1 <= requests' + reboots'
    BY TypedParts, ConstantsOK DEF Typed, Handles
  <1>2. Restored(r, live.handle + 1) \in LiveRecord
    BY <1>1, ConstantsOK DEF Restored, LiveRecord
  <1>3. creds \in [Handles -> {"fresh", "registered"}]
    BY DEF Typed, TypeOK
  <1>4. QED
    BY <1>1, <1>2, <1>3 DEF Restored, Loaded

LEMMA TypedFrom ==
  ASSUME live' \in LiveRecord, sockets' \in [Slots -> Socket],
         sock' \in Slots \cup {NoSlot}, opening' \in Nat, timers' \in Nat,
         creds' \in [Handles -> {"fresh", "registered"}],
         row' \in [status : {"none", "pending", "linked", "logged_out"},
                   number : Numbers \cup {NoNumber}],
         session' \in {"none", "fresh", "registered"},
         requests' \in 0..MaxRequests, reboots' \in 0..MaxReboots, hurried' \in BOOLEAN,
         ~live'.stopped =>
           live'.attempts < MaxLinkAttempts /\ live'.rejections < MaxRejections,
         live'.handle <= requests' + reboots'
  PROVE  Typed'
  BY DEF Typed, TypeOK, LiveRecord, Socket

-------------------------------------------------------------------------------
(***************************************************************************)
(* Requests and restarts                                                   *)
(***************************************************************************)

LEMMA LinkStep ==
  ASSUME IInv, NEW n \in Numbers, Link(n)
  PROVE  IInv'
  <1> DEFINE r == [status |-> "pending", number |-> n]
  <1>1. Typed
    BY DEF IInv
  <1>2. /\ requests' \in 0..MaxRequests /\ reboots' \in 0..MaxReboots
        /\ requests' + reboots' = requests + reboots + 1
        /\ hurried' = (hurried \/ ~AtRest)
    BY <1>1, TypedParts, ConstantsOK DEF Link, Request, Typed, TypeOK
  <1>3. r \in [status : {"none", "pending", "linked", "logged_out"},
               number : Numbers \cup {NoNumber}]
    OBVIOUS
  <1>4. /\ live' = Restored(r, live.handle + 1)
        /\ creds' = Loaded(live.handle + 1, "none")
        /\ sockets' = Stopped /\ session' = "none" /\ opening' = opening + 1
        /\ row'.status = "pending"
        /\ row' \in [status : {"none", "pending", "linked", "logged_out"},
                     number : Numbers \cup {NoNumber}]
        /\ UNCHANGED <<sock, timers>>
    BY <1>1 DEF Link, Pairing, Typed, TypeOK
  <1> HIDE DEF r
  <1>5. /\ live' \in LiveRecord /\ live'.handle = live.handle + 1 /\ ~live'.stopped
        /\ live'.attempts = 0 /\ live'.rejections = 0
        /\ live.handle + 1 <= requests' + reboots'
        /\ creds' \in [Handles -> {"fresh", "registered"}]
        /\ creds'[live'.handle] # "registered"
    BY <1>1, <1>2, <1>3, <1>4, RestoredType
  <1>6. Typed'
    BY <1>1, <1>2, <1>4, <1>5, StoppedType, TypedFrom, ConstantsOK DEF Typed, TypeOK
  <1>7. ASSUME ~hurried' PROVE AtPeace'
    <2>1. Connectors = 0 /\ \A s \in Slots : sockets[s] = Dead
      BY <1>2, <1>7 DEF AtRest
    <2>2. Cardinality({s \in Slots : Live(s)}) \in Nat
      BY FS_CardinalityType, FS_Subset, ConstantsOK
    <2>3. opening = 0 /\ timers = 0
      BY <1>1, <2>1, <2>2 DEF Connectors, Typed, TypeOK
    <2>4. \A s \in Slots : sockets'[s] = Dead
      BY <1>4, <2>1 DEF Stopped, Live, Up, Dead
    <2>5. \A s \in Slots : sockets'[s].state = "closed"
      BY <2>4 DEF Dead
    <2>6. QED
      BY <1>4, <1>5, <2>3, <2>5
         DEF AtPeace, Single, ClosingIsStopped, StoppedIsQuiet, Stored, Live, Up
  <1>8. QED
    BY <1>6, <1>7 DEF IInv

LEMMA UnlinkStep ==
  ASSUME IInv, Unlink
  PROVE  IInv'
  <1>1. Typed
    BY DEF IInv
  <1>2. /\ requests' \in 0..MaxRequests /\ reboots' \in 0..MaxReboots
        /\ requests' + reboots' = requests + reboots + 1
        /\ hurried' = (hurried \/ opening > 0)
    BY <1>1, TypedParts, ConstantsOK DEF Unlink, Request, Typed, TypeOK
  <1>3. /\ live' \in LiveRecord /\ live'.handle = live.handle /\ live'.stopped
        /\ row' \in [status : {"none", "pending", "linked", "logged_out"},
                     number : Numbers \cup {NoNumber}]
        /\ row'.status = "logged_out" /\ sockets' = Stopped
        /\ UNCHANGED <<sock, opening, timers, creds>> /\ session' = "none"
    BY <1>1, TypedParts, UpsertedType DEF Unlink, LiveRecord
  <1>4. Typed'
    <2>1. live'.handle <= requests' + reboots'
      BY <1>1, <1>2, <1>3, TypedParts DEF Typed
    <2>2. hurried' \in BOOLEAN
      BY <1>2
    <2>3. QED
      BY <1>1, <1>2, <1>3, <2>1, <2>2, StoppedType, TypedFrom DEF Typed, TypeOK
  <1>5. ASSUME ~hurried' PROVE AtPeace'
    <2>1. AtPeace /\ opening = 0
      <3>1. opening \in Nat
        BY <1>1 DEF Typed, TypeOK
      <3>2. ~hurried /\ ~(opening > 0)
        BY <1>2, <1>5
      <3>3. QED
        BY <3>1, <3>2 DEF IInv
    <2>2. ASSUME NEW s \in Slots PROVE ~Live(s)'
      <3>1. CASE Live(s)
        <4>1. sockets'[s] = [sockets[s] EXCEPT !.state = "closing"]
          BY <1>3, <2>1, <3>1 DEF Stopped, AtPeace, Single
        <4>2. QED
          BY <1>1, <4>1, TypedParts DEF Live, Up, Socket
      <3>2. CASE ~Live(s)
        BY <1>3, <3>2 DEF Stopped, Live
      <3>3. QED
        BY <3>1, <3>2
    <2>3. QED
      BY <1>1, <1>3, <2>1, <2>2
         DEF AtPeace, Single, ClosingIsStopped, StoppedIsQuiet, Stored, Typed, TypeOK
  <1>6. QED
    BY <1>4, <1>5 DEF IInv

LEMMA RebootStep ==
  ASSUME IInv, Reboot
  PROVE  IInv'
  <1>1. Typed
    BY DEF IInv
  <1>2. /\ requests' \in 0..MaxRequests /\ reboots' \in 0..MaxReboots
        /\ requests' + reboots' = requests + reboots + 1
        /\ hurried' = hurried
    BY <1>1, TypedParts, ConstantsOK DEF Reboot, Typed, TypeOK
  <1>3. /\ live' = Restored(row, live.handle + 1)
        /\ creds' = Loaded(live.handle + 1, session)
        /\ sockets' = [s \in Slots |-> Dead] /\ sock' = NoSlot /\ timers' = 0
        /\ opening' = (IF row.status = "linked" THEN 1 ELSE 0)
        /\ UNCHANGED <<row, session>>
    BY DEF Reboot
  <1>4. /\ live' \in LiveRecord /\ live'.handle = live.handle + 1 /\ ~live'.stopped
        /\ live'.attempts = 0 /\ live'.rejections = 0
        /\ live.handle + 1 <= requests' + reboots'
        /\ creds' \in [Handles -> {"fresh", "registered"}]
        /\ creds'[live'.handle] = "registered" <=> session = "registered"
    BY <1>1, <1>2, <1>3, RestoredType, TypedParts DEF Typed, TypeOK
  <1>5. Typed'
    BY <1>1, <1>2, <1>3, <1>4, TypedParts, TypedFrom, ConstantsOK DEF Typed, TypeOK
  <1>6. \A s \in Slots : sockets'[s].state = "closed"
    BY <1>3 DEF Dead
  <1>7. ~hurried' => AtPeace'
    BY <1>1, <1>2, <1>3, <1>4, <1>6
       DEF IInv, AtPeace, Single, ClosingIsStopped, StoppedIsQuiet, Stored, Live, Up
  <1>8. QED
    BY <1>5, <1>7 DEF IInv

-------------------------------------------------------------------------------
(***************************************************************************)
(* Sockets                                                                 *)
(***************************************************************************)

\* A step that is no request and leaves the connection's handle and tries alone.
LEMMA CalmTyped ==
  ASSUME Typed, live' \in LiveRecord, sockets' \in [Slots -> Socket],
         live'.handle = live.handle, live'.stopped = live.stopped,
         live'.attempts \in {0, live.attempts}, live'.rejections \in {0, live.rejections},
         sock' \in Slots \cup {NoSlot}, opening' \in Nat, timers' \in Nat,
         creds' \in [Handles -> {"fresh", "registered"}],
         row' \in [status : {"none", "pending", "linked", "logged_out"},
                   number : Numbers \cup {NoNumber}],
         session' \in {"none", "fresh", "registered"}, UNCHANGED counts
  PROVE  Typed'
  <1>1. /\ requests' \in 0..MaxRequests /\ reboots' \in 0..MaxReboots
        /\ hurried' \in BOOLEAN /\ live'.handle <= requests' + reboots'
    BY DEF Typed, TypeOK, counts
  <1>2. ~live'.stopped =>
          live'.attempts < MaxLinkAttempts /\ live'.rejections < MaxRejections
    BY ConstantsOK DEF Typed
  <1>3. QED
    BY <1>1, <1>2, TypedFrom

LEMMA OpenSocketStep ==
  ASSUME IInv, NEW s \in Slots, OpenSocket(s)
  PROVE  IInv'
  <1> DEFINE new == [state |-> "connecting", handle |-> live.handle,
                     number |-> live.number, code |-> IF NeedsCode THEN "timer" ELSE "none"]
  <1>1. Typed
    BY DEF IInv
  <1>2. new \in Socket /\ new.state = "connecting" /\ new.handle = live.handle
    BY <1>1, TypedParts DEF Socket, LiveRecord, Up
  <1>3. /\ opening > 0 /\ opening' = opening - 1 /\ sock' = s
        /\ sockets' = [sockets EXCEPT ![s] = new]
        /\ live' = [live EXCEPT !.codeAsked = @ \/ NeedsCode]
        /\ UNCHANGED <<timers, creds, row, session, counts>>
    BY DEF OpenSocket
  <1> HIDE DEF new
  <1>4. (live.codeAsked \/ NeedsCode) \in BOOLEAN
    BY <1>1, TypedParts DEF LiveRecord, NeedsCode
  <1>5. /\ live' \in LiveRecord /\ live'.handle = live.handle
        /\ live'.stopped = live.stopped /\ live'.attempts = live.attempts
        /\ live'.rejections = live.rejections
    <2> DEFINE asked == live.codeAsked \/ NeedsCode
    <2>1. live' = [live EXCEPT !.codeAsked = asked] /\ asked \in BOOLEAN
      BY <1>3, <1>4
    <2> HIDE DEF asked
    <2>2. QED
      BY <1>1, <2>1, TypedParts DEF LiveRecord
  <1>6. sockets' \in [Slots -> Socket] /\ opening' \in Nat
    BY <1>1, <1>2, <1>3, TypedParts DEF Typed, TypeOK
  <1>7. Typed'
    BY <1>1, <1>3, <1>5, <1>6, CalmTyped, TypedParts DEF Typed, TypeOK
  <1>8. ASSUME ~hurried' PROVE AtPeace'
    <2>1. AtPeace
      BY <1>3, <1>8 DEF IInv, counts
    <2>2. opening = 1 /\ timers = 0 /\ \A t \in Slots : ~Live(t)
      <3>1. opening \in Nat /\ timers \in Nat
        BY <1>1 DEF Typed, TypeOK
      <3>2. opening > 0 /\ opening + timers <= 1 /\ \A t \in Slots : Live(t) => opening = 0
        BY <1>3, <2>1 DEF AtPeace, Single
      <3>3. QED
        BY <3>1, <3>2
    <2>3. /\ \A t \in Slots \ {s} : sockets'[t] = sockets[t]
          /\ sockets'[s] = new
      BY <1>1, <1>3, TypedParts
    <2>4. Live(s)' /\ \A t \in Slots \ {s} : ~Live(t)'
      BY <1>2, <2>2, <2>3 DEF Live, Up
    <2>5. ~live.stopped
      BY <2>1, <2>2 DEF AtPeace, StoppedIsQuiet
    <2>6. \A t \in Slots : sockets'[t].state # "closing"
      BY <1>2, <2>1, <2>3, <2>5 DEF AtPeace, ClosingIsStopped
    <2>7. QED
      BY <1>2, <1>3, <1>5, <2>1, <2>2, <2>3, <2>4, <2>5, <2>6
         DEF AtPeace, Single, ClosingIsStopped, StoppedIsQuiet, Stored
  <1>9. QED
    BY <1>7, <1>8 DEF IInv

LEMMA ReconnectStep ==
  ASSUME IInv, Reconnect
  PROVE  IInv'
  <1>1. Typed
    BY DEF IInv
  <1>2. Typed'
    BY <1>1, CalmTyped, TypedParts DEF Reconnect, Typed, TypeOK
  <1>3. ASSUME ~hurried' PROVE AtPeace'
    BY <1>1, <1>3
       DEF Reconnect, IInv, AtPeace, Single, ClosingIsStopped, StoppedIsQuiet, Stored,
           Live, Typed, TypeOK, counts
  <1>4. QED
    BY <1>2, <1>3 DEF IInv

\* A step that moves one socket between states that are not "closing", and no
\* connector comes or goes.
LEMMA SocketStep ==
  ASSUME IInv, NEW s \in Slots, NEW new \in Socket,
         sockets' = [sockets EXCEPT ![s] = new],
         Live(s)' = Live(s), new.state = "closing" => sockets[s].state = "closing",
         Live(s) => new.handle = sockets[s].handle,
         live' \in LiveRecord, live'.handle = live.handle, live'.stopped = live.stopped,
         UNCHANGED <<sock, opening, timers, hurried>>,
         AtPeace => Stored'
  PROVE  ~hurried' => AtPeace'
  <1>1. sockets \in [Slots -> Socket]
    BY TypedParts DEF IInv
  <1>2. \A t \in Slots \ {s} : sockets'[t] = sockets[t] /\ (Live(t)' <=> Live(t))
    BY <1>1 DEF Live
  <1>3. sockets'[s] = new
    BY <1>1
  <1>4. ASSUME ~hurried' PROVE AtPeace'
    <2>1. AtPeace
      BY <1>4 DEF IInv
    <2>2. \A t \in Slots : Live(t)' <=> Live(t)
      BY <1>2 DEF Live
    <2>3. Single'
      BY <1>2, <1>3, <2>1, <2>2 DEF AtPeace, Single
    <2>4. ClosingIsStopped' /\ StoppedIsQuiet'
      BY <1>2, <1>3, <2>1, <2>2 DEF AtPeace, ClosingIsStopped, StoppedIsQuiet
    <2>5. QED
      BY <2>1, <2>3, <2>4 DEF AtPeace
  <1>5. QED
    BY <1>4

LEMMA CodeStep ==
  ASSUME IInv, NEW s \in Slots, AskCode(s) \/ CodeIssued(s) \/ CodeFails(s)
  PROVE  IInv'
  <1>1. Typed
    BY DEF IInv
  <1>2. PICK new \in Socket :
          /\ sockets' = [sockets EXCEPT ![s] = new]
          /\ new.state = sockets[s].state
          /\ Live(s) => new.handle = sockets[s].handle
    <2>1. CASE AskCode(s)
      <3>1. [sockets[s] EXCEPT !.code = IF Live(s) THEN "asked" ELSE "none"] \in Socket
        BY <1>1, TypedParts DEF Socket
      <3>2. QED
        BY <1>1, <2>1, <3>1, TypedParts DEF AskCode, Socket
    <2>2. CASE CodeIssued(s) \/ CodeFails(s)
      <3>1. [sockets[s] EXCEPT !.code = "none"] \in Socket
        BY <1>1, TypedParts DEF Socket
      <3>2. QED
        BY <1>1, <2>2, <3>1, TypedParts
           DEF CodeIssued, CodeFails, Answered, Socket, Live, Up, Dead
    <2>3. QED
      BY <2>1, <2>2
  <1>3. /\ live' \in LiveRecord /\ live'.handle = live.handle
        /\ live'.stopped = live.stopped /\ live'.attempts = live.attempts
        /\ live'.rejections = live.rejections
    BY <1>1, TypedParts DEF AskCode, CodeIssued, CodeFails, LiveRecord, Socket
  <1>4. UNCHANGED <<sock, opening, timers, creds, row, session, counts>>
    BY DEF AskCode, CodeIssued, CodeFails
  <1>5. sockets' \in [Slots -> Socket] /\ Live(s)' = Live(s)
    BY <1>1, <1>2, TypedParts DEF Live
  <1>6. Typed'
    BY <1>1, <1>3, <1>4, <1>5, CalmTyped, TypedParts DEF Typed, TypeOK
  <1>7. AtPeace => Stored'
    BY <1>3, <1>4 DEF AtPeace, Stored
  <1>8. ~hurried' => AtPeace'
    BY <1>2, <1>3, <1>4, <1>5, <1>7, SocketStep DEF counts
  <1>9. QED
    BY <1>6, <1>8 DEF IInv

LEMMA SessionStep ==
  ASSUME IInv, NEW s \in Slots, Paired(s) \/ SaveCreds(s)
  PROVE  IInv'
  <1>1. Typed
    BY DEF IInv
  <1>2. PICK new \in Socket :
          /\ sockets' = [sockets EXCEPT ![s] = new]
          /\ new.state \in Up /\ new.handle = sockets[s].handle
    <2>1. CASE Paired(s)
      <3>1. [sockets[s] EXCEPT !.state = "restarting"] \in Socket
        BY <1>1, TypedParts DEF Socket, Up
      <3>2. QED
        BY <1>1, <2>1, <3>1, TypedParts DEF Paired, Socket, Up
    <2>2. CASE SaveCreds(s)
      BY <1>1, <2>2, TypedParts DEF SaveCreds, Live
    <2>3. QED
      BY <2>1, <2>2
  <1>3. Live(s) /\ UNCHANGED <<live, sock, opening, timers, row, counts>>
    BY DEF Paired, SaveCreds, Live, Up
  <1>4. sockets' \in [Slots -> Socket] /\ Live(s)'
    BY <1>1, <1>2, TypedParts DEF Live
  <1>5. /\ creds' \in [Handles -> {"fresh", "registered"}]
        /\ session' = creds'[live.handle]
        /\ creds' = creds \/ creds' = [creds EXCEPT ![sockets[s].handle] = "registered"]
    BY <1>1 DEF Paired, SaveCreds, Saved, Typed, TypeOK
  <1>6. live.handle \in Handles
    BY <1>1, TypedParts DEF LiveRecord
  <1>7. Typed'
    BY <1>1, <1>3, <1>4, <1>5, <1>6, CalmTyped, TypedParts DEF Typed, TypeOK
  <1>8. AtPeace => Stored'
    BY <1>1, <1>3, <1>5, <1>6 DEF AtPeace, Single, Stored, Typed, TypeOK
  <1>9. ~hurried' => AtPeace'
    BY <1>1, <1>2, <1>3, <1>4, <1>8, TypedParts, SocketStep DEF counts, Up
  <1>10. QED
    BY <1>7, <1>9 DEF IInv

LEMMA OpenedStep ==
  ASSUME IInv, NEW s \in Slots, Opened(s)
  PROVE  IInv'
  <1>1. Typed
    BY DEF IInv
  <1>2. PICK new \in Socket :
          /\ sockets' = [sockets EXCEPT ![s] = new]
          /\ new.state = "open" /\ new.handle = sockets[s].handle
    <2>1. [sockets[s] EXCEPT !.state = "open"] \in Socket
      BY <1>1, TypedParts DEF Socket, Up
    <2>2. QED
      BY <1>1, <2>1, TypedParts DEF Opened, Socket
  <1>3. /\ Live(s) /\ creds[sockets[s].handle] = "registered"
        /\ UNCHANGED <<sock, opening, timers, creds, session, counts>>
    BY DEF Opened, Live, Up
  <1>4. sockets' \in [Slots -> Socket] /\ Live(s)'
    BY <1>1, <1>2, TypedParts DEF Live, Up
  <1>5. /\ live' \in LiveRecord /\ live'.handle = live.handle
        /\ live'.stopped = live.stopped /\ live'.attempts = 0 /\ live'.rejections = 0
    <2>1. 0 \in 0..MaxLinkAttempts /\ 0 \in 0..MaxRejections
      BY ConstantsOK
    <2>2. live' = [live EXCEPT !.attempts = 0, !.rejections = 0, !.code = NoNumber,
                               !.linked = TRUE, !.status = "linked"]
      BY DEF Opened
    <2>3. QED
      BY <1>1, <2>1, <2>2, TypedParts DEF LiveRecord
  <1>6. row' \in [status : {"none", "pending", "linked", "logged_out"},
                  number : Numbers \cup {NoNumber}]
    BY <1>1, UpsertedType DEF Opened
  <1>7. Typed'
    BY <1>1, <1>3, <1>4, <1>5, <1>6, CalmTyped DEF Typed, TypeOK
  <1>8. AtPeace => Stored'
    BY <1>3, <1>5 DEF AtPeace, Single, StoppedIsQuiet, Stored
  <1>9. ~hurried' => AtPeace'
    BY <1>1, <1>2, <1>3, <1>4, <1>5, <1>8, SocketStep DEF counts, Up
  <1>10. QED
    BY <1>7, <1>9 DEF IInv

-------------------------------------------------------------------------------
(***************************************************************************)
(* Closing                                                                 *)
(***************************************************************************)

\* What handleClose() leaves of the connection, the row and the timers.
LEMMA HandleCloseOK ==
  ASSUME Typed, NEW rejected \in BOOLEAN, HandleClose(rejected)
  PROVE  /\ live' \in LiveRecord /\ live'.handle = live.handle
         /\ ~live'.stopped =>
              live'.attempts < MaxLinkAttempts /\ live'.rejections < MaxRejections
         /\ row' \in [status : {"none", "pending", "linked", "logged_out"},
                      number : Numbers \cup {NoNumber}]
         /\ row' = row \/ row'.status = "logged_out"
         /\ live.stopped => UNCHANGED <<live, row, timers>>
         /\ timers' = timers \/ (timers' = timers + 1 /\ live'.stopped = live.stopped)
  <1>1. CASE live.stopped
    BY <1>1, TypedParts DEF HandleClose
  <1>2. CASE ~live.stopped
    <2>1. /\ live.attempts \in Nat /\ live.attempts < MaxLinkAttempts
          /\ live.rejections \in Nat /\ live.rejections < MaxRejections
          /\ live.linked \in BOOLEAN
      BY <1>2, TypedParts, ConstantsOK DEF Typed, LiveRecord
    <2>2. CASE LoggedOut
      <3>1. live.rejections + 1 \in 0..MaxRejections
        BY <2>1, ConstantsOK
      <3>2. live' \in LiveRecord /\ live'.handle = live.handle /\ live'.stopped
        BY <2>2, <3>1, TypedParts DEF LoggedOut, LiveRecord
      <3>3. /\ row' \in [status : {"none", "pending", "linked", "logged_out"},
                         number : Numbers \cup {NoNumber}]
            /\ row'.status = "logged_out" /\ timers' = timers
        BY <2>2, UpsertedType DEF LoggedOut
      <3>4. QED
        BY <1>2, <3>2, <3>3, Zenon
    <2>3. CASE GiveUp
      <3>1. live.attempts + 1 \in 0..MaxLinkAttempts
        BY <2>1, ConstantsOK
      <3>2. live' \in LiveRecord /\ live'.handle = live.handle /\ live'.stopped
        BY <2>3, <3>1, TypedParts DEF GiveUp, LiveRecord
      <3>3. /\ row \in [status : {"none", "pending", "linked", "logged_out"},
                        number : Numbers \cup {NoNumber}]
            /\ UNCHANGED <<row, timers>>
        BY <2>3, TypedParts DEF GiveUp
      <3>4. QED
        BY <1>2, <3>2, <3>3, Zenon
    <2>4. CASE ~LogsOut(rejected) /\ (live.linked \/ ~GivesUp) /\ Retry(rejected)
      <3> DEFINE tries == IF live.linked THEN live.attempts ELSE live.attempts + 1
                 refusals == IF ~live.linked THEN live.rejections
                             ELSE IF rejected THEN live.rejections + 1 ELSE 0
      <3>1. tries \in 0..MaxLinkAttempts /\ tries < MaxLinkAttempts
        BY <2>1, <2>4, ConstantsOK DEF GivesUp
      <3>2. refusals \in 0..MaxRejections /\ refusals < MaxRejections
        <4>1. CASE live.linked /\ rejected
          BY <2>1, <2>4, <4>1, ConstantsOK DEF LogsOut
        <4>2. CASE ~(live.linked /\ rejected)
          BY <2>1, <4>2, ConstantsOK
        <4>3. QED
          BY <4>1, <4>2
      <3>3. live' = [live EXCEPT !.attempts = tries, !.rejections = refusals]
            /\ timers' = timers + 1 /\ row' = row
        BY <2>4 DEF Retry
      <3> HIDE DEF tries, refusals
      <3>4. /\ live' \in LiveRecord /\ live'.handle = live.handle
            /\ live'.stopped = live.stopped
            /\ live'.attempts < MaxLinkAttempts /\ live'.rejections < MaxRejections
        BY <3>1, <3>2, <3>3, TypedParts DEF LiveRecord
      <3>5. QED
        BY <1>2, <3>3, <3>4, TypedParts
    <2>5. QED
      BY <1>2, <2>2, <2>3, <2>4 DEF HandleClose
  <1>3. QED
    BY <1>1, <1>2

LEMMA ClosedStep ==
  ASSUME IInv, NEW s \in Slots, NEW rejected \in BOOLEAN, Closed(s, rejected)
  PROVE  IInv'
  <1>1. Typed
    BY DEF IInv
  <1>2. PICK new \in Socket :
          sockets' = [sockets EXCEPT ![s] = new] /\ new.state = "closed"
    <2> DEFINE number == IF sockets[s].code = "asked" THEN sockets[s].number ELSE NoNumber
    <2>1. number \in Numbers \cup {NoNumber} /\ 0 \in Handles
      BY <1>1, TypedParts, ConstantsOK DEF Socket, Handles
    <2>2. sockets' = [sockets EXCEPT
                        ![s] = [sockets[s] EXCEPT !.state = "closed", !.handle = 0,
                                                  !.number = number]]
      BY <1>1, TypedParts DEF Closed, Socket
    <2> HIDE DEF number
    <2>3. [sockets[s] EXCEPT !.state = "closed", !.handle = 0, !.number = number] \in Socket
      BY <1>1, <2>1, TypedParts DEF Socket
    <2>4. [sockets[s] EXCEPT !.state = "closed", !.handle = 0, !.number = number].state
            = "closed"
      BY <1>1, TypedParts DEF Socket
    <2>5. QED
      BY <2>2, <2>3, <2>4
  <1>3. /\ sockets[s].state # "closed" /\ HandleClose(rejected)
        /\ UNCHANGED <<sock, opening, creds, session, counts>>
    BY DEF Closed
  <1>4. /\ live' \in LiveRecord /\ live'.handle = live.handle
        /\ ~live'.stopped =>
             live'.attempts < MaxLinkAttempts /\ live'.rejections < MaxRejections
        /\ row' \in [status : {"none", "pending", "linked", "logged_out"},
                     number : Numbers \cup {NoNumber}]
        /\ row' = row \/ row'.status = "logged_out"
        /\ live.stopped => UNCHANGED <<live, row, timers>>
        /\ timers' = timers \/ (timers' = timers + 1 /\ live'.stopped = live.stopped)
    BY <1>1, <1>3, HandleCloseOK
  <1>5. /\ sockets' \in [Slots -> Socket] /\ timers' \in Nat
        /\ \A t \in Slots \ {s} : sockets'[t] = sockets[t]
        /\ sockets'[s].state = "closed"
    BY <1>1, <1>2, <1>4, TypedParts DEF Typed, TypeOK
  <1>6. Typed'
    <2>1. /\ requests' \in 0..MaxRequests /\ reboots' \in 0..MaxReboots
          /\ hurried' \in BOOLEAN /\ live'.handle <= requests' + reboots'
      BY <1>1, <1>3, <1>4 DEF Typed, TypeOK, counts
    <2>2. QED
      BY <1>1, <1>3, <1>4, <1>5, <2>1, TypedFrom DEF Typed, TypeOK
  <1>7. ASSUME ~hurried' PROVE AtPeace'
    <2>1. AtPeace
      BY <1>3, <1>7 DEF IInv, counts
    <2>2. ~Live(s)' /\ \A t \in Slots \ {s} : Live(t)' <=> Live(t)
      BY <1>5 DEF Live, Up
    <2>3. CASE live.stopped
      BY <1>3, <1>4, <1>5, <2>1, <2>2, <2>3
         DEF AtPeace, Single, ClosingIsStopped, StoppedIsQuiet, Stored
    <2>4. CASE ~live.stopped
      <3>1. Live(s)
        <4>1. sockets[s].state \in Up \cup {"closing", "closed"}
          BY <1>1, TypedParts DEF Socket
        <4>2. QED
          BY <1>3, <2>1, <2>4, <4>1 DEF AtPeace, ClosingIsStopped, Live
      <3>2. opening = 0 /\ timers = 0 /\ \A t \in Slots : ~Live(t)'
        BY <2>1, <2>2, <3>1 DEF AtPeace, Single
      <3>3. opening' + timers' <= 1
        BY <1>3, <1>4, <3>2
      <3>4. \A t \in Slots : sockets'[t].state # "closing"
        BY <1>5, <2>1, <2>4 DEF AtPeace, ClosingIsStopped
      <3>5. Stored'
        BY <1>3, <1>4, <2>1, <2>4 DEF AtPeace, Stored
      <3>6. QED
        BY <1>3, <3>2, <3>3, <3>4, <3>5
           DEF AtPeace, Single, ClosingIsStopped, StoppedIsQuiet
    <2>5. QED
      BY <2>3, <2>4
  <1>8. QED
    BY <1>6, <1>7 DEF IInv

LEMMA NextStep ==
  ASSUME IInv, [Next]_vars
  PROVE  IInv'
  <1>1. CASE UNCHANGED vars
    BY <1>1
       DEF vars, counts, IInv, Typed, TypeOK, AtPeace, Single, ClosingIsStopped,
           StoppedIsQuiet, Stored, Live
  <1>2. ASSUME Next PROVE IInv'
    BY <1>2, LinkStep, UnlinkStep, RebootStep, OpenSocketStep, ReconnectStep, CodeStep,
       SessionStep, OpenedStep, ClosedStep
       DEF Next, Proceed
  <1>3. QED
    BY <1>1, <1>2

-------------------------------------------------------------------------------
(***************************************************************************)
(* Theorems                                                                *)
(***************************************************************************)

\* Types, single connector and stored session, along every behaviour.
THEOREM ConnectionInvariant == Spec => []IInv
  <1>1. IInv /\ [Next]_vars => IInv'
    BY NextStep
  <1>2. QED
    BY InitOK, <1>1, PTL DEF Spec

\* Every variable keeps its type, the tries within their limits.
THEOREM TypeCorrect == Spec => []TypeOK
  <1>1. IInv => TypeOK
    BY DEF IInv, Typed
  <1>2. QED
    BY <1>1, ConnectionInvariant, PTL

LEMMA AtMostOne ==
  ASSUME IInv, ~hurried
  PROVE  Connectors <= 1
  <1> DEFINE L == {s \in Slots : Live(s)}
  <1>1. opening \in Nat /\ timers \in Nat /\ Single
    BY DEF IInv, Typed, TypeOK, AtPeace
  <1>2. CASE L = {}
    <2>1. Cardinality(L) = 0
      BY <1>2, FS_EmptySet
    <2>2. QED
      BY <1>1, <2>1 DEF Single, Connectors
  <1>3. CASE L # {}
    <2>1. L = {sock} /\ opening = 0 /\ timers = 0
      BY <1>1, <1>3 DEF Single
    <2>2. Cardinality(L) = 1
      BY <2>1, FS_Singleton
    <2>3. QED
      BY <2>1, <2>2 DEF Connectors
  <1>4. QED
    BY <1>2, <1>3

\* As long as requests come at rest, no close, timer, reboot or re-link leaves two
\* sockets on their way.
THEOREM OneConnectorAlways == Spec => []OneConnector
  <1>1. IInv => OneConnector
    BY AtMostOne DEF OneConnector
  <1>2. QED
    BY <1>1, ConnectionInvariant, PTL

\* Then also a row that says linked has a registered session, whenever the process
\* ends.
THEOREM LinkedIsAlwaysResumable == Spec => []LinkedIsResumable
  <1>1. IInv => LinkedIsResumable
    BY DEF IInv, AtPeace, Stored, LinkedIsResumable
  <1>2. QED
    BY <1>1, ConnectionInvariant, PTL

-------------------------------------------------------------------------------
(***************************************************************************)
(* A group that is joined: the inductive invariant                         *)
(***************************************************************************)

\* The work that may wait, and the types of what goes through the queue and the chain.
Waits == [kind : {"live"}, msg : LiveMsgs]
    \cup [kind : {"chunk"}, epoch : Nat, rows : SUBSET PastMsgs, complete : BOOLEAN]
    \cup [kind : {"timeout"}, epoch : Nat \ {0}]
Works == [at : {"idle", "downloading", "replaying", "letting go", "fetching"},
          kind : {"none", "live", "chunk", "complete", "timeout"}, epoch : Nat,
          msgs : Seq(LiveMsgs)]
Marks == {"none", "live", "history", "relayed"}
Entries == [kind : {"batch", "replay"}, epoch : Nat, msgs : Seq(LiveMsgs)]
Posts == [msg : Msgs, as : {"live", "history"}, from : Nat]
Jobs == [at : {"none", "opening", "row", "sending"}, epoch : Nat, rows : SUBSET Msgs, from : Nat]

InHand == work.at \in {"downloading", "fetching"}

Stays == [epoch : Nat, held : Seq(LiveMsgs), fired : BOOLEAN]
Parcels == [msg : LiveMsgs, epoch : Nat]

\* Types; socket and router count the same membership changes; and a wait is of the
\* present stay, which work and its replay may have outlived.
MemberShape ==
  /\ epoch \in Nat /\ joined \in BOOLEAN
  /\ member \in [present : {"unknown", "in", "out"}, epoch : {epoch}]
  /\ joined => member.present = "in"
  /\ ~joined => member.present # "in"
WaitShape == wait \in Stays /\ (Waiting => joined /\ wait.epoch = epoch)
WorkShape == work \in Works /\ work.epoch <= epoch /\ (InHand => work.msgs # <<>>)
StayShape == MemberShape /\ WaitShape /\ queue \in Seq(Waits) /\ WorkShape

RelayShape ==
  /\ store \in [Msgs -> Marks]
  /\ buffer \in Seq(Parcels)
  /\ chain \in Seq(Entries)
  /\ posts \in Seq(Posts)
  /\ job \in Jobs

\* Where a live message can be between its capture and its post.
Handed(m) == InHand /\ Head(work.msgs) = m
Buffered(m) == \E i \in DOMAIN buffer : buffer[i].msg = m
Chained(m) == \E i \in DOMAIN chain : \E j \in DOMAIN chain[i].msgs : chain[i].msgs[j] = m
PostedMsg(m) == \E i \in DOMAIN posts : posts[i].msg = m

\* It is in one place of these and there once, and its row in the store says live;
\* what was posted from history was marked; and the gateway's own are in none.
Apart ==
  /\ \A m \in LiveMsgs : Handed(m) => ~Buffered(m) /\ ~Chained(m) /\ ~PostedMsg(m)
  /\ \A m \in LiveMsgs : Buffered(m) => ~Chained(m) /\ ~PostedMsg(m)
  /\ \A m \in LiveMsgs : Chained(m) => ~PostedMsg(m)
Captured ==
  \A m \in LiveMsgs : Handed(m) \/ Buffered(m) \/ Chained(m) => store[m] = "live" /\ m \notin Echoes
BufferedOnce == \A i, k \in DOMAIN buffer : buffer[i].msg = buffer[k].msg => i = k
ChainedOnce ==
  \A i, k \in DOMAIN chain : \A j \in DOMAIN chain[i].msgs, l \in DOMAIN chain[k].msgs :
     chain[i].msgs[j] = chain[k].msgs[l] => i = k /\ j = l
Kept ==
  /\ \A i, k \in DOMAIN posts : posts[i].msg = posts[k].msg => i = k
  /\ \A i \in DOMAIN posts :
       /\ posts[i].as = "live" => store[posts[i].msg] = "live"
       /\ posts[i].as = "history" => store[posts[i].msg] = "relayed"
       /\ posts[i].msg \notin Echoes
PlaceInv == Apart /\ Captured /\ BufferedOnce /\ ChainedOnce /\ Kept

\* A mark is of a post, and history is not the gateway's own.
MarkInv ==
  /\ \A m \in Msgs : store[m] = "relayed" => m \in Echoes \/ PostedMsg(m)
  /\ \A m \in Echoes : store[m] # "history"

IsReplay(i) == chain[i].kind = "replay"

\* One replay at a time, which the queue waits for; its rows are still unmarked.
ReplayInv ==
  /\ \A i \in DOMAIN chain : IsReplay(i) => work.at = "replaying"
  /\ \A i, k \in DOMAIN chain : IsReplay(i) /\ IsReplay(k) => i = k
  /\ job.at # "none" =>
       /\ chain # <<>> /\ IsReplay(1)
       /\ job.rows \subseteq Unrelayed

\* Its posts are told by their number, and are older than its other rows.
SortInv ==
  /\ \A i \in DOMAIN posts : posts[i].as = "history" => posts[i].from < i
  /\ OldestFirstPosted
  /\ job.at # "none" =>
       /\ job.from <= Len(posts)
       /\ \A i \in DOMAIN posts : posts[i].as = "history" /\ posts[i].from = job.from =>
            \A m \in job.rows : posts[i].msg < m

\* A replay that a wait of the present stay is for has not yet read what is in the
\* store, has it among its rows, or has given it up.
AwaitedTurn ==
  work.at = "replaying" /\ work.epoch = epoch /\ Waiting =>
    /\ \A i \in DOMAIN chain : IsReplay(i) => chain[i].epoch = epoch
    /\ (\A i \in DOMAIN chain : ~IsReplay(i)) => Unrelayed \subseteq missed
    /\ job.at # "none" => Unrelayed \subseteq missed \cup job.rows
TurnInv == AwaitedTurn /\ missed \subseteq Msgs /\ owed \in [LiveMsgs -> SUBSET Msgs] /\ HistoryFirst

HistoryInv == StayShape /\ RelayShape /\ PlaceInv /\ MarkInv /\ ReplayInv /\ SortInv /\ TurnInv

-------------------------------------------------------------------------------

\* The chain and the quiet window leave the socket alone.
LEMMA ChainFrame ==
  ASSUME ChainStep \/ Flush
  PROVE  UNCHANGED <<epoch, joined, member, wait, queue, work, owed>>
  BY DEF ChainStep, Flush, ReadRows, Prepare, Close, Batch, Open, Relay, ChainOnly

\* Events of the membership and arrivals leave the relay alone.
Event ==
  \/ SelfAdded \/ AddedAgain \/ SelfRemoved \/ WaitEnds
  \/ \E m \in LiveMsgs : Arrive(m)
  \/ \E S \in SUBSET PastMsgs, complete \in BOOLEAN : ChunkArrives(S, complete)

LEMMA EventFrame ==
  ASSUME Event
  PROVE  UNCHANGED <<work, store, buffer, owed, chain, job, posts, missed>>
  BY DEF Event, SelfAdded, AddedAgain, SelfRemoved, WaitEnds, Arrive, ChunkArrives, socketVars,
         routerVars, worldVars

\* Held messages are taken one by one.
LEMMA WorkFetches ==
  ASSUME NEW w \in Works, NEW v, v = [w EXCEPT !.at = "fetching"]
  PROVE  v \in Works /\ v.at = "fetching" /\ v.msgs = w.msgs /\ v.epoch = w.epoch
  BY DEF Works

LEMMA MemberStep ==
  ASSUME MemberShape, [HistoryNext]_historyVars
  PROVE  MemberShape'
  <1> USE DEF MemberShape
  <1>1. CASE SelfAdded
    BY <1>1 DEF SelfAdded, Counted
  <1>2. CASE AddedAgain
    BY <1>2 DEF AddedAgain, Counted, socketVars
  <1>3. CASE SelfRemoved
    <2>1. member' = [present |-> "out", epoch |-> epoch + 1]
      BY <1>3 DEF SelfRemoved, Counted
    <2>2. epoch' = epoch + 1 /\ joined' \in BOOLEAN /\ ~joined'
      BY <1>3 DEF SelfRemoved
    <2>3. member'.present = "out"
      BY <2>1
    <2>4. /\ epoch' \in Nat
          /\ member' \in [present : {"unknown", "in", "out"}, epoch : {epoch'}]
      BY <2>1, <2>2
    <2>5. QED
      BY <2>2, <2>3, <2>4
  <1>4. CASE UNCHANGED <<epoch, joined, member>>
    BY <1>4
  <1>5. CASE WaitEnds \/ QueueStep \/ UNCHANGED historyVars
    BY <1>4, <1>5 DEF WaitEnds, QueueStep, Hold, TakeLive, Downloaded, CaptureChunk, IgnoreChunk,
       TimeoutTurn, Released, LetGo, Fetched, AllGone, historyVars
  <1>6. CASE \/ \E m \in LiveMsgs : Arrive(m)
             \/ \E S \in SUBSET PastMsgs, complete \in BOOLEAN : ChunkArrives(S, complete)
    BY <1>4, <1>6 DEF Arrive, ChunkArrives
  <1>7. QED
    BY <1>1, <1>2, <1>3, <1>4, <1>5, <1>6, ChainFrame DEF HistoryNext

LEMMA QueueTyped ==
  ASSUME queue \in Seq(Waits), MemberShape, WaitShape, [HistoryNext]_historyVars
  PROVE  queue' \in Seq(Waits)
  <1>1. ASSUME NEW m \in LiveMsgs, Arrive(m)
        PROVE  queue' \in Seq(Waits)
    <2>1. [kind |-> "live", msg |-> m] \in Waits
      BY DEF Waits
    <2>2. QED
      BY <1>1, <2>1 DEF Arrive
  <1>2. ASSUME NEW S \in SUBSET PastMsgs, NEW complete \in BOOLEAN, ChunkArrives(S, complete)
        PROVE  queue' \in Seq(Waits)
    <2>1. [kind |-> "chunk", epoch |-> epoch, rows |-> S, complete |-> complete] \in Waits
      BY <1>2 DEF Waits, MemberShape
    <2>2. QED
      BY <1>2, <2>1 DEF ChunkArrives
  <1>3. CASE WaitEnds
    <2>1. [kind |-> "timeout", epoch |-> wait.epoch] \in Waits
      BY <1>3 DEF WaitEnds, Waits, Waiting, WaitShape, Stays
    <2>2. QED
      BY <1>3, <2>1 DEF WaitEnds
  <1>4. CASE queue' = queue \/ (queue # <<>> /\ queue' = Tail(queue))
    BY <1>4, HeadTailProperties
  <1>5. CASE SelfAdded \/ AddedAgain \/ SelfRemoved \/ QueueStep \/ UNCHANGED historyVars
    BY <1>4, <1>5 DEF SelfAdded, AddedAgain, SelfRemoved, QueueStep, Hold, TakeLive, Downloaded,
       CaptureChunk, IgnoreChunk, TimeoutTurn, Released, LetGo, Fetched, AllGone, historyVars,
       socketVars, Next1
  <1>6. QED
    BY <1>1, <1>2, <1>3, <1>4, <1>5, ChainFrame DEF HistoryNext

LEMMA FirstTyped ==
  ASSUME queue \in Seq(Waits), Next1
  PROVE  /\ First.kind = "live" => First.msg \in LiveMsgs
         /\ First.kind = "chunk" => First.rows \in SUBSET PastMsgs
         /\ First.kind = "timeout" => First.epoch \in Nat \ {0}
  <1>1. First \in Waits
    BY HeadTailProperties DEF Next1, First
  <1>2. QED
    BY <1>1 DEF Waits

LEMMA WaitStep ==
  ASSUME StayShape, [HistoryNext]_historyVars
  PROVE  WaitShape'
  <1> USE DEF StayShape, WaitShape, Waiting, MemberShape
  <1>1. CASE SelfAdded
    BY <1>1 DEF SelfAdded, Stays
  <1>2. CASE SelfRemoved \/ (Released /\ wait' = NoWait)
    <2>1. wait' = [epoch |-> 0, held |-> <<>>, fired |-> FALSE]
      BY <1>2 DEF SelfRemoved, NoWait
    <2>2. wait' \in Stays /\ wait'.epoch = 0
      BY <2>1 DEF Stays
    <2>3. QED
      BY <2>2
  <1>3. CASE WaitEnds
    BY <1>3 DEF WaitEnds, Stays
  <1>4. CASE Hold
    <2>1. First.msg \in LiveMsgs
      BY <1>4, FirstTyped DEF Hold
    <2>2. PICK w \in Stays : w = wait
      OBVIOUS
    <2>3. PICK s \in Seq(LiveMsgs) : s = Append(w.held, First.msg)
      <3>1. w.held \in Seq(LiveMsgs)
        BY <2>2 DEF Stays
      <3>2. Append(w.held, First.msg) \in Seq(LiveMsgs)
        BY <2>1, <3>1
      <3>3. QED
        BY <3>2, Zenon
    <2>4. wait' = [w EXCEPT !.held = s] /\ epoch' = epoch /\ joined' = joined
      BY <1>4, <2>2, <2>3 DEF Hold
    <2>5. wait' \in Stays /\ wait'.epoch = w.epoch
      BY <2>2, <2>4 DEF Stays
    <2>6. QED
      BY <2>2, <2>4, <2>5
  <1>5. CASE UNCHANGED <<wait, epoch, joined>>
    BY <1>5
  <1>6. CASE AddedAgain \/ QueueStep \/ UNCHANGED historyVars
    BY <1>2, <1>4, <1>5, <1>6 DEF AddedAgain, QueueStep, TakeLive, Downloaded, CaptureChunk,
       IgnoreChunk, TimeoutTurn, Released, LetGo, Fetched, AllGone, historyVars, socketVars
  <1>7. CASE \/ \E m \in LiveMsgs : Arrive(m)
             \/ \E S \in SUBSET PastMsgs, complete \in BOOLEAN : ChunkArrives(S, complete)
    BY <1>5, <1>7 DEF Arrive, ChunkArrives
  <1>8. CASE ChainStep \/ Flush
    BY <1>5, <1>8, ChainFrame
  <1>9. QED
    BY <1>1, <1>2, <1>3, <1>6, <1>7, <1>8 DEF HistoryNext

LEMMA WorkStep ==
  ASSUME StayShape, [HistoryNext]_historyVars
  PROVE  WorkShape'
  <1>1. /\ epoch \in Nat /\ work \in Works /\ work.epoch \in Nat /\ work.epoch <= epoch
        /\ InHand => work.msgs # <<>>
    BY DEF StayShape, WorkShape, MemberShape, Works
  <1>2. CASE work' = work /\ epoch' \in {epoch, epoch + 1}
    BY <1>1, <1>2 DEF WorkShape, InHand
  <1>3. CASE work' = Idle /\ epoch' = epoch
    <2>1. work' \in Works /\ work'.epoch = 0 /\ work'.at = "idle"
      BY <1>3 DEF Idle, Works
    <2>2. QED
      BY <1>1, <1>3, <2>1 DEF WorkShape, InHand
  <1>4. ASSUME NEW k \in {"chunk", "complete", "timeout"}, NEW e \in Nat, AskReplay(k, e),
               e <= epoch, epoch' = epoch
        PROVE  WorkShape'
    <2>1. work' \in Works /\ work'.epoch = e /\ work'.at = "replaying"
      BY <1>4 DEF AskReplay, Works
    <2>2. QED
      BY <1>1, <1>4, <2>1 DEF WorkShape, InHand
  <1>5. CASE Event
    BY <1>2, <1>5, EventFrame DEF Event, SelfAdded, AddedAgain, SelfRemoved, WaitEnds, Arrive,
       ChunkArrives, socketVars
  <1>6. CASE \/ ChainStep \/ Flush \/ UNCHANGED historyVars
             \/ Hold \/ IgnoreChunk \/ Downloaded \/ AllGone
    BY <1>2, <1>3, <1>6, ChainFrame DEF historyVars, Hold, IgnoreChunk, Downloaded, AllGone
  <1>7. CASE TakeLive
    <2>1. First.msg \in LiveMsgs /\ queue \in Seq(Waits)
      BY <1>7, FirstTyped DEF TakeLive, StayShape
    <2>2. PICK s \in Seq(LiveMsgs) : s = <<First.msg>> /\ s # <<>>
      <3>1. <<First.msg>> \in Seq(LiveMsgs) /\ <<First.msg>> # <<>>
        BY <2>1
      <3>2. QED
        BY <3>1, Zenon
    <2>3. CASE work' = [at |-> "downloading", kind |-> "live", epoch |-> epoch, msgs |-> s]
      <3>1. work' \in Works /\ work'.epoch = epoch /\ work'.msgs = s
        BY <1>1, <2>2, <2>3 DEF Works
      <3>2. QED
        BY <1>1, <1>7, <2>2, <3>1 DEF TakeLive, WorkShape
    <2>4. QED
      BY <1>3, <1>7, <2>2, <2>3 DEF TakeLive, Take
  <1>8. CASE CaptureChunk
    <2>1. First.epoch = epoch /\ epoch' = epoch
      BY <1>8 DEF CaptureChunk, Expected
    <2>2. QED
      BY <1>1, <1>2, <1>4, <1>8, <2>1 DEF CaptureChunk
  <1>9. CASE TimeoutTurn
    <2>1. First.epoch \in Nat \ {0}
      BY <1>9, FirstTyped DEF TimeoutTurn, StayShape
    <2>2. CASE wait.epoch = First.epoch
      <3>1. First.epoch = epoch
        BY <2>1, <2>2 DEF StayShape, WaitShape, Waiting
      <3>2. QED
        BY <1>1, <1>4, <1>9, <2>1, <2>2, <3>1 DEF TimeoutTurn
    <2>3. QED
      BY <1>2, <1>9, <2>2 DEF TimeoutTurn
  <1>10. CASE Released \/ LetGo \/ Fetched
    <2>1. PICK w \in Works : w = work
      BY <1>1
    <2>2. /\ epoch' = epoch /\ wait.held \in Seq(LiveMsgs) /\ w.msgs \in Seq(LiveMsgs)
      BY <1>10, <2>1 DEF Released, LetGo, Fetched, StayShape, WaitShape, Stays, Works
    <2>3. w.msgs # <<>> => Tail(w.msgs) \in Seq(LiveMsgs)
      BY <2>2, HeadTailProperties
    <2>4. ASSUME NEW a \in {"letting go", "fetching"}, NEW s \in Seq(LiveMsgs),
                 work' \in Works, work'.at = a, work'.msgs = s, work'.epoch = w.epoch,
                 a = "fetching" => s # <<>>
          PROVE  WorkShape'
      BY <1>1, <2>1, <2>2, <2>4 DEF WorkShape, InHand
    <2>5. CASE Released
      <3>1. CASE work' = [w EXCEPT !.at = "letting go", !.msgs = wait.held]
        <4>1. PICK s \in Seq(LiveMsgs) : s = wait.held
          BY <2>2
        <4>2. work' = [w EXCEPT !.at = "letting go", !.msgs = s]
          BY <3>1, <4>1
        <4>3. work' \in Works /\ work'.at = "letting go" /\ work'.msgs = s /\ work'.epoch = w.epoch
          BY <2>1, <4>1, <4>2 DEF Works
        <4>4. QED
          BY <2>4, <4>1, <4>3
      <3>2. QED
        BY <1>3, <2>1, <2>2, <2>5, <3>1 DEF Released
    <2>6. CASE LetGo
      <3>1. w.msgs # <<>> /\ w.at = "letting go"
        BY <2>1, <2>6 DEF LetGo
      <3>2. CASE work' = [w EXCEPT !.at = "fetching"]
        <4>1. work' \in Works /\ work'.at = "fetching" /\ work'.msgs = w.msgs /\ work'.epoch = w.epoch
          BY <2>1, <2>2, <3>2, WorkFetches
        <4>2. QED
          BY <2>2, <2>4, <3>1, <4>1
      <3>3. CASE work' = [w EXCEPT !.msgs = Tail(w.msgs)]
        <4>1. PICK s \in Seq(LiveMsgs) : s = Tail(w.msgs)
          BY <2>3, <3>1
        <4>2. work' = [w EXCEPT !.msgs = s]
          BY <3>3, <4>1
        <4>3. work' \in Works /\ work'.at = w.at /\ work'.msgs = s /\ work'.epoch = w.epoch
          BY <2>1, <4>1, <4>2 DEF Works
        <4>4. QED
          BY <2>4, <3>1, <4>1, <4>3
      <3>4. QED
        BY <2>1, <2>6, <3>2, <3>3 DEF LetGo
    <2>7. CASE Fetched
      <3>1. work' = [w EXCEPT !.at = "letting go", !.msgs = Tail(w.msgs)] /\ w.msgs # <<>>
        BY <1>1, <2>1, <2>7 DEF Fetched, InHand
      <3>2. PICK s \in Seq(LiveMsgs) : s = Tail(w.msgs)
        BY <2>3, <3>1
      <3>3. work' = [w EXCEPT !.at = "letting go", !.msgs = s]
        BY <3>1, <3>2
      <3>4. work' \in Works /\ work'.at = "letting go" /\ work'.msgs = s /\ work'.epoch = w.epoch
        BY <2>1, <3>2, <3>3 DEF Works
      <3>5. QED
        BY <2>4, <3>2, <3>4
    <2>8. QED
      BY <1>10, <2>5, <2>6, <2>7
  <1>11. QED
    BY <1>5, <1>6, <1>7, <1>8, <1>9, <1>10 DEF HistoryNext, QueueStep, Event

LEMMA StayStep ==
  ASSUME StayShape, [HistoryNext]_historyVars
  PROVE  StayShape'
  BY MemberStep, QueueTyped, WaitStep, WorkStep DEF StayShape

\* What the queue does to the store: rows are only added.
LEMMA InsertStep ==
  ASSUME StayShape, RelayShape, TakeLive \/ LetGo \/ CaptureChunk
  PROVE  /\ store' \in [Msgs -> Marks]
         /\ \A m \in Msgs : store[m] # "none" => store'[m] = store[m]
  <1> USE DEF RelayShape
  <1>1. CASE TakeLive \/ LetGo
    BY <1>1 DEF TakeLive, LetGo, Take, Inserted, Marks
  <1>2. CASE CaptureChunk
    <2>1. \A m \in Msgs : store'[m] = IF m \in First.rows \cap Echoes /\ store[m] = "none"
                                       THEN "relayed" ELSE Inserted(First.rows, "history")[m]
      BY <1>2 DEF CaptureChunk
    <2>2. \A m \in Msgs : Inserted(First.rows, "history")[m] \in {"history", store[m]}
      BY DEF Inserted
    <2>3. \A m \in Msgs : store'[m] \in Marks
      BY <2>1, <2>2 DEF Marks
    <2>4. \A m \in Msgs : store[m] # "none" => store'[m] = store[m]
      BY <2>1 DEF Inserted
    <2>5. DOMAIN store' = Msgs /\ store' = [m \in Msgs |-> store'[m]]
      BY <1>2 DEF CaptureChunk
    <2>6. QED
      BY <2>3, <2>4, <2>5
  <1>3. QED
    BY <1>1, <1>2

\* A download hands its message over, unless the membership has changed.
LEMMA HandStep ==
  ASSUME StayShape, RelayShape, Downloaded \/ Fetched
  PROVE  /\ InHand /\ Head(work.msgs) \in LiveMsgs /\ ~InHand'
         /\ \/ buffer' = buffer
            \/ buffer' = Append(buffer, [msg |-> Head(work.msgs), epoch |-> member.epoch])
         /\ [msg |-> Head(work.msgs), epoch |-> member.epoch] \in Parcels
         /\ UNCHANGED <<store, chain, job, posts, missed, owed, epoch, wait>>
  <1>1. work \in Works /\ InHand /\ work.msgs # <<>>
    BY DEF StayShape, WorkShape, InHand, Downloaded, Fetched
  <1>2. PICK s \in Seq(LiveMsgs) : s = work.msgs
    BY <1>1 DEF Works
  <1>3. Head(s) \in LiveMsgs /\ s[1] = Head(s)
    BY <1>1, <1>2, HeadTailProperties
  <1>4. [msg |-> Head(s), epoch |-> member.epoch] \in Parcels
    BY <1>3 DEF StayShape, MemberShape, Parcels
  <1>5. work'.at \in {"idle", "letting go"}
    <2>1. CASE Downloaded
      BY <2>1 DEF Downloaded, Idle
    <2>2. CASE Fetched
      BY <1>1, <2>2 DEF Fetched, Works
    <2>3. QED
      BY <2>1, <2>2
  <1>6. \/ buffer' = buffer
        \/ buffer' = Append(buffer, [msg |-> Head(s), epoch |-> member.epoch])
    BY <1>2, <1>3 DEF Downloaded, Fetched, HandOver
  <1>7. UNCHANGED <<store, chain, job, posts, missed, owed, epoch, wait>>
    BY DEF Downloaded, Fetched, routerVars
  <1>8. QED
    BY <1>1, <1>2, <1>3, <1>4, <1>5, <1>6, <1>7 DEF InHand

\* A replay is asked for when nothing is in hand.
LEMMA AskStep ==
  ASSUME StayShape, RelayShape, CaptureChunk \/ TimeoutTurn
  PROVE  /\ work.at = "idle" /\ buffer' = buffer /\ epoch' = epoch /\ wait' = wait /\ owed' = owed
         /\ UNCHANGED <<job, posts, missed>>
         /\ \/ work' = work /\ chain' = chain
            \/ \E e \in Entries :
                 /\ e.kind = "replay" /\ e.msgs = <<>> /\ e.epoch = epoch
                 /\ chain' = Append(chain, e)
                 /\ work'.at = "replaying" /\ work'.epoch = epoch
  <1>1. /\ work.at = "idle" /\ buffer' = buffer /\ epoch' = epoch /\ wait' = wait /\ owed' = owed
        /\ UNCHANGED <<job, posts, missed>>
    BY DEF CaptureChunk, TimeoutTurn, AskReplay, routerVars, Next1
  <1>2. ASSUME NEW k, AskReplay(k, First.epoch), First.epoch = epoch
        PROVE  \E e \in Entries :
                 /\ e.kind = "replay" /\ e.msgs = <<>> /\ e.epoch = epoch
                 /\ chain' = Append(chain, e)
                 /\ work'.at = "replaying" /\ work'.epoch = epoch
    <2>1. PICK e : e = [kind |-> "replay", epoch |-> epoch, msgs |-> <<>>]
      OBVIOUS
    <2>2. member.epoch = epoch /\ epoch \in Nat
      BY DEF StayShape, MemberShape
    <2>3. e \in Entries /\ e.kind = "replay" /\ e.msgs = <<>> /\ e.epoch = epoch
      BY <2>1, <2>2 DEF Entries
    <2>4. chain' = Append(chain, e) /\ work'.at = "replaying" /\ work'.epoch = epoch
      BY <1>2, <2>1, <2>2 DEF AskReplay
    <2>5. QED
      BY <2>3, <2>4
  <1>3. CASE CaptureChunk
    BY <1>1, <1>2, <1>3 DEF CaptureChunk, Expected, routerVars
  <1>4. CASE TimeoutTurn
    <2>1. First.epoch \in Nat \ {0}
      BY <1>4, FirstTyped DEF TimeoutTurn, StayShape
    <2>2. wait.epoch = First.epoch => First.epoch = epoch
      BY <2>1 DEF StayShape, WaitShape, Waiting
    <2>3. QED
      BY <1>1, <1>2, <1>4, <2>2 DEF TimeoutTurn, routerVars
  <1>5. QED
    BY <1>1, <1>3, <1>4

\* The other steps of the queue move nothing of the relay.
LEMMA QueueFrame ==
  ASSUME Hold \/ IgnoreChunk \/ AllGone \/ Released
  PROVE  UNCHANGED <<store, buffer, chain, job, posts, missed, epoch>>
  BY DEF Hold, IgnoreChunk, AllGone, Released, routerVars

LEMMA TakeFrame ==
  ASSUME TakeLive \/ LetGo
  PROVE  UNCHANGED <<buffer, chain, job, posts, missed, epoch, wait, owed>>
  BY DEF TakeLive, LetGo, routerVars

\* The quiet window makes a batch of the buffer.
LEMMA FlushStep ==
  ASSUME RelayShape, Flush
  PROVE  /\ buffer' = <<>> /\ UNCHANGED <<store, job, posts, missed>>
         /\ \E e \in Entries :
              /\ e.kind = "batch" /\ chain' = Append(chain, e)
              /\ DOMAIN e.msgs = DOMAIN buffer
              /\ \A i \in DOMAIN buffer : e.msgs[i] = buffer[i].msg
  <1>1. PICK b \in Seq(Parcels) : b = buffer /\ b # <<>>
    BY DEF RelayShape, Flush
  <1>2. Len(b) \in Nat \ {0} /\ DOMAIN b = 1..Len(b) /\ b \in [1..Len(b) -> Parcels]
    BY <1>1
  <1>3. b[Len(b)] \in Parcels
    BY <1>2
  <1>4. b[Len(b)].epoch \in Nat
    BY <1>3 DEF Parcels
  <1>5. \A i \in 1..Len(b) : b[i].msg \in LiveMsgs
    BY <1>2 DEF Parcels
  <1>6. PICK s : s = [i \in DOMAIN b |-> b[i].msg]
    OBVIOUS
  <1>7. s \in [1..Len(b) -> LiveMsgs]
    BY <1>2, <1>5, <1>6
  <1>8. s \in Seq(LiveMsgs)
    BY <1>2, <1>7, SeqDef
  <1>9. PICK e : e = [kind |-> "batch", epoch |-> b[Len(b)].epoch, msgs |-> s]
    OBVIOUS
  <1>10. e \in Entries /\ e.kind = "batch" /\ e.msgs = s
    BY <1>4, <1>8, <1>9 DEF Entries
  <1>11. chain' = Append(chain, e) /\ buffer' = <<>> /\ UNCHANGED <<store, job, posts, missed>>
    BY <1>1, <1>6, <1>9 DEF Flush, Last
  <1>12. DOMAIN s = DOMAIN b /\ \A i \in DOMAIN b : s[i] = b[i].msg
    BY <1>6
  <1>13. QED
    BY <1>1, <1>10, <1>11, <1>12

\* A batch leaves the chain; its messages are posted after the others, or none is.
LEMMA BatchStep ==
  ASSUME RelayShape, NEW ok \in BOOLEAN, Batch(ok)
  PROVE  /\ chain # <<>> /\ chain' = Tail(chain) /\ chain[1].kind = "batch"
         /\ UNCHANGED <<store, buffer, job, missed>>
         /\ posts' \in Seq(Posts)
         /\ \/ posts' = posts
            \/ /\ Len(posts') = Len(posts) + Len(chain[1].msgs)
               /\ \A i \in 1..Len(posts) : posts'[i] = posts[i]
               /\ \A i \in DOMAIN posts' : i > Len(posts) =>
                    /\ i - Len(posts) \in DOMAIN chain[1].msgs
                    /\ posts'[i].msg = chain[1].msgs[i - Len(posts)] /\ posts'[i].as = "live"
  <1>1. PICK c \in Seq(Entries) : c = chain /\ c # <<>>
    BY DEF RelayShape, Batch
  <1>2. Head(c) = c[1] /\ c[1] \in Entries
    BY <1>1, HeadTailProperties
  <1>3. PICK s \in Seq(LiveMsgs) : s = c[1].msgs
    BY <1>2 DEF Entries
  <1>4. Len(s) \in Nat /\ DOMAIN s = 1..Len(s) /\ s \in [1..Len(s) -> LiveMsgs]
    OBVIOUS
  <1>5. PICK p : p = [i \in DOMAIN s |-> [msg |-> s[i], as |-> "live", from |-> 0]]
    OBVIOUS
  <1>6. \A i \in DOMAIN s : p[i] \in Posts /\ p[i].msg = s[i] /\ p[i].as = "live"
    BY <1>4, <1>5 DEF Posts, Msgs
  <1>7. p \in [1..Len(s) -> Posts]
    BY <1>4, <1>5, <1>6
  <1>8. p \in Seq(Posts) /\ Len(p) = Len(s)
    BY <1>4, <1>7, SeqDef
  <1>9. posts \in Seq(Posts)
    BY DEF RelayShape
  <1>10. CASE posts' = posts
    BY <1>1, <1>2, <1>9, <1>10 DEF Batch
  <1>11. CASE posts' = posts \o p
    <2>1. PICK q \in Seq(Posts) : q = posts
      BY <1>9
    <2>2. /\ q \o p \in Seq(Posts) /\ Len(q \o p) = Len(q) + Len(p)
          /\ \A i \in 1..Len(q) + Len(p) : (q \o p)[i] = IF i <= Len(q) THEN q[i] ELSE p[i - Len(q)]
      <3>1. q \in Seq(Posts) /\ p \in Seq(Posts)
        BY <1>8, <2>1
      <3>2. QED
        BY <3>1, ConcatProperties, Zenon
    <2>3. PICK t \in Seq(Posts) : t = q \o p
      BY <2>2
    <2>4. /\ Len(t) = Len(q) + Len(s) /\ DOMAIN t = 1..Len(t) /\ Len(q) \in Nat
          /\ \A i \in 1..Len(q) : t[i] = q[i]
      BY <1>4, <1>8, <2>1, <2>2, <2>3
    <2>5. \A i \in DOMAIN t : i > Len(q) => i - Len(q) \in DOMAIN s /\ t[i] = p[i - Len(q)]
      BY <1>4, <1>8, <2>1, <2>2, <2>3, <2>4
    <2>6. posts' = t
      BY <1>11, <2>1, <2>3
    <2>7. /\ posts' \in Seq(Posts) /\ Len(posts') = Len(posts) + Len(s)
          /\ \A i \in 1..Len(posts) : posts'[i] = posts[i]
          /\ \A i \in DOMAIN posts' : i > Len(posts) =>
               i - Len(posts) \in DOMAIN s /\ posts'[i] = p[i - Len(posts)]
      BY <2>1, <2>4, <2>5, <2>6
    <2>8. \A i \in DOMAIN posts' : i > Len(posts) =>
            /\ i - Len(posts) \in DOMAIN s
            /\ posts'[i].msg = s[i - Len(posts)] /\ posts'[i].as = "live"
      BY <1>6, <2>7
    <2>9. chain' = Tail(c) /\ c[1].kind = "batch" /\ UNCHANGED <<store, buffer, job, missed>>
      BY <1>1, <1>2 DEF Batch
    <2>10. QED
      BY <1>1, <1>3, <2>7, <2>8, <2>9
  <1>12. QED
    BY <1>1, <1>2, <1>3, <1>5, <1>10, <1>11 DEF Batch

\* The rows are read, unless there are none or the account has left since.
LEMMA ReadStep ==
  ASSUME RelayShape, ReadRows
  PROVE  /\ chain # <<>> /\ chain[1].kind = "replay" /\ job.at = "none"
         /\ UNCHANGED <<store, buffer, posts, missed>>
         /\ \/ /\ chain' = Tail(chain) /\ job'.at = "none"
               /\ Unrelayed = {} \/ ~Available(chain[1].epoch)
            \/ /\ chain' = chain /\ job'.at = "opening" /\ job'.rows = Unrelayed
               /\ job'.from = Len(posts)
         /\ job' \in Jobs
  <1>1. PICK c \in Seq(Entries) : c = chain /\ c # <<>>
    BY DEF RelayShape, ReadRows, ReplayTurn
  <1>2. Head(c) = c[1] /\ c[1] \in Entries
    BY <1>1, HeadTailProperties
  <1>3. PICK h \in Entries : h = c[1]
    BY <1>2
  <1>4. /\ h.kind = "replay" /\ h.epoch \in Nat /\ Unrelayed \subseteq Msgs /\ Len(posts) \in Nat
        /\ job.at = "none" /\ UNCHANGED <<store, buffer, posts, missed>>
    BY <1>1, <1>2, <1>3 DEF Entries, Unrelayed, RelayShape, ReadRows, ReplayTurn
  <1>5. \/ chain' = Tail(c) /\ job' = NoJob /\ (Unrelayed = {} \/ ~Available(h.epoch))
        \/ chain' = chain
           /\ job' = [at |-> "opening", epoch |-> h.epoch, rows |-> Unrelayed, from |-> Len(posts)]
    BY <1>1, <1>2, <1>3 DEF ReadRows, EndReplay
  <1>6. NoJob \in Jobs /\ NoJob.at = "none"
    BY DEF NoJob, Jobs
  <1>7. CASE chain' = Tail(c) /\ job' = NoJob /\ (Unrelayed = {} \/ ~Available(h.epoch))
    BY <1>1, <1>3, <1>4, <1>6, <1>7
  <1>8. CASE chain' = chain
             /\ job' = [at |-> "opening", epoch |-> h.epoch, rows |-> Unrelayed, from |-> Len(posts)]
    <2>1. job' \in Jobs /\ job'.at = "opening" /\ job'.rows = Unrelayed /\ job'.from = Len(posts)
      BY <1>4, <1>8 DEF Jobs
    <2>2. QED
      BY <1>1, <1>3, <1>4, <1>8, <2>1
  <1>9. QED
    BY <1>5, <1>7, <1>8

\* Between its rows a replay goes on with them, or gives them all up.
LEMMA GoesOn ==
  ASSUME RelayShape, Prepare \/ Close \/ \E ok \in BOOLEAN : Open(ok)
  PROVE  /\ job.at # "none" /\ UNCHANGED <<store, buffer, posts>>
         /\ \/ /\ chain' = chain /\ missed' = missed /\ job'.at \in {"row", "sending"}
               /\ job'.rows = job.rows /\ job'.from = job.from
            \/ /\ chain' = Tail(chain) /\ missed' = missed \cup job.rows /\ job'.at = "none"
         /\ job' \in Jobs
  <1>1. PICK j \in Jobs : j = job
    BY DEF RelayShape
  <1>2. j.at # "none" /\ UNCHANGED <<store, buffer, posts>>
    BY <1>1 DEF Prepare, Close, Open
  <1>3. \/ chain' = chain /\ missed' = missed /\ job' = [j EXCEPT !.at = "row"]
        \/ chain' = chain /\ missed' = missed /\ job' = [j EXCEPT !.at = "sending"]
        \/ chain' = Tail(chain) /\ missed' = missed \cup j.rows /\ job' = NoJob
    BY <1>1 DEF Prepare, Close, Open, GiveUpRows, EndReplay
  <1>4. NoJob \in Jobs /\ NoJob.at = "none"
    BY DEF NoJob, Jobs
  <1>5. ASSUME NEW a \in {"row", "sending"}, NEW k, k = [j EXCEPT !.at = a]
        PROVE  k \in Jobs /\ k.at = a /\ k.rows = j.rows /\ k.from = j.from
    BY <1>5 DEF Jobs
  <1>6. CASE chain' = chain /\ missed' = missed /\ job' = [j EXCEPT !.at = "row"]
    BY <1>1, <1>2, <1>5, <1>6
  <1>7. CASE chain' = chain /\ missed' = missed /\ job' = [j EXCEPT !.at = "sending"]
    BY <1>1, <1>2, <1>5, <1>7
  <1>8. CASE chain' = Tail(chain) /\ missed' = missed \cup j.rows /\ job' = NoJob
    BY <1>1, <1>2, <1>4, <1>8
  <1>9. QED
    BY <1>3, <1>6, <1>7, <1>8

\* A row is posted and marked, or missed.
LEMMA RowStep ==
  ASSUME RelayShape, NEW ok \in BOOLEAN, NEW m \in Msgs, Relay(m, ok)
  PROVE  /\ job.at # "none" /\ m \in job.rows /\ (\A n \in job.rows : m <= n)
         /\ UNCHANGED <<buffer, chain>>
         /\ job' \in Jobs /\ job'.at = "row" /\ job'.rows = job.rows \ {m} /\ job'.from = job.from
         /\ \/ /\ store' = [store EXCEPT ![m] = "relayed"] /\ missed' = missed
               /\ \E p \in Posts : /\ p.msg = m /\ p.as = "history" /\ p.from = job.from
                                   /\ posts' = Append(posts, p)
            \/ /\ UNCHANGED <<store, posts>> /\ missed' = missed \cup {m}
  <1>1. PICK j \in Jobs : j = job
    BY DEF RelayShape
  <1>2. j.at = "sending" /\ m \in j.rows /\ (\A n \in j.rows : m <= n)
        /\ UNCHANGED <<buffer, chain>>
    BY <1>1 DEF Relay, IsNext
  <1>3. PICK rows \in SUBSET Msgs : rows = j.rows \ {m}
    BY DEF Jobs
  <1>4. job' = [j EXCEPT !.at = "row", !.rows = rows]
    BY <1>1, <1>3 DEF Relay
  <1>5. job' \in Jobs /\ job'.at = "row" /\ job'.rows = rows /\ job'.from = j.from
    BY <1>4 DEF Jobs
  <1>6. PICK p : p = [msg |-> m, as |-> "history", from |-> j.from]
    OBVIOUS
  <1>7. p \in Posts /\ p.msg = m /\ p.as = "history" /\ p.from = j.from
    BY <1>6 DEF Posts, Jobs
  <1>8. \/ /\ store' = [store EXCEPT ![m] = "relayed"] /\ missed' = missed
           /\ posts' = Append(posts, p)
        \/ UNCHANGED <<store, posts>> /\ missed' = missed \cup {m}
    BY <1>1, <1>6 DEF Relay, Marked
  <1>9. QED
    BY <1>1, <1>2, <1>3, <1>5, <1>7, <1>8

LEMMA RelayStep ==
  ASSUME StayShape, RelayShape, ReplayInv, [HistoryNext]_historyVars
  PROVE  RelayShape'
  <1>1. CASE UNCHANGED <<store, buffer, chain, job, posts>>
    BY <1>1 DEF RelayShape
  <1>2. CASE Event \/ UNCHANGED historyVars \/ Hold \/ IgnoreChunk \/ AllGone \/ Released
    BY <1>1, <1>2, EventFrame, QueueFrame DEF historyVars
  <1>3. CASE TakeLive \/ LetGo
    BY <1>3, InsertStep, TakeFrame DEF RelayShape
  <1>4. CASE Downloaded \/ Fetched
    <2>1. PICK r \in Parcels : buffer' = buffer \/ buffer' = Append(buffer, r)
      BY <1>4, HandStep
    <2>2. buffer' \in Seq(Parcels)
      BY <2>1 DEF RelayShape
    <2>3. QED
      BY <1>4, <2>2, HandStep DEF RelayShape
  <1>5. CASE CaptureChunk \/ TimeoutTurn
    <2>1. store' \in [Msgs -> Marks]
      BY <1>5, InsertStep DEF TimeoutTurn, RelayShape
    <2>2. chain' = chain \/ \E e \in Entries : chain' = Append(chain, e)
      BY <1>5, AskStep
    <2>3. chain' \in Seq(Entries)
      <3>1. chain \in Seq(Entries)
        BY DEF RelayShape
      <3>2. QED
        BY <2>2, <3>1
    <2>4. UNCHANGED <<buffer, job, posts>>
      BY <1>5, AskStep
    <2>5. QED
      BY <2>1, <2>3, <2>4 DEF RelayShape
  <1>6. CASE Flush
    <2>1. PICK e \in Entries : chain' = Append(chain, e)
      BY <1>6, FlushStep
    <2>2. chain \in Seq(Entries) /\ store \in [Msgs -> Marks] /\ posts \in Seq(Posts) /\ job \in Jobs
      BY DEF RelayShape
    <2>3. chain' \in Seq(Entries)
      BY <2>1, <2>2
    <2>4. buffer' = <<>> /\ UNCHANGED <<store, posts, job>>
      BY <1>6, FlushStep
    <2>5. QED
      BY <2>2, <2>3, <2>4 DEF RelayShape
  <1>7. ASSUME NEW ok \in BOOLEAN, Batch(ok)
        PROVE  RelayShape'
    BY <1>7, BatchStep, HeadTailProperties DEF RelayShape
  <1>8. CASE ReadRows
    BY <1>8, ReadStep, HeadTailProperties DEF RelayShape
  <1>9. ASSUME NEW ok \in BOOLEAN, Open(ok) \/ Prepare \/ Close
        PROVE  RelayShape'
    BY <1>9, GoesOn, HeadTailProperties DEF RelayShape, ReplayInv
  <1>10. ASSUME NEW ok \in BOOLEAN, NEW m \in Msgs, Relay(m, ok)
        PROVE  RelayShape'
    <2>1. [store EXCEPT ![m] = "relayed"] \in [Msgs -> Marks]
      BY DEF RelayShape, Marks
    <2>2. posts' = posts \/ \E p \in Posts : posts' = Append(posts, p)
      BY <1>10, RowStep
    <2>3. posts' \in Seq(Posts)
      <3>1. posts \in Seq(Posts)
        BY DEF RelayShape
      <3>2. QED
        BY <2>2, <3>1
    <2>4. /\ UNCHANGED <<buffer, chain>> /\ job' \in Jobs
          /\ store' = [store EXCEPT ![m] = "relayed"] \/ store' = store
      BY <1>10, RowStep
    <2>5. QED
      BY <2>1, <2>3, <2>4 DEF RelayShape
  <1>11. QED
    BY <1>2, <1>3, <1>4, <1>5, <1>6, <1>7, <1>8, <1>9, <1>10
       DEF HistoryNext, QueueStep, ChainStep, Event

LEMMA PostTyped ==
  ASSUME RelayShape
  PROVE  \A i \in DOMAIN posts :
           posts[i].msg \in Msgs /\ posts[i].as \in {"live", "history"} /\ posts[i].from \in Nat
  <1>1. PICK p \in Seq(Posts) : p = posts
    BY DEF RelayShape
  <1>2. \A i \in DOMAIN p : p[i] \in Posts
    OBVIOUS
  <1>3. QED
    BY <1>1, <1>2 DEF Posts

LEMMA EntryTyped ==
  ASSUME RelayShape, NEW i \in DOMAIN chain, NEW j \in DOMAIN chain[i].msgs
  PROVE  chain[i].msgs[j] \in LiveMsgs
  <1>1. PICK c \in Seq(Entries) : c = chain
    BY DEF RelayShape
  <1>2. c[i] \in Entries
    BY <1>1
  <1>3. PICK s \in Seq(LiveMsgs) : s = chain[i].msgs
    BY <1>1, <1>2 DEF Entries
  <1>4. QED
    BY <1>3

\* A message is in hand only after its first capture, and then nothing else is.
LEMMA TakeStep ==
  ASSUME StayShape, RelayShape, TakeLive \/ LetGo
  PROVE  /\ ~InHand
         /\ InHand' => LET m == Head(work'.msgs) IN
              m \in LiveMsgs /\ store[m] = "none" /\ store'[m] = "live" /\ m \notin Echoes
  <1>1. work \in Works /\ queue \in Seq(Waits) /\ ~InHand
    BY DEF StayShape, WorkShape, InHand, TakeLive, LetGo, Next1
  <1>2. ASSUME NEW m \in LiveMsgs, store' = Inserted({m}, "live"), store[m] = "none"
        PROVE  store'[m] = "live"
    BY <1>2 DEF Inserted, Msgs
  <1>3. CASE TakeLive
    <2>1. First.msg \in LiveMsgs
      BY <1>1, <1>3, FirstTyped DEF TakeLive
    <2>2. PICK m \in LiveMsgs : m = First.msg
      BY <2>1
    <2>3. store' = Inserted({m}, "live")
      BY <1>3, <2>2 DEF TakeLive, Take
    <2>4. CASE store[m] # "none" \/ m \in Echoes
      BY <1>1, <1>3, <2>2, <2>4 DEF TakeLive, Take, Idle, InHand
    <2>5. CASE store[m] = "none" /\ m \notin Echoes
      <3>1. work' = [at |-> "downloading", kind |-> "live", epoch |-> epoch, msgs |-> <<m>>]
        BY <1>3, <2>2, <2>5 DEF TakeLive, Take
      <3>2. Head(work'.msgs) = m
        BY <3>1
      <3>3. QED
        BY <1>1, <1>2, <2>3, <2>5, <3>2
    <2>6. QED
      BY <2>4, <2>5
  <1>4. CASE LetGo
    <2>1. PICK s \in Seq(LiveMsgs) : s = work.msgs /\ s # <<>>
      BY <1>1, <1>4 DEF LetGo, Works
    <2>2. PICK m \in LiveMsgs : m = Head(s)
      BY <2>1, HeadTailProperties
    <2>3. PICK w \in Works : w = work /\ w.at = "letting go" /\ w.msgs = s
      BY <1>1, <1>4, <2>1 DEF LetGo
    <2>4. CASE work' = [w EXCEPT !.at = "fetching"] /\ ~Waiting /\ store[m] = "none" /\ m \notin Echoes
      <3>1. work'.msgs = s
        BY <2>3, <2>4, WorkFetches
      <3>2. store' = Inserted({m}, "live")
        BY <1>4, <2>1, <2>2, <2>4 DEF LetGo
      <3>3. QED
        BY <1>1, <1>2, <2>2, <2>4, <3>1, <3>2
    <2>5. CASE work' = [w EXCEPT !.msgs = Tail(s)]
      <3>1. work'.at = "letting go"
        BY <2>3, <2>5 DEF Works
      <3>2. QED
        BY <1>1, <3>1 DEF InHand
    <2>6. QED
      BY <1>4, <2>1, <2>2, <2>3, <2>4, <2>5 DEF LetGo
  <1>5. QED
    BY <1>3, <1>4

\* Nothing moves, and no row that stands is changed.
LEMMA PlaceStays ==
  ASSUME RelayShape, PlaceInv, UNCHANGED <<buffer, chain, posts>>,
         \A m \in Msgs : store[m] # "none" => store'[m] = store[m],
         ~InHand' \/ work' = work
  PROVE  PlaceInv'
  <1>1. \A m : (Buffered(m)' <=> Buffered(m)) /\ (Chained(m)' <=> Chained(m))
               /\ (PostedMsg(m)' <=> PostedMsg(m)) /\ (Handed(m)' => Handed(m))
    BY DEF Buffered, Chained, PostedMsg, Handed, InHand
  <1>2. \A m \in LiveMsgs : m \in Msgs
    BY DEF Msgs
  <1>3. \A i \in DOMAIN posts : posts[i].msg \in Msgs
    BY PostTyped
  <1>4. Apart' /\ Captured'
    BY <1>1, <1>2 DEF PlaceInv, Apart, Captured
  <1>5. BufferedOnce' /\ ChainedOnce'
    BY DEF PlaceInv, BufferedOnce, ChainedOnce
  <1>6. Kept'
    BY <1>3 DEF PlaceInv, Kept
  <1>7. QED
    BY <1>4, <1>5, <1>6 DEF PlaceInv

LEMMA PlaceTake ==
  ASSUME StayShape, RelayShape, PlaceInv, TakeLive \/ LetGo
  PROVE  PlaceInv'
  <1>1. /\ UNCHANGED <<buffer, chain, posts>>
        /\ \A m \in Msgs : store[m] # "none" => store'[m] = store[m]
    BY TakeFrame, InsertStep
  <1>2. CASE ~InHand'
    BY <1>1, <1>2, PlaceStays
  <1>3. CASE InHand'
    <2>1. PICK m \in LiveMsgs :
            /\ m = Head(work'.msgs) /\ store[m] = "none" /\ store'[m] = "live" /\ m \notin Echoes
      BY <1>3, TakeStep
    <2>2. ~Buffered(m) /\ ~Chained(m)
      BY <2>1 DEF PlaceInv, Captured
    <2>3. ~PostedMsg(m)
      BY <2>1, PostTyped DEF PlaceInv, Kept, PostedMsg
    <2>4. \A n : (Buffered(n)' <=> Buffered(n)) /\ (Chained(n)' <=> Chained(n))
                 /\ (PostedMsg(n)' <=> PostedMsg(n)) /\ (Handed(n)' => n = m)
      BY <1>1, <2>1 DEF Buffered, Chained, PostedMsg, Handed
    <2>5. \A n \in LiveMsgs : n \in Msgs
      BY DEF Msgs
    <2>6. \A i \in DOMAIN posts : posts[i].msg \in Msgs
      BY PostTyped
    <2>7. Apart' /\ Captured'
      BY <1>1, <2>1, <2>2, <2>3, <2>4, <2>5 DEF PlaceInv, Apart, Captured
    <2>8. BufferedOnce' /\ ChainedOnce'
      BY <1>1 DEF PlaceInv, BufferedOnce, ChainedOnce
    <2>9. Kept'
      BY <1>1, <2>6 DEF PlaceInv, Kept
    <2>10. QED
      BY <2>7, <2>8, <2>9 DEF PlaceInv
  <1>4. QED
    BY <1>2, <1>3

LEMMA PlaceHand ==
  ASSUME StayShape, RelayShape, PlaceInv, Downloaded \/ Fetched
  PROVE  PlaceInv'
  <1>1. /\ InHand /\ Head(work.msgs) \in LiveMsgs /\ ~InHand'
        /\ UNCHANGED <<store, chain, posts>>
    BY HandStep
  <1>2. CASE buffer' = buffer
    BY <1>1, <1>2, PlaceStays
  <1>3. CASE buffer' = Append(buffer, [msg |-> Head(work.msgs), epoch |-> member.epoch])
    <2>1. PICK r \in Parcels : r.msg = Head(work.msgs) /\ buffer' = Append(buffer, r)
      BY <1>3, HandStep
    <2>2. PICK m \in LiveMsgs : m = Head(work.msgs)
      BY <1>1
    <2>3. PICK b \in Seq(Parcels) : b = buffer
      BY DEF RelayShape
    <2>4. PICK t \in Seq(Parcels) : t = Append(b, r)
      <3>1. Append(b, r) \in Seq(Parcels)
        BY <2>1, <2>3
      <3>2. QED
        BY <3>1, Zenon
    <2>5. /\ Len(t) = Len(b) + 1 /\ DOMAIN t = 1..Len(t) /\ DOMAIN b = 1..Len(b) /\ Len(b) \in Nat
          /\ \A i \in 1..Len(b) : t[i] = b[i]
          /\ t[Len(t)] = r
      BY <2>4
    <2>6. Handed(m) /\ ~Buffered(m) /\ ~Chained(m) /\ ~PostedMsg(m) /\ store[m] = "live" /\ m \notin Echoes
      BY <1>1, <2>2 DEF PlaceInv, Apart, Captured, Handed
    <2>7. \A n : /\ Buffered(n)' => Buffered(n) \/ n = m
                 /\ Chained(n)' <=> Chained(n)
                 /\ PostedMsg(n)' <=> PostedMsg(n)
                 /\ ~Handed(n)'
      BY <1>1, <2>1, <2>2, <2>3, <2>4, <2>5 DEF Buffered, Chained, PostedMsg, Handed
    <2>8. Apart' /\ Captured'
      BY <1>1, <2>6, <2>7 DEF PlaceInv, Apart, Captured
    <2>9. BufferedOnce'
      <3>1. \A i \in 1..Len(b) : b[i].msg # m
        BY <2>3, <2>5, <2>6 DEF Buffered
      <3>2. \A i, k \in 1..Len(b) : b[i].msg = b[k].msg => i = k
        BY <2>3, <2>5 DEF PlaceInv, BufferedOnce
      <3>3. \A i, k \in DOMAIN t : t[i].msg = t[k].msg => i = k
        BY <2>1, <2>2, <2>5, <3>1, <3>2
      <3>4. QED
        BY <2>1, <2>3, <2>4, <3>3 DEF BufferedOnce
    <2>10. ChainedOnce' /\ Kept'
      BY <1>1 DEF PlaceInv, ChainedOnce, Kept
    <2>11. QED
      BY <2>8, <2>9, <2>10 DEF PlaceInv
  <1>4. QED
    BY <1>2, <1>3, HandStep

\* A batch of the buffer: what was there is in the chain.
LEMMA PlaceFlush ==
  ASSUME RelayShape, PlaceInv, Flush, work' = work
  PROVE  PlaceInv'
  <1>1. PICK e \in Entries :
          /\ chain' = Append(chain, e) /\ DOMAIN e.msgs = DOMAIN buffer
          /\ \A i \in DOMAIN buffer : e.msgs[i] = buffer[i].msg
    BY FlushStep
  <1>2. buffer' = <<>> /\ UNCHANGED <<store, posts>>
    BY FlushStep
  <1>3. PICK c \in Seq(Entries) : c = chain
    BY DEF RelayShape
  <1>4. PICK t \in Seq(Entries) : t = Append(c, e)
    <2>1. Append(c, e) \in Seq(Entries)
      OBVIOUS
    <2>2. QED
      BY <2>1, Zenon
  <1>5. /\ DOMAIN t = 1..(Len(c) + 1) /\ DOMAIN c = 1..Len(c) /\ Len(c) \in Nat
        /\ \A i \in 1..Len(c) : t[i] = c[i]
        /\ t[Len(c) + 1] = e
    BY <1>4
  <1>6. \A m : Chained(m)' => Chained(m) \/ Buffered(m)
    <2>1. ASSUME NEW m, NEW i \in DOMAIN t, NEW j \in DOMAIN t[i].msgs, t[i].msgs[j] = m
          PROVE  Chained(m) \/ Buffered(m)
      <3>1. CASE i \in 1..Len(c)
        BY <1>3, <1>5, <2>1, <3>1 DEF Chained
      <3>2. CASE i = Len(c) + 1
        BY <1>1, <1>5, <2>1, <3>2 DEF Buffered
      <3>3. QED
        BY <1>5, <3>1, <3>2
    <2>2. QED
      BY <1>1, <1>3, <1>4, <2>1 DEF Chained
  <1>7. \A m : /\ ~Buffered(m)' /\ (PostedMsg(m)' <=> PostedMsg(m)) /\ (Handed(m)' <=> Handed(m))
    BY <1>2 DEF Buffered, PostedMsg, Handed, InHand
  <1>8. Apart' /\ Captured'
    BY <1>2, <1>6, <1>7 DEF PlaceInv, Apart, Captured
  <1>9. BufferedOnce' /\ Kept'
    BY <1>2 DEF PlaceInv, BufferedOnce, Kept
  <1>10. ASSUME NEW i \in DOMAIN t, NEW k \in DOMAIN t,
                NEW j \in DOMAIN t[i].msgs, NEW l \in DOMAIN t[k].msgs,
                t[i].msgs[j] = t[k].msgs[l]
         PROVE  i = k /\ j = l
    <2>1. CASE i \in 1..Len(c) /\ k \in 1..Len(c)
      BY <1>3, <1>5, <1>10, <2>1 DEF PlaceInv, ChainedOnce
    <2>2. CASE i = Len(c) + 1 /\ k = Len(c) + 1
      BY <1>1, <1>5, <1>10, <2>2 DEF PlaceInv, BufferedOnce
    <2>3. CASE i \in 1..Len(c) /\ k = Len(c) + 1
      <3>1. i \in DOMAIN c /\ j \in DOMAIN c[i].msgs
        BY <1>5, <2>3
      <3>2. l \in DOMAIN buffer /\ buffer[l].msg = c[i].msgs[j]
        BY <1>1, <1>5, <1>10, <2>3
      <3>3. PICK m : m = c[i].msgs[j]
        OBVIOUS
      <3>4. Chained(m) /\ m \in LiveMsgs
        BY <1>3, <3>1, <3>3, EntryTyped DEF Chained
      <3>5. Buffered(m)
        BY <3>2, <3>3 DEF Buffered
      <3>6. QED
        BY <3>4, <3>5 DEF PlaceInv, Apart
    <2>4. CASE i = Len(c) + 1 /\ k \in 1..Len(c)
      <3>1. k \in DOMAIN c /\ l \in DOMAIN c[k].msgs
        BY <1>5, <2>4
      <3>2. j \in DOMAIN buffer /\ buffer[j].msg = c[k].msgs[l]
        BY <1>1, <1>5, <1>10, <2>4
      <3>3. PICK m : m = c[k].msgs[l]
        OBVIOUS
      <3>4. Chained(m) /\ m \in LiveMsgs
        BY <1>3, <3>1, <3>3, EntryTyped DEF Chained
      <3>5. Buffered(m)
        BY <3>2, <3>3 DEF Buffered
      <3>6. QED
        BY <3>4, <3>5 DEF PlaceInv, Apart
    <2>5. QED
      BY <1>5, <2>1, <2>2, <2>3, <2>4
  <1>11. ChainedOnce'
    BY <1>1, <1>3, <1>4, <1>10 DEF ChainedOnce
  <1>12. QED
    BY <1>8, <1>9, <1>11 DEF PlaceInv

\* A replay at the end of the chain carries none.
LEMMA PlaceAsk ==
  ASSUME StayShape, RelayShape, PlaceInv, CaptureChunk \/ TimeoutTurn
  PROVE  PlaceInv'
  <1>1. /\ UNCHANGED <<buffer, posts>> /\ work.at = "idle"
        /\ \A m \in Msgs : store[m] # "none" => store'[m] = store[m]
    BY AskStep, InsertStep DEF TimeoutTurn
  <1>2. CASE work' = work /\ chain' = chain
    BY <1>1, <1>2, PlaceStays
  <1>3. ASSUME NEW e \in Entries, e.msgs = <<>>, chain' = Append(chain, e), work'.at = "replaying"
        PROVE  PlaceInv'
    <2>1. PICK c \in Seq(Entries) : c = chain
      BY DEF RelayShape
    <2>2. PICK t \in Seq(Entries) : t = Append(c, e)
      <3>1. Append(c, e) \in Seq(Entries)
        OBVIOUS
      <3>2. QED
        BY <3>1, Zenon
    <2>3. /\ DOMAIN t = 1..(Len(c) + 1) /\ DOMAIN c = 1..Len(c) /\ Len(c) \in Nat
          /\ \A i \in 1..Len(c) : t[i] = c[i]
          /\ t[Len(c) + 1] = e /\ DOMAIN e.msgs = {}
      BY <1>3, <2>2
    <2>4. \A i \in DOMAIN t : DOMAIN t[i].msgs # {} => i \in DOMAIN c /\ t[i] = c[i]
      BY <2>3
    <2>5. chain' = t
      BY <1>3, <2>1, <2>2
    <2>6. \A m : /\ Chained(m)' => Chained(m)
                 /\ Buffered(m)' <=> Buffered(m)
                 /\ PostedMsg(m)' <=> PostedMsg(m)
                 /\ ~Handed(m)'
      BY <1>1, <1>3, <2>1, <2>4, <2>5 DEF Chained, Buffered, PostedMsg, Handed, InHand
    <2>7. \A i \in DOMAIN posts : posts[i].msg \in Msgs
      BY PostTyped
    <2>8. \A m \in LiveMsgs : m \in Msgs
      BY DEF Msgs
    <2>9. Apart' /\ Captured'
      BY <1>1, <2>6, <2>8 DEF PlaceInv, Apart, Captured
    <2>10. BufferedOnce' /\ Kept'
      BY <1>1, <2>7 DEF PlaceInv, BufferedOnce, Kept
    <2>11. ChainedOnce'
      BY <2>1, <2>4, <2>5 DEF PlaceInv, ChainedOnce
    <2>12. QED
      BY <2>9, <2>10, <2>11 DEF PlaceInv
  <1>4. QED
    BY <1>2, <1>3, AskStep

\* The head of the chain leaves it.
LEMMA TailPlaces ==
  ASSUME RelayShape, ChainedOnce, chain # <<>>, chain' = Tail(chain)
  PROVE  /\ \A m : Chained(m)' => Chained(m) /\ \A j \in DOMAIN chain[1].msgs : chain[1].msgs[j] # m
         /\ ChainedOnce'
  <1>1. PICK c \in Seq(Entries) : c = chain /\ c # <<>>
    BY DEF RelayShape
  <1>2. PICK t \in Seq(Entries) : t = Tail(c)
    BY <1>1, HeadTailProperties
  <1>3. /\ DOMAIN t = 1..(Len(c) - 1) /\ DOMAIN c = 1..Len(c) /\ Len(c) \in Nat \ {0}
        /\ \A i \in DOMAIN t : t[i] = c[i + 1] /\ i + 1 \in DOMAIN c
        /\ 1 \in DOMAIN c
    BY <1>1, <1>2, HeadTailProperties
  <1>4. ASSUME NEW m, NEW i \in DOMAIN t, NEW j \in DOMAIN t[i].msgs, t[i].msgs[j] = m
        PROVE  Chained(m) /\ \A l \in DOMAIN chain[1].msgs : chain[1].msgs[l] # m
    <2>1. i + 1 \in DOMAIN c /\ j \in DOMAIN c[i + 1].msgs /\ c[i + 1].msgs[j] = m /\ i + 1 # 1
      BY <1>3, <1>4
    <2>2. QED
      BY <1>1, <1>3, <2>1 DEF Chained, ChainedOnce
  <1>5. ASSUME NEW i \in DOMAIN t, NEW k \in DOMAIN t,
               NEW j \in DOMAIN t[i].msgs, NEW l \in DOMAIN t[k].msgs,
               t[i].msgs[j] = t[k].msgs[l]
        PROVE  i = k /\ j = l
    <2>1. i + 1 = k + 1 /\ j = l
      BY <1>1, <1>3, <1>5 DEF ChainedOnce
    <2>2. QED
      BY <1>3, <2>1
  <1>6. chain' = t
    BY <1>1, <1>2
  <1>7. \A m : Chained(m)' => Chained(m) /\ \A j \in DOMAIN chain[1].msgs : chain[1].msgs[j] # m
    BY <1>4, <1>6 DEF Chained
  <1>8. ChainedOnce'
    BY <1>5, <1>6 DEF ChainedOnce
  <1>9. QED
    BY <1>7, <1>8

\* A batch leaves the chain to be posted, or to be dropped.
LEMMA PlaceBatch ==
  ASSUME RelayShape, PlaceInv, NEW ok \in BOOLEAN, Batch(ok), work' = work
  PROVE  PlaceInv'
  <1>1. /\ chain # <<>> /\ chain' = Tail(chain) /\ UNCHANGED <<store, buffer>>
        /\ posts' \in Seq(Posts) /\ ChainedOnce
    BY BatchStep DEF PlaceInv
  <1>2. /\ \A m : Chained(m)' => Chained(m) /\ \A j \in DOMAIN chain[1].msgs : chain[1].msgs[j] # m
        /\ ChainedOnce'
    BY <1>1, TailPlaces
  <1>3. \A m : (Buffered(m)' <=> Buffered(m)) /\ (Handed(m)' <=> Handed(m))
    BY <1>1 DEF Buffered, Handed, InHand
  <1>4. BufferedOnce'
    BY <1>1 DEF PlaceInv, BufferedOnce
  <1>5. CASE posts' = posts
    <2>1. \A m : PostedMsg(m)' <=> PostedMsg(m)
      BY <1>5 DEF PostedMsg
    <2>2. Apart' /\ Captured'
      BY <1>1, <1>2, <1>3, <2>1 DEF PlaceInv, Apart, Captured
    <2>3. Kept'
      BY <1>1, <1>5 DEF PlaceInv, Kept
    <2>4. QED
      BY <1>2, <1>4, <2>2, <2>3 DEF PlaceInv
  <1>6. CASE /\ Len(posts') = Len(posts) + Len(chain[1].msgs)
             /\ \A i \in 1..Len(posts) : posts'[i] = posts[i]
             /\ \A i \in DOMAIN posts' : i > Len(posts) =>
                  /\ i - Len(posts) \in DOMAIN chain[1].msgs
                  /\ posts'[i].msg = chain[1].msgs[i - Len(posts)] /\ posts'[i].as = "live"
    <2>1. PICK p \in Seq(Posts) : p = posts
      BY DEF RelayShape
    <2>2. PICK q \in Seq(Posts) : q = posts'
      BY <1>1
    <2>3. PICK c \in Seq(Entries) : c = chain /\ c # <<>>
      BY <1>1 DEF RelayShape
    <2>4. 1 \in DOMAIN c /\ DOMAIN p = 1..Len(p) /\ DOMAIN q = 1..Len(q) /\ Len(p) \in Nat /\ Len(q) \in Nat
      BY <2>3
    <2>5. PICK s \in Seq(LiveMsgs) : s = c[1].msgs
      <3>1. c[1] \in Entries
        BY <2>3, <2>4
      <3>2. QED
        BY <3>1 DEF Entries
    <2>6. /\ \A i \in DOMAIN p : i \in DOMAIN q /\ q[i] = p[i]
          /\ \A i \in DOMAIN q : i \notin DOMAIN p =>
               /\ i - Len(p) \in DOMAIN s /\ q[i].msg = s[i - Len(p)] /\ q[i].as = "live"
      <3>1. /\ Len(q) = Len(p) + Len(s) /\ \A i \in 1..Len(p) : q[i] = p[i]
            /\ \A i \in DOMAIN q : i > Len(p) =>
                 i - Len(p) \in DOMAIN s /\ q[i].msg = s[i - Len(p)] /\ q[i].as = "live"
        BY <1>6, <2>1, <2>2, <2>3, <2>5
      <3>2. Len(s) \in Nat
        OBVIOUS
      <3>3. QED
        BY <2>4, <3>1, <3>2
    <2>7. \A j \in DOMAIN s : s[j] \in LiveMsgs /\ Chained(s[j])
      BY <2>3, <2>4, <2>5 DEF Chained
    <2>8. \A j \in DOMAIN s : /\ ~PostedMsg(s[j]) /\ ~Buffered(s[j]) /\ ~Handed(s[j])
                              /\ store[s[j]] = "live" /\ s[j] \notin Echoes
      BY <2>7 DEF PlaceInv, Apart, Captured
    <2>9. \A j, l \in DOMAIN s : s[j] = s[l] => j = l
      BY <2>3, <2>4, <2>5 DEF PlaceInv, ChainedOnce
    <2>10. \A m : PostedMsg(m)' => PostedMsg(m) \/ \E j \in DOMAIN s : s[j] = m
      BY <2>1, <2>2, <2>6 DEF PostedMsg
    <2>11. \A m : Chained(m)' => Chained(m) /\ \A j \in DOMAIN s : s[j] # m
      BY <1>2, <2>3, <2>5
    <2>12. Apart' /\ Captured'
      BY <1>1, <1>3, <2>8, <2>10, <2>11 DEF PlaceInv, Apart, Captured
    <2>13. ASSUME NEW i \in DOMAIN q, NEW k \in DOMAIN q, q[i].msg = q[k].msg
           PROVE  i = k
      <3>1. CASE i \in DOMAIN p /\ k \in DOMAIN p
        BY <2>1, <2>6, <2>13, <3>1 DEF PlaceInv, Kept
      <3>2. CASE i \notin DOMAIN p /\ k \notin DOMAIN p
        <4>1. i - Len(p) = k - Len(p)
          BY <2>6, <2>9, <2>13, <3>2
        <4>2. QED
          BY <2>4, <4>1
      <3>3. CASE i \in DOMAIN p /\ k \notin DOMAIN p
        BY <2>1, <2>6, <2>8, <2>13, <3>3 DEF PostedMsg
      <3>4. CASE i \notin DOMAIN p /\ k \in DOMAIN p
        BY <2>1, <2>6, <2>8, <2>13, <3>4 DEF PostedMsg
      <3>5. QED
        BY <3>1, <3>2, <3>3, <3>4
    <2>14. ASSUME NEW i \in DOMAIN q
           PROVE  /\ q[i].as = "live" => store[q[i].msg] = "live"
                  /\ q[i].as = "history" => store[q[i].msg] = "relayed"
                  /\ q[i].msg \notin Echoes
      <3>1. CASE i \in DOMAIN p
        BY <2>1, <2>6, <3>1 DEF PlaceInv, Kept
      <3>2. CASE i \notin DOMAIN p
        BY <2>6, <2>8, <3>2
      <3>3. QED
        BY <3>1, <3>2
    <2>15. Kept'
      BY <1>1, <2>2, <2>13, <2>14 DEF Kept
    <2>16. QED
      BY <1>2, <1>4, <2>12, <2>15 DEF PlaceInv
  <1>7. QED
    BY <1>5, <1>6, BatchStep

\* A replay leaves the chain, or stays at its head.
LEMMA PlaceReplay ==
  ASSUME RelayShape, PlaceInv, UNCHANGED <<store, buffer, posts>>, work' = work,
         chain' = chain \/ (chain # <<>> /\ chain' = Tail(chain))
  PROVE  PlaceInv'
  <1>1. CASE chain' = chain
    BY <1>1, PlaceStays
  <1>2. CASE chain # <<>> /\ chain' = Tail(chain)
    <2>1. ChainedOnce' /\ \A m : Chained(m)' => Chained(m)
      BY <1>2, TailPlaces DEF PlaceInv
    <2>2. \A m : /\ Buffered(m)' <=> Buffered(m)
                 /\ PostedMsg(m)' <=> PostedMsg(m)
                 /\ Handed(m)' <=> Handed(m)
      BY DEF Buffered, PostedMsg, Handed, InHand
    <2>3. Apart' /\ Captured'
      BY <2>1, <2>2 DEF PlaceInv, Apart, Captured
    <2>4. BufferedOnce' /\ Kept'
      BY DEF PlaceInv, BufferedOnce, Kept
    <2>5. QED
      BY <2>1, <2>3, <2>4 DEF PlaceInv
  <1>3. QED
    BY <1>1, <1>2

\* A row was never in hand, nor posted before.
LEMMA PlaceRow ==
  ASSUME RelayShape, PlaceInv, MarkInv, ReplayInv, work' = work,
         NEW ok \in BOOLEAN, NEW m \in Msgs, Relay(m, ok)
  PROVE  PlaceInv'
  <1>1. /\ store[m] = "history" /\ UNCHANGED <<buffer, chain>>
    BY RowStep DEF ReplayInv, Unrelayed
  <1>2. m \in LiveMsgs => ~Handed(m) /\ ~Buffered(m) /\ ~Chained(m)
    BY <1>1 DEF PlaceInv, Captured, MarkInv
  <1>3. m \notin Echoes
    BY <1>1 DEF MarkInv
  <1>4. ~PostedMsg(m)
    BY <1>1, PostTyped DEF PlaceInv, Kept, PostedMsg
  <1>5. CASE UNCHANGED <<store, posts>>
    BY <1>1, <1>5, PlaceReplay
  <1>6. ASSUME NEW r \in Posts, r.msg = m, r.as = "history", posts' = Append(posts, r),
               store' = [store EXCEPT ![m] = "relayed"]
        PROVE  PlaceInv'
    <2>1. PICK p \in Seq(Posts) : p = posts
      BY DEF RelayShape
    <2>2. PICK q \in Seq(Posts) : q = Append(p, r)
      <3>1. Append(p, r) \in Seq(Posts)
        OBVIOUS
      <3>2. QED
        BY <3>1, Zenon
    <2>3. /\ DOMAIN q = 1..(Len(p) + 1) /\ DOMAIN p = 1..Len(p) /\ Len(p) \in Nat
          /\ \A i \in DOMAIN p : q[i] = p[i]
          /\ q[Len(p) + 1] = r
      BY <2>2
    <2>4. posts' = q
      BY <1>6, <2>1, <2>2
    <2>5. store \in [Msgs -> Marks] /\ store'[m] = "relayed" /\ \A n \in Msgs : n # m => store'[n] = store[n]
      BY <1>6 DEF RelayShape
    <2>6. \A n : /\ Buffered(n)' <=> Buffered(n)
                 /\ Chained(n)' <=> Chained(n)
                 /\ Handed(n)' <=> Handed(n)
      BY <1>1 DEF Buffered, Chained, Handed, InHand
    <2>7. \A n : PostedMsg(n)' => PostedMsg(n) \/ n = m
      BY <1>6, <2>1, <2>3, <2>4 DEF PostedMsg
    <2>8. \A n \in LiveMsgs : n \in Msgs
      BY DEF Msgs
    <2>9. Apart' /\ Captured'
      BY <1>2, <1>3, <1>1, <2>5, <2>6, <2>7, <2>8 DEF PlaceInv, Apart, Captured
    <2>10. \A i \in DOMAIN p : p[i].msg # m /\ p[i].msg \in Msgs
      BY <1>4, <2>1, PostTyped DEF PostedMsg
    <2>11. \A i, k \in DOMAIN q : q[i].msg = q[k].msg => i = k
      <3>1. \A i, k \in DOMAIN p : p[i].msg = p[k].msg => i = k
        BY <2>1 DEF PlaceInv, Kept
      <3>2. QED
        BY <1>6, <2>3, <2>10, <3>1
    <2>12. ASSUME NEW i \in DOMAIN q
           PROVE  /\ q[i].as = "live" => store'[q[i].msg] = "live"
                  /\ q[i].as = "history" => store'[q[i].msg] = "relayed"
                  /\ q[i].msg \notin Echoes
      <3>1. CASE i \in DOMAIN p
        BY <2>1, <2>3, <2>5, <2>10, <3>1 DEF PlaceInv, Kept
      <3>2. CASE i = Len(p) + 1
        BY <1>3, <1>6, <2>3, <2>5, <3>2
      <3>3. QED
        BY <2>3, <3>1, <3>2
    <2>13. Kept'
      BY <2>4, <2>11, <2>12 DEF Kept
    <2>14. BufferedOnce' /\ ChainedOnce'
      BY <1>1 DEF PlaceInv, BufferedOnce, ChainedOnce
    <2>15. QED
      BY <2>9, <2>13, <2>14 DEF PlaceInv
  <1>7. QED
    BY <1>5, <1>6, RowStep

LEMMA PlaceStep ==
  ASSUME StayShape, RelayShape, PlaceInv, MarkInv, ReplayInv, [HistoryNext]_historyVars
  PROVE  PlaceInv'
  <1>1. CASE Event \/ UNCHANGED historyVars \/ Hold \/ IgnoreChunk \/ AllGone \/ Released
    <2>1. UNCHANGED <<store, buffer, chain, posts>>
      BY <1>1, EventFrame, QueueFrame DEF historyVars
    <2>2. ~InHand' \/ work' = work
      <3>1. CASE Event \/ UNCHANGED historyVars \/ Hold \/ IgnoreChunk
        BY <3>1, EventFrame DEF historyVars, Hold, IgnoreChunk
      <3>2. CASE AllGone
        BY <3>2 DEF AllGone, Idle, InHand
      <3>3. CASE Released
        <4>1. PICK w \in Works : w = work
          BY DEF StayShape, WorkShape
        <4>2. CASE work' = Idle
          BY <4>2 DEF Idle, InHand
        <4>3. CASE work' = [w EXCEPT !.at = "letting go", !.msgs = wait.held]
          <5>1. PICK h : h = wait.held
            OBVIOUS
          <5>2. work'.at = "letting go"
            BY <4>1, <4>3, <5>1 DEF Works
          <5>3. QED
            BY <5>2 DEF InHand
        <4>4. QED
          BY <3>3, <4>1, <4>2, <4>3 DEF Released
      <3>4. QED
        BY <1>1, <3>1, <3>2, <3>3
    <2>3. QED
      BY <2>1, <2>2, PlaceStays
  <1>2. CASE Flush
    BY <1>2, PlaceFlush, ChainFrame
  <1>3. ASSUME NEW ok \in BOOLEAN, Batch(ok)
        PROVE  PlaceInv'
    BY <1>3, PlaceBatch, ChainFrame DEF ChainStep
  <1>4. CASE ReadRows
    BY <1>4, ReadStep, PlaceReplay, ChainFrame DEF ChainStep
  <1>5. CASE Prepare \/ Close \/ \E ok \in BOOLEAN : Open(ok)
    <2>1. chain # <<>>
      BY <1>5, GoesOn DEF ReplayInv
    <2>2. QED
      BY <1>5, <2>1, GoesOn, PlaceReplay, ChainFrame DEF ChainStep
  <1>6. ASSUME NEW ok \in BOOLEAN, NEW m \in Msgs, Relay(m, ok)
        PROVE  PlaceInv'
    BY <1>6, PlaceRow, ChainFrame DEF ChainStep
  <1>7. QED
    BY <1>1, <1>2, <1>3, <1>4, <1>5, <1>6, PlaceTake, PlaceHand, PlaceAsk
       DEF HistoryNext, QueueStep, ChainStep, Event

-------------------------------------------------------------------------------

\* What is posted stays posted.
LEMMA PostsGrow ==
  ASSUME RelayShape, ChainStep, NEW m, PostedMsg(m)
  PROVE  PostedMsg(m)'
  <1>1. PICK p \in Seq(Posts) : p = posts
    BY DEF RelayShape
  <1>2. DOMAIN p = 1..Len(p) /\ Len(p) \in Nat
    OBVIOUS
  <1>3. CASE posts' = posts
    BY <1>3 DEF PostedMsg
  <1>4. CASE \E r \in Posts : posts' = Append(p, r)
    BY <1>1, <1>2, <1>4 DEF PostedMsg
  <1>5. ASSUME NEW ok \in BOOLEAN, Batch(ok)
        PROVE  PostedMsg(m)'
    <2>1. PICK q \in Seq(Posts) : q = posts'
      BY <1>5, BatchStep
    <2>2. CASE Len(q) >= Len(p) /\ \A i \in 1..Len(p) : q[i] = p[i]
      BY <1>1, <1>2, <2>1, <2>2 DEF PostedMsg
    <2>3. CASE Len(q) = Len(p) + Len(chain[1].msgs) /\ \A i \in 1..Len(p) : q[i] = p[i]
      <3>1. Len(chain[1].msgs) \in Nat
        <4>1. PICK c \in Seq(Entries) : c = chain /\ c # <<>>
          BY <1>5, BatchStep DEF RelayShape
        <4>2. c[1] \in Entries
          BY <4>1
        <4>3. PICK s \in Seq(LiveMsgs) : s = c[1].msgs
          BY <4>2 DEF Entries
        <4>4. QED
          BY <4>1, <4>3
      <3>2. QED
        BY <1>2, <2>2, <2>3, <3>1
    <2>4. QED
      BY <1>1, <1>3, <1>5, <2>1, <2>3, BatchStep
  <1>6. CASE ReadRows \/ Prepare \/ Close \/ \E ok \in BOOLEAN : Open(ok)
    BY <1>3, <1>6, ReadStep, GoesOn
  <1>7. ASSUME NEW ok \in BOOLEAN, NEW n \in Msgs, Relay(n, ok)
        PROVE  PostedMsg(m)'
    BY <1>1, <1>3, <1>4, <1>7, RowStep
  <1>8. QED
    BY <1>5, <1>6, <1>7 DEF ChainStep

LEMMA MarkStep ==
  ASSUME StayShape, RelayShape, MarkInv, [HistoryNext]_historyVars
  PROVE  MarkInv'
  <1>1. CASE posts' = posts /\ store' = store
    BY <1>1 DEF MarkInv, PostedMsg
  <1>2. CASE Event \/ UNCHANGED historyVars \/ Hold \/ IgnoreChunk \/ AllGone \/ Released
             \/ Downloaded \/ Fetched \/ TimeoutTurn \/ Flush
    BY <1>1, <1>2, EventFrame, QueueFrame, HandStep, AskStep, FlushStep DEF historyVars, TimeoutTurn
  <1>3. CASE TakeLive \/ LetGo
    <2>1. \A m \in Msgs : store'[m] \in {store[m], "live"}
      BY <1>3 DEF TakeLive, LetGo, Take, Inserted, RelayShape
    <2>2. posts' = posts
      BY <1>3, TakeFrame
    <2>3. Echoes \subseteq Msgs
      BY GroupHistoryAssumption DEF Msgs
    <2>4. QED
      BY <2>1, <2>2, <2>3 DEF MarkInv, PostedMsg
  <1>4. CASE CaptureChunk
    <2>1. \A m \in Msgs : /\ store'[m] \in {store[m], "history", "relayed"}
                          /\ store'[m] = "relayed" /\ store[m] # "relayed" => m \in Echoes
                          /\ m \in Echoes => store'[m] \in {store[m], "relayed"}
      <3>1. \A m \in Msgs : store'[m] = IF m \in First.rows \cap Echoes /\ store[m] = "none"
                                         THEN "relayed" ELSE Inserted(First.rows, "history")[m]
        BY <1>4 DEF CaptureChunk
      <3>2. \A m \in Msgs : Inserted(First.rows, "history")[m]
                              = IF m \in First.rows /\ store[m] = "none" THEN "history" ELSE store[m]
        BY DEF Inserted
      <3>3. QED
        BY <3>1, <3>2
    <2>2. posts' = posts
      BY <1>4, AskStep
    <2>3. Echoes \subseteq Msgs
      BY GroupHistoryAssumption DEF Msgs
    <2>4. QED
      BY <2>1, <2>2, <2>3 DEF MarkInv, PostedMsg
  <1>5. CASE ChainStep /\ store' = store
    BY <1>5, PostsGrow DEF MarkInv
  <1>6. ASSUME NEW ok \in BOOLEAN, Batch(ok) \/ ReadRows \/ Prepare \/ Close \/ Open(ok)
        PROVE  MarkInv'
    <2>1. store' = store
      BY <1>6, BatchStep, ReadStep, GoesOn
    <2>2. ChainStep
      BY <1>6 DEF ChainStep
    <2>3. QED
      BY <1>5, <2>1, <2>2
  <1>7. ASSUME NEW ok \in BOOLEAN, NEW m \in Msgs, Relay(m, ok)
        PROVE  MarkInv'
    <2>1. ChainStep
      BY <1>7 DEF ChainStep
    <2>2. CASE store' = store
      BY <1>5, <2>1, <2>2
    <2>3. ASSUME NEW r \in Posts, r.msg = m, posts' = Append(posts, r),
                 store' = [store EXCEPT ![m] = "relayed"]
          PROVE  MarkInv'
      <3>1. PICK p \in Seq(Posts) : p = posts
        BY DEF RelayShape
      <3>2. Append(p, r)[Len(p) + 1] = r /\ Len(p) + 1 \in DOMAIN Append(p, r)
        BY <3>1
      <3>3. PostedMsg(m)'
        BY <2>3, <3>1, <3>2 DEF PostedMsg
      <3>4. store \in [Msgs -> Marks] /\ Echoes \subseteq Msgs
        BY GroupHistoryAssumption DEF RelayShape, Msgs
      <3>5. \A n \in Msgs : store'[n] = IF n = m THEN "relayed" ELSE store[n]
        BY <2>3, <3>4
      <3>6. \A n : PostedMsg(n) => PostedMsg(n)'
        BY <2>1, PostsGrow
      <3>7. QED
        BY <3>3, <3>4, <3>5, <3>6 DEF MarkInv
    <2>4. QED
      BY <1>7, <2>2, <2>3, RowStep
  <1>8. QED
    BY <1>2, <1>3, <1>4, <1>6, <1>7 DEF HistoryNext, QueueStep, ChainStep, Event

\* The queue works on only when no replay is under way.
LEMMA NoReplay ==
  ASSUME ReplayInv, work.at # "replaying" \/ ~Replaying
  PROVE  /\ \A i \in DOMAIN chain : ~IsReplay(i)
         /\ job.at = "none" \/ DOMAIN chain = {}
  BY DEF ReplayInv, Replaying, IsReplay

LEMMA ReplayStep ==
  ASSUME StayShape, RelayShape, ReplayInv, [HistoryNext]_historyVars
  PROVE  ReplayInv'
  <1>0. PICK c \in Seq(Entries) : c = chain
    BY DEF RelayShape
  <1>1. /\ DOMAIN c = 1..Len(c) /\ Len(c) \in Nat /\ (c # <<>> => 1 \in DOMAIN c)
        /\ \A i \in DOMAIN c : c[i] \in Entries
    OBVIOUS
  <1>2. CASE work' = work /\ UNCHANGED <<store, chain, job>>
    BY <1>2 DEF ReplayInv, IsReplay, Unrelayed
  <1>3. CASE (work.at # "replaying" \/ ~Replaying) /\ UNCHANGED <<chain, job>>
    <2>1. \A i \in DOMAIN chain : ~IsReplay(i)
      BY <1>3, NoReplay
    <2>2. job.at = "none"
      BY <1>0, <1>1, <2>1 DEF ReplayInv
    <2>3. QED
      BY <1>3, <2>1, <2>2 DEF ReplayInv, IsReplay
  <1>4. CASE Event \/ UNCHANGED historyVars
    BY <1>2, <1>4, EventFrame DEF historyVars
  <1>5. CASE \/ Hold \/ IgnoreChunk \/ AllGone \/ Released \/ TakeLive \/ LetGo
             \/ Downloaded \/ Fetched
    <2>1. UNCHANGED <<chain, job>>
      BY <1>5, QueueFrame, TakeFrame, HandStep
    <2>2. work.at # "replaying" \/ ~Replaying
      BY <1>5 DEF Hold, IgnoreChunk, AllGone, Released, TakeLive, LetGo, Downloaded, Fetched, Next1
    <2>3. QED
      BY <1>3, <2>1, <2>2
  <1>6. CASE CaptureChunk \/ TimeoutTurn
    <2>1. work.at = "idle" /\ job' = job
      BY <1>6, AskStep
    <2>2. CASE chain' = chain
      BY <1>3, <2>1, <2>2
    <2>3. ASSUME NEW e \in Entries, chain' = Append(c, e), work'.at = "replaying"
          PROVE  ReplayInv'
      <3>1. \A i \in DOMAIN c : c[i].kind # "replay"
        BY <1>0, <2>1, NoReplay DEF IsReplay
      <3>2. job.at = "none"
        BY <1>0, <1>1, <3>1 DEF ReplayInv, IsReplay
      <3>3. \A i \in DOMAIN Append(c, e) : Append(c, e)[i].kind = "replay" => i = Len(c) + 1
        BY <1>1, <3>1
      <3>4. QED
        BY <2>1, <2>3, <3>2, <3>3 DEF ReplayInv, IsReplay
    <2>4. QED
      BY <1>0, <1>6, <2>2, <2>3, AskStep
  <1>7. CASE Flush
    <2>1. PICK e \in Entries : e.kind = "batch" /\ chain' = Append(c, e)
      BY <1>0, <1>7, FlushStep
    <2>2. work' = work /\ UNCHANGED <<store, job>>
      BY <1>7, FlushStep, ChainFrame
    <2>3. PICK t \in Seq(Entries) : t = Append(c, e)
      <3>1. Append(c, e) \in Seq(Entries)
        OBVIOUS
      <3>2. QED
        BY <3>1, Zenon
    <2>4. /\ \A i \in DOMAIN t : t[i].kind = "replay" => i \in DOMAIN c /\ c[i].kind = "replay"
          /\ c # <<>> => t # <<>> /\ t[1] = c[1]
      BY <1>1, <2>1, <2>3
    <2>5. QED
      BY <1>0, <2>1, <2>2, <2>3, <2>4 DEF ReplayInv, IsReplay, Unrelayed
  <1>8. ASSUME c # <<>>, chain' = Tail(c), job'.at = "none", work' = work
        PROVE  /\ ReplayInv'
               /\ \A i \in DOMAIN chain' : i + 1 \in DOMAIN c /\ chain'[i] = c[i + 1]
               /\ \A i \in DOMAIN c : i # 1 => i - 1 \in DOMAIN chain' /\ chain'[i - 1] = c[i]
    <2>1. PICK t \in Seq(Entries) : t = Tail(c)
      BY <1>8, HeadTailProperties
    <2>2. \A i \in DOMAIN t : i + 1 \in DOMAIN c /\ t[i] = c[i + 1]
      BY <1>1, <1>8, <2>1, HeadTailProperties
    <2>3. \A i \in DOMAIN c : i # 1 => i - 1 \in DOMAIN t /\ t[i - 1] = c[i]
      BY <1>1, <1>8, <2>1, HeadTailProperties
    <2>4. ASSUME NEW i \in DOMAIN t, NEW k \in DOMAIN t, t[i].kind = "replay", t[k].kind = "replay"
          PROVE  i = k
      <3>1. i + 1 = k + 1
        BY <1>0, <2>2, <2>4 DEF ReplayInv, IsReplay
      <3>2. QED
        BY <2>1, <3>1
    <2>5. \A i \in DOMAIN t : t[i].kind = "replay" => work.at = "replaying"
      BY <1>0, <2>2 DEF ReplayInv, IsReplay
    <2>6. QED
      BY <1>8, <2>1, <2>2, <2>3, <2>4, <2>5 DEF ReplayInv, IsReplay
  <1>9. ASSUME NEW ok \in BOOLEAN, Batch(ok)
        PROVE  ReplayInv'
    <2>1. c # <<>> /\ chain' = Tail(c) /\ c[1].kind = "batch" /\ job' = job
      BY <1>0, <1>9, BatchStep
    <2>2. job.at = "none"
      BY <1>0, <2>1 DEF ReplayInv, IsReplay
    <2>3. work' = work
      BY <1>9, ChainFrame DEF ChainStep
    <2>4. QED
      BY <1>8, <2>1, <2>2, <2>3
  <1>10. CASE ReadRows
    <2>1. work' = work
      BY <1>10, ChainFrame DEF ChainStep
    <2>2. CASE chain' = chain
      BY <1>0, <1>10, <2>1, <2>2, ReadStep DEF ReplayInv, IsReplay, Unrelayed
    <2>3. QED
      BY <1>0, <1>8, <1>10, <2>1, <2>2, ReadStep
  <1>11. CASE Prepare \/ Close \/ \E ok \in BOOLEAN : Open(ok)
    <2>1. work' = work /\ c # <<>>
      BY <1>0, <1>11, ChainFrame, GoesOn DEF ChainStep, ReplayInv
    <2>2. CASE chain' = chain /\ job'.rows = job.rows
      BY <1>0, <1>11, <2>1, <2>2, GoesOn DEF ReplayInv, IsReplay, Unrelayed
    <2>3. QED
      BY <1>0, <1>8, <1>11, <2>1, <2>2, GoesOn
  <1>12. ASSUME NEW ok \in BOOLEAN, NEW m \in Msgs, Relay(m, ok)
         PROVE  ReplayInv'
    <2>1. work' = work
      BY <1>12, ChainFrame DEF ChainStep
    <2>2. chain' = chain /\ job.at # "none" /\ job'.rows = job.rows \ {m}
      BY <1>12, RowStep
    <2>3. \A n \in Msgs : n # m => store'[n] = store[n]
      BY <1>12, RowStep DEF RelayShape
    <2>4. QED
      BY <2>1, <2>2, <2>3 DEF ReplayInv, IsReplay, Unrelayed
  <1>13. QED
    BY <1>4, <1>5, <1>6, <1>7, <1>9, <1>10, <1>11, <1>12
       DEF HistoryNext, QueueStep, ChainStep, Event

\* A batch brings live messages only, a row is newer than the rows of its replay before
\* it, and another replay begins after all that was posted.
LEMMA SortStep ==
  ASSUME StayShape, RelayShape, ReplayInv, SortInv, [HistoryNext]_historyVars
  PROVE  SortInv'
  <1>0. PICK p \in Seq(Posts) : p = posts
    BY DEF RelayShape
  <1>1. /\ DOMAIN p = 1..Len(p) /\ Len(p) \in Nat
        /\ \A i \in DOMAIN p : p[i].msg \in Msgs /\ p[i].from \in Nat
    BY <1>0, PostTyped
  <1>2. CASE posts' = posts /\ job' = job
    BY <1>2 DEF SortInv, OldestFirstPosted
  <1>3. CASE posts' = posts /\ job'.at = "none"
    BY <1>3 DEF SortInv, OldestFirstPosted
  <1>4. CASE Event \/ UNCHANGED historyVars \/ Hold \/ IgnoreChunk \/ AllGone \/ Released
             \/ TakeLive \/ LetGo \/ Downloaded \/ Fetched \/ CaptureChunk \/ TimeoutTurn \/ Flush
    BY <1>2, <1>4, EventFrame, QueueFrame, TakeFrame, HandStep, AskStep, FlushStep DEF historyVars
  <1>5. ASSUME NEW ok \in BOOLEAN, Batch(ok)
        PROVE  SortInv'
    <2>1. PICK q \in Seq(Posts) : q = posts'
      BY <1>5, BatchStep
    <2>2. job' = job /\ job.at = "none"
      BY <1>5, BatchStep DEF ReplayInv, IsReplay
    <2>3. \A i \in DOMAIN q : q[i].as = "history" => i \in DOMAIN p /\ q[i] = p[i]
      <3>1. CASE q = p
        BY <3>1
      <3>2. CASE /\ \A i \in 1..Len(p) : q[i] = p[i]
                 /\ \A i \in DOMAIN q : i > Len(p) => q[i].as = "live"
        BY <1>1, <3>2
      <3>3. QED
        BY <1>0, <1>5, <2>1, <3>1, <3>2, BatchStep
    <2>4. QED
      BY <1>0, <2>1, <2>2, <2>3 DEF SortInv, OldestFirstPosted
  <1>6. CASE ReadRows
    <2>1. posts' = posts
      BY <1>6, ReadStep
    <2>2. CASE job'.from = Len(posts)
      <3>1. \A i \in DOMAIN posts : posts[i].as = "history" => posts[i].from # Len(posts)
        BY <1>0, <1>1 DEF SortInv
      <3>2. QED
        BY <1>0, <1>1, <2>1, <2>2, <3>1 DEF SortInv, OldestFirstPosted
    <2>3. QED
      BY <1>3, <1>6, <2>1, <2>2, ReadStep
  <1>7. ASSUME NEW ok \in BOOLEAN, Open(ok) \/ Prepare \/ Close
        PROVE  SortInv'
    <2>1. posts' = posts /\ job.at # "none"
      BY <1>7, GoesOn
    <2>2. CASE job'.rows = job.rows /\ job'.from = job.from
      BY <2>1, <2>2 DEF SortInv, OldestFirstPosted
    <2>3. QED
      BY <1>3, <1>7, <2>1, <2>2, GoesOn
  <1>8. ASSUME NEW ok \in BOOLEAN, NEW m \in Msgs, Relay(m, ok)
        PROVE  SortInv'
    <2>1. /\ job.at # "none" /\ m \in job.rows /\ (\A n \in job.rows : m <= n)
          /\ job'.rows = job.rows \ {m} /\ job'.from = job.from /\ job.from \in Nat
      BY <1>8, RowStep DEF RelayShape, Jobs
    <2>2. CASE posts' = posts
      BY <2>1, <2>2 DEF SortInv, OldestFirstPosted
    <2>3. ASSUME NEW r \in Posts, r.msg = m, r.as = "history", r.from = job.from,
                 posts' = Append(p, r)
          PROVE  SortInv'
      <3>1. PICK q \in Seq(Posts) : q = Append(p, r)
        <4>1. Append(p, r) \in Seq(Posts)
          OBVIOUS
        <4>2. QED
          BY <4>1, Zenon
      <3>2. /\ Len(q) = Len(p) + 1 /\ DOMAIN q = 1..(Len(p) + 1)
            /\ q[Len(p) + 1] = r /\ \A i \in DOMAIN p : q[i] = p[i]
        BY <1>1, <3>1
      <3>3. ASSUME NEW n \in job.rows \ {m}
            PROVE  m < n
        <4>1. Msgs \subseteq Nat /\ job.rows \subseteq Msgs
          BY GroupHistoryAssumption DEF Msgs, RelayShape, Jobs
        <4>2. m \in Nat /\ n \in Nat /\ m <= n /\ m # n
          BY <2>1, <4>1
        <4>3. QED
          BY <4>2
      <3>4. \A i \in DOMAIN p : p[i].as = "history" =>
              p[i].from < i /\ (p[i].from = r.from => p[i].msg < m)
        BY <1>0, <2>1, <2>3 DEF SortInv
      <3>5. job.from <= Len(p)
        BY <1>0, <2>1 DEF SortInv
      <3>6. \A i \in DOMAIN q : q[i].as = "history" => q[i].from < i
        BY <1>1, <2>1, <2>3, <3>2, <3>4, <3>5
      <3>7. ASSUME NEW i \in DOMAIN q, NEW k \in DOMAIN q, i < k, q[i].as = "history",
                   q[k].as = "history", q[i].from = q[k].from
            PROVE  q[i].msg < q[k].msg
        <4>1. i \in DOMAIN p /\ q[i] = p[i]
          BY <1>1, <3>2, <3>7
        <4>2. CASE k \in DOMAIN p
          <5>1. q[k] = p[k]
            BY <3>2, <4>2
          <5>2. QED
            BY <1>0, <3>7, <4>1, <4>2, <5>1 DEF SortInv, OldestFirstPosted
        <4>3. CASE k = Len(p) + 1
          BY <2>3, <3>2, <3>4, <3>7, <4>1, <4>3
        <4>4. QED
          BY <1>1, <3>2, <4>2, <4>3
      <3>8. ASSUME NEW i \in DOMAIN q, q[i].as = "history", q[i].from = job.from,
                   NEW n \in job.rows \ {m}
            PROVE  q[i].msg < n
        <4>1. CASE i \in DOMAIN p
          <5>1. q[i] = p[i]
            BY <3>2, <4>1
          <5>2. QED
            BY <1>0, <2>1, <3>8, <4>1, <5>1 DEF SortInv
        <4>2. CASE i = Len(p) + 1
          BY <2>3, <3>2, <3>3, <4>2
        <4>3. QED
          BY <1>1, <3>2, <4>1, <4>2
      <3>9. job'.from <= Len(q)
        BY <1>1, <2>1, <3>2, <3>5
      <3>10. posts' = q
        BY <2>3, <3>1
      <3>11. QED
        BY <2>1, <3>6, <3>7, <3>8, <3>9, <3>10 DEF SortInv, OldestFirstPosted
    <2>4. QED
      BY <1>0, <1>8, <2>2, <2>3, RowStep
  <1>9. QED
    BY <1>4, <1>5, <1>6, <1>7, <1>8 DEF HistoryNext, QueueStep, ChainStep, Event

\* A membership change makes a replay under way one of an earlier stay; otherwise it
\* is asked for with the store to read, reads it, and gives up what it does not mark.
LEMMA AwaitedStep ==
  ASSUME StayShape, RelayShape, ReplayInv, AwaitedTurn, [HistoryNext]_historyVars
  PROVE  AwaitedTurn'
  <1>0. PICK c \in Seq(Entries) : c = chain
    BY DEF RelayShape
  <1>1. DOMAIN c = 1..Len(c) /\ Len(c) \in Nat /\ (c # <<>> => 1 \in DOMAIN c)
    OBVIOUS
  <1>2. CASE work'.at # "replaying"
    BY <1>2 DEF AwaitedTurn
  <1>3. CASE /\ UNCHANGED <<work, epoch, wait, chain, job, missed>>
             /\ Unrelayed' \subseteq Unrelayed
    BY <1>3 DEF AwaitedTurn, IsReplay, Waiting
  <1>4. CASE SelfAdded \/ SelfRemoved
    <2>1. work' = work /\ epoch' = epoch + 1
      BY <1>4 DEF SelfAdded, SelfRemoved
    <2>2. epoch \in Nat /\ work.epoch \in Nat /\ work.epoch <= epoch
      BY DEF StayShape, MemberShape, WorkShape, Works
    <2>3. work'.epoch # epoch'
      BY <2>1, <2>2
    <2>4. QED
      BY <2>3 DEF AwaitedTurn
  <1>5. CASE WaitEnds
    <2>1. UNCHANGED <<work, epoch, chain, job, missed, store>> /\ Waiting
      BY <1>5, EventFrame DEF WaitEnds, Event
    <2>2. QED
      BY <2>1 DEF AwaitedTurn, IsReplay, Unrelayed
  <1>6. CASE \/ AddedAgain \/ \E m \in LiveMsgs : Arrive(m)
             \/ \E S \in SUBSET PastMsgs, complete \in BOOLEAN : ChunkArrives(S, complete)
             \/ UNCHANGED historyVars
    <2>1. UNCHANGED <<work, epoch, wait, chain, job, missed, store>>
      BY <1>6 DEF AddedAgain, Arrive, ChunkArrives, historyVars, socketVars, routerVars
    <2>2. QED
      BY <1>3, <2>1 DEF Unrelayed
  <1>7. CASE Hold \/ IgnoreChunk \/ AllGone \/ Released \/ TakeLive \/ LetGo \/ Downloaded \/ Fetched
    <2>0. Idle.at = "idle"
      BY DEF Idle
    <2>1. CASE Hold \/ IgnoreChunk \/ AllGone \/ Downloaded
      <3>1. CASE work.at = "idle" /\ work' = work
        BY <1>2, <3>1
      <3>2. CASE work' = Idle
        BY <1>2, <2>0, <3>2
      <3>3. QED
        BY <2>1, <3>1, <3>2 DEF Hold, IgnoreChunk, AllGone, Downloaded, Next1
    <2>2. PICK w \in Works : w = work
      BY DEF StayShape, WorkShape
    <2>3. ASSUME NEW s, NEW a \in {"letting go", "fetching"}, work' = [w EXCEPT !.at = a, !.msgs = s]
          PROVE  AwaitedTurn'
      BY <1>2, <2>3 DEF Works
    <2>4. CASE Released
      <3>1. CASE work' = Idle
        BY <1>2, <2>0, <3>1
      <3>2. CASE work' = [w EXCEPT !.at = "letting go", !.msgs = wait.held]
        <4>1. PICK s : s = wait.held
          OBVIOUS
        <4>2. work' = [w EXCEPT !.at = "letting go", !.msgs = s]
          BY <3>2, <4>1
        <4>3. QED
          BY <2>3, <4>2
      <3>3. QED
        BY <2>2, <2>4, <3>1, <3>2 DEF Released
    <2>5. CASE TakeLive
      BY <1>2, <2>5 DEF TakeLive, Take, Idle
    <2>6. CASE Fetched
      BY <2>2, <2>3, <2>6 DEF Fetched
    <2>7. CASE LetGo
      <3>1. w.at = "letting go"
        BY <2>2, <2>7 DEF LetGo
      <3>2. CASE work' = [w EXCEPT !.at = "fetching"]
        BY <1>2, <3>2 DEF Works
      <3>3. ASSUME NEW s, work' = [w EXCEPT !.msgs = s]
            PROVE  AwaitedTurn'
        BY <1>2, <3>1, <3>3 DEF Works
      <3>4. QED
        BY <2>2, <2>7, <3>2, <3>3 DEF LetGo
    <2>8. QED
      BY <1>7, <2>1, <2>4, <2>5, <2>6, <2>7
  <1>8. CASE CaptureChunk \/ TimeoutTurn
    <2>1. work.at = "idle" /\ epoch' = epoch /\ job' = job
      BY <1>8, AskStep
    <2>2. CASE work' = work
      BY <1>2, <2>1, <2>2
    <2>3. ASSUME NEW e \in Entries, e.kind = "replay", e.epoch = epoch, chain' = Append(c, e)
          PROVE  AwaitedTurn'
      <3>1. \A i \in DOMAIN c : c[i].kind # "replay"
        BY <1>0, <2>1, NoReplay DEF IsReplay
      <3>2. job.at = "none"
        BY <1>0, <1>1, <3>1 DEF ReplayInv, IsReplay
      <3>3. /\ \A i \in DOMAIN Append(c, e) : Append(c, e)[i].kind = "replay" => Append(c, e)[i] = e
            /\ Len(c) + 1 \in DOMAIN Append(c, e) /\ Append(c, e)[Len(c) + 1] = e
        BY <1>1, <3>1
      <3>4. QED
        BY <2>1, <2>3, <3>2, <3>3 DEF AwaitedTurn, IsReplay
    <2>4. QED
      BY <1>0, <1>8, <2>2, <2>3, AskStep
  <1>9. CASE Flush
    <2>1. PICK e \in Entries : e.kind = "batch" /\ chain' = Append(c, e)
      BY <1>0, <1>9, FlushStep
    <2>2. UNCHANGED <<work, epoch, wait, store, job, missed>>
      BY <1>9, FlushStep, ChainFrame
    <2>3. PICK t \in Seq(Entries) : t = Append(c, e)
      <3>1. Append(c, e) \in Seq(Entries)
        OBVIOUS
      <3>2. QED
        BY <3>1, Zenon
    <2>4. /\ \A i \in DOMAIN t : t[i].kind = "replay" => i \in DOMAIN c /\ t[i] = c[i]
          /\ \A i \in DOMAIN c : i \in DOMAIN t /\ t[i] = c[i]
      BY <1>1, <2>1, <2>3
    <2>5. QED
      BY <1>0, <2>1, <2>2, <2>3, <2>4 DEF AwaitedTurn, IsReplay, Unrelayed, Waiting
  <1>10. ASSUME c # <<>>, chain' = Tail(c)
         PROVE  /\ \A i \in DOMAIN chain' : i + 1 \in DOMAIN c /\ i + 1 # 1 /\ chain'[i] = c[i + 1]
                /\ \A i \in DOMAIN c : i # 1 => i - 1 \in DOMAIN chain' /\ chain'[i - 1] = c[i]
    <2>1. PICK t \in Seq(Entries) : t = Tail(c)
      BY <1>10, HeadTailProperties
    <2>2. \A i \in DOMAIN t : i + 1 \in DOMAIN c /\ i + 1 # 1 /\ t[i] = c[i + 1]
      BY <1>1, <1>10, <2>1, HeadTailProperties
    <2>3. \A i \in DOMAIN c : i # 1 => i - 1 \in DOMAIN t /\ t[i - 1] = c[i]
      BY <1>1, <1>10, <2>1, HeadTailProperties
    <2>4. QED
      BY <1>10, <2>1, <2>2, <2>3
  <1>11. ASSUME NEW ok \in BOOLEAN, Batch(ok)
         PROVE  AwaitedTurn'
    <2>1. c # <<>> /\ chain' = Tail(c) /\ c[1].kind = "batch" /\ UNCHANGED <<store, job, missed>>
      BY <1>0, <1>11, BatchStep
    <2>2. UNCHANGED <<work, epoch, wait>> /\ job.at = "none"
      BY <1>0, <1>11, <2>1, ChainFrame DEF ChainStep, ReplayInv, IsReplay
    <2>3. /\ \A i \in DOMAIN chain' : IsReplay(i)' => i + 1 \in DOMAIN c /\ chain'[i] = c[i + 1]
          /\ \A i \in DOMAIN c : c[i].kind = "replay" => i - 1 \in DOMAIN chain' /\ chain'[i - 1] = c[i]
      BY <1>10, <2>1 DEF IsReplay
    <2>4. QED
      BY <1>0, <2>1, <2>2, <2>3 DEF AwaitedTurn, IsReplay, Unrelayed, Waiting
  <1>12. ASSUME c # <<>>, c[1].kind = "replay", chain' = Tail(c), job'.at = "none", store' = store,
                UNCHANGED <<work, epoch, wait>>,
                work.at = "replaying" /\ work.epoch = epoch /\ Waiting => Unrelayed \subseteq missed'
         PROVE  AwaitedTurn'
    <2>1. \A i \in DOMAIN chain' : ~IsReplay(i)'
      BY <1>0, <1>1, <1>10, <1>12 DEF ReplayInv, IsReplay
    <2>2. QED
      BY <1>12, <2>1 DEF AwaitedTurn, Unrelayed, Waiting
  <1>13. CASE ReadRows
    <2>1. UNCHANGED <<work, epoch, wait, member, joined>>
      BY <1>13, ChainFrame DEF ChainStep
    <2>2. c # <<>> /\ c[1].kind = "replay" /\ UNCHANGED <<store, missed>>
      BY <1>0, <1>13, ReadStep
    <2>3. CASE chain' = chain /\ job'.rows = Unrelayed
      BY <1>0, <1>1, <2>1, <2>2, <2>3 DEF AwaitedTurn, IsReplay, Unrelayed, Waiting
    <2>4. CASE chain' = Tail(c) /\ job'.at = "none" /\ (Unrelayed = {} \/ ~Available(c[1].epoch))
      <3>1. ASSUME work.at = "replaying", work.epoch = epoch, Waiting
            PROVE  Unrelayed = {}
        <4>1. c[1].epoch = epoch
          BY <1>0, <1>1, <2>2, <3>1 DEF AwaitedTurn, IsReplay
        <4>2. member.epoch = epoch /\ member.present = "in"
          BY <3>1 DEF StayShape, MemberShape, WaitShape
        <4>3. QED
          BY <2>4, <4>1, <4>2 DEF Available
      <3>2. QED
        BY <1>12, <2>1, <2>2, <2>4, <3>1
    <2>5. QED
      BY <1>0, <1>13, <2>3, <2>4, ReadStep
  <1>14. ASSUME NEW ok \in BOOLEAN, Open(ok) \/ Prepare \/ Close
         PROVE  AwaitedTurn'
    <2>1. UNCHANGED <<work, epoch, wait>>
      BY <1>14, ChainFrame DEF ChainStep
    <2>2. c # <<>> /\ c[1].kind = "replay" /\ store' = store /\ job.at # "none"
      BY <1>0, <1>14, GoesOn DEF ReplayInv, IsReplay
    <2>3. CASE chain' = chain /\ missed' = missed /\ job'.rows = job.rows
      BY <2>1, <2>2, <2>3 DEF AwaitedTurn, IsReplay, Unrelayed, Waiting
    <2>4. CASE chain' = Tail(c) /\ missed' = missed \cup job.rows /\ job'.at = "none"
      BY <1>12, <2>1, <2>2, <2>4 DEF AwaitedTurn
    <2>5. QED
      BY <1>0, <1>14, <2>3, <2>4, GoesOn
  <1>15. ASSUME NEW ok \in BOOLEAN, NEW m \in Msgs, Relay(m, ok)
         PROVE  AwaitedTurn'
    <2>1. UNCHANGED <<work, epoch, wait>>
      BY <1>15, ChainFrame DEF ChainStep
    <2>2. c # <<>> /\ c[1].kind = "replay" /\ job.at # "none"
      BY <1>0, <1>15, RowStep DEF ReplayInv, IsReplay
    <2>3. chain' = chain /\ job'.rows = job.rows \ {m} /\ store \in [Msgs -> Marks]
      BY <1>15, RowStep DEF RelayShape
    <2>4. CASE store' = [store EXCEPT ![m] = "relayed"] /\ missed' = missed
      <3>1. Unrelayed' \subseteq Unrelayed \ {m}
        BY <2>3, <2>4 DEF Unrelayed
      <3>2. QED
        BY <1>0, <1>1, <2>1, <2>2, <2>3, <2>4, <3>1 DEF AwaitedTurn, IsReplay, Waiting
    <2>5. CASE store' = store /\ missed' = missed \cup {m}
      BY <1>0, <1>1, <2>1, <2>2, <2>3, <2>5 DEF AwaitedTurn, IsReplay, Unrelayed, Waiting
    <2>6. QED
      BY <1>15, <2>4, <2>5, RowStep
  <1>16. QED
    BY <1>4, <1>5, <1>6, <1>7, <1>8, <1>9, <1>11, <1>13, <1>14, <1>15
       DEF HistoryNext, QueueStep, ChainStep

\* What was owed to a held message is noted as it is let go, after its replay.
LEMMA TurnStep ==
  ASSUME StayShape, RelayShape, ReplayInv, TurnInv, [HistoryNext]_historyVars
  PROVE  TurnInv'
  <1>1. AwaitedTurn'
    BY AwaitedStep DEF TurnInv
  <1>2. missed \subseteq Msgs /\ owed \in [LiveMsgs -> SUBSET Msgs] /\ HistoryFirst
    BY DEF TurnInv
  <1>3. missed \subseteq missed' /\ missed' \subseteq Msgs
    <2>1. CASE missed' = missed
      BY <1>2, <2>1
    <2>2. CASE Event \/ QueueStep \/ UNCHANGED historyVars
      BY <2>1, <2>2, EventFrame DEF historyVars, QueueStep, Hold, TakeLive, Downloaded, CaptureChunk,
         IgnoreChunk, TimeoutTurn, Released, LetGo, Fetched, AllGone, AskReplay, routerVars
    <2>3. ASSUME NEW ok \in BOOLEAN, Flush \/ Batch(ok) \/ ReadRows
          PROVE  missed' = missed
      BY <2>3, FlushStep, BatchStep, ReadStep
    <2>4. ASSUME NEW ok \in BOOLEAN, Open(ok) \/ Prepare \/ Close
          PROVE  missed' \in {missed, missed \cup job.rows} /\ job.rows \subseteq Msgs
      BY <2>4, GoesOn DEF RelayShape, Jobs
    <2>5. ASSUME NEW ok \in BOOLEAN, NEW m \in Msgs, Relay(m, ok)
          PROVE  missed' \in {missed, missed \cup {m}}
      BY <2>5, RowStep
    <2>6. QED
      BY <1>2, <2>2, <2>3, <2>4, <2>5 DEF HistoryNext, ChainStep, Event
  <1>4. CASE owed' = owed
    BY <1>1, <1>2, <1>3, <1>4 DEF TurnInv, HistoryFirst
  <1>5. CASE Released /\ owed' # owed
    <2>1. /\ work.at = "replaying" /\ ~Replaying /\ Waiting /\ work.epoch = epoch
          /\ owed' = [m \in LiveMsgs |-> IF m \in ToSet(wait.held) THEN Unrelayed ELSE owed[m]]
      BY <1>5 DEF Released
    <2>2. Unrelayed \subseteq missed
      BY <2>1, NoReplay DEF TurnInv, AwaitedTurn
    <2>3. Unrelayed \subseteq Msgs
      BY DEF Unrelayed
    <2>4. \A m \in LiveMsgs : owed'[m] \in SUBSET Msgs /\ owed'[m] \subseteq missed
      BY <1>2, <2>1, <2>2, <2>3 DEF HistoryFirst
    <2>5. QED
      BY <1>1, <1>3, <2>1, <2>4 DEF TurnInv, HistoryFirst
  <1>6. CASE Event \/ UNCHANGED historyVars
    BY <1>4, <1>6, EventFrame DEF historyVars
  <1>7. CASE Hold \/ TakeLive \/ Downloaded \/ CaptureChunk \/ IgnoreChunk \/ TimeoutTurn
             \/ LetGo \/ Fetched \/ AllGone
    BY <1>4, <1>7 DEF Hold, TakeLive, Downloaded, CaptureChunk, IgnoreChunk, TimeoutTurn, LetGo,
       Fetched, AllGone
  <1>8. CASE ChainStep \/ Flush
    BY <1>4, <1>8, ChainFrame
  <1>9. QED
    BY <1>4, <1>5, <1>6, <1>7, <1>8 DEF HistoryNext, QueueStep, Event

-------------------------------------------------------------------------------

LEMMA HistoryBegins ==
  ASSUME HistoryInit
  PROVE  HistoryInv
  <1> USE DEF HistoryInit
  <1>1. NoWait \in Stays /\ ~Waiting
    BY DEF NoWait, Stays, Waiting
  <1>2. Idle \in Works /\ Idle.epoch = 0 /\ Idle.at = "idle"
    BY DEF Idle, Works
  <1>3. StayShape
    <2>1. MemberShape
      BY DEF MemberShape
    <2>2. WaitShape /\ WorkShape
      BY <1>1, <1>2 DEF WaitShape, WorkShape, InHand
    <2>3. QED
      BY <2>1, <2>2 DEF StayShape
  <1>4. NoJob \in Jobs /\ NoJob.at = "none"
    BY DEF NoJob, Jobs
  <1>5. RelayShape
    BY <1>4 DEF RelayShape, Marks
  <1>6. PlaceInv
    BY <1>2 DEF PlaceInv, Apart, Captured, BufferedOnce, ChainedOnce, Kept, Handed, InHand, Buffered,
       Chained, PostedMsg
  <1>7. MarkInv
    BY GroupHistoryAssumption DEF MarkInv, Msgs
  <1>8. ReplayInv /\ SortInv
    BY <1>4 DEF ReplayInv, SortInv, OldestFirstPosted
  <1>9. TurnInv
    BY <1>2 DEF TurnInv, AwaitedTurn, HistoryFirst
  <1>10. QED
    BY <1>3, <1>5, <1>6, <1>7, <1>8, <1>9 DEF HistoryInv

\* Of the queue, the relay and the chain, whatever the messages and however they
\* come: the invariant the properties of a join rest on.
THEOREM HistoryInvariant == HistorySpec => []HistoryInv
  <1>1. HistoryInit => HistoryInv
    BY HistoryBegins
  <1>2. HistoryInv /\ [HistoryNext]_historyVars => HistoryInv'
    BY StayStep, RelayStep, PlaceStep, MarkStep, ReplayStep, SortStep, TurnStep DEF HistoryInv
  <1>3. QED
    BY <1>1, <1>2, PTL DEF HistorySpec

\* A message that arrives live, from history or both, held or not, is posted once, the
\* gateway's own never, and nothing is marked relayed that PromptQL has not accepted.
THEOREM PostedOnceAlways == HistorySpec => []PostedOnce
  <1>1. ASSUME HistoryInv
        PROVE  PostedOnce
    <2>1. PlaceInv /\ MarkInv
      BY <1>1 DEF HistoryInv
    <2>2. \A i, j \in DOMAIN posts : posts[i].msg = posts[j].msg => i = j
      BY <2>1 DEF PlaceInv, Kept
    <2>3. Posted \cap Echoes = {}
      BY <2>1 DEF PlaceInv, Kept, Posted
    <2>4. \A m \in Msgs : store[m] = "relayed" => m \in Posted \cup Echoes
      BY <2>1 DEF MarkInv, PostedMsg, Posted
    <2>5. QED
      BY <2>2, <2>3, <2>4 DEF PostedOnce
  <1>2. QED
    BY <1>1, HistoryInvariant, PTL

\* A held message is let go only after the history stored by then has had its turn.
THEOREM HistoryFirstAlways == HistorySpec => []HistoryFirst
  <1>1. HistoryInv => HistoryFirst
    BY DEF HistoryInv, TurnInv
  <1>2. QED
    BY <1>1, HistoryInvariant, PTL

\* One replay posts the rows of all the chunks before it oldest first.
THEOREM OldestFirstAlways == HistorySpec => []OldestFirstPosted
  <1>1. HistoryInv => OldestFirstPosted
    BY DEF HistoryInv, SortInv
  <1>2. QED
    BY <1>1, HistoryInvariant, PTL

===============================================================================
