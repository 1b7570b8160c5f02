------------------------------ MODULE Connection ------------------------------
(***************************************************************************)
(* The life of the one WhatsApp connection (whatsapp/socket.ts): pairing   *)
(* and unlinking on request, the sockets it opens across an await and a    *)
(* reconnect timer, what it makes of their events, and what the database   *)
(* keeps of it over a restart (whatsapp_connection, and the session in     *)
(* whatsapp/authState.ts).                                                 *)
(*                                                                         *)
(* Nothing ties a timer, an await or an event to the socket or the request *)
(* it was made for: every event of every socket, the closed predecessor's  *)
(* included, ends in the same handlers.  "hurried" remembers whether a     *)
(* request ever came while an earlier socket was still on its way.         *)
(***************************************************************************)
EXTENDS Naturals, FiniteSets

CONSTANTS
  Numbers,          \* phone numbers an operator links
  NoNumber,         \* the empty number, no pairing code
  Slots,            \* sockets that exist at one time
  NoSlot,
  MaxLinkAttempts,  \* MAX_LINK_ATTEMPTS
  MaxRejections,    \* MAX_LOGGEDOUT_RETRIES
  MaxRequests,      \* bound on the requests of operators
  MaxReboots        \* bound on the restarts of the process

ASSUME ConnectionAssumption ==
  /\ NoNumber \notin Numbers /\ NoSlot \notin Slots
  /\ IsFiniteSet(Slots)
  /\ MaxLinkAttempts \in Nat \ {0} /\ MaxRejections \in Nat \ {0}
  /\ MaxRequests \in Nat /\ MaxReboots \in Nat

VARIABLES
  live,      \* this.live, but for the socket
  sock,      \* this.live.sock
  sockets,   \* the sockets Baileys runs for this process
  opening,   \* openSocket() calls that wait for the web version
  timers,    \* reconnect timers
  creds,     \* the credentials in memory, of every auth handle in use
  row,       \* the row of whatsapp_connection
  session,   \* what whatsapp_session_state holds
  requests, reboots,
  hurried

vars == <<live, sock, sockets, opening, timers, creds, row, session,
          requests, reboots, hurried>>
counts == <<requests, reboots, hurried>>

Handles == 0..(MaxRequests + MaxReboots)

Up == {"connecting", "restarting", "open"}   \* talks to WhatsApp
Dead == [state |-> "closed", handle |-> 0, number |-> NoNumber, code |-> "none"]

Live(s) == sockets[s].state \in Up
Free(s) == sockets[s].state = "closed" /\ sockets[s].code = "none"

\* Everything that is, or becomes, a socket of its own.
Connectors == Cardinality({s \in Slots : Live(s)}) + opening + timers

\* No socket of an earlier request is on its way.
AtRest == Connectors = 0 /\ \A s \in Slots : sockets[s] = Dead

TypeOK ==
  /\ live \in [status : {"pending", "linked", "logged_out"}, linked : BOOLEAN,
               attempts : 0..MaxLinkAttempts, rejections : 0..MaxRejections,
               codeAsked : BOOLEAN, code : Numbers \cup {NoNumber}, stopped : BOOLEAN,
               number : Numbers \cup {NoNumber}, handle : Handles]
  /\ sock \in Slots \cup {NoSlot}
  /\ sockets \in [Slots -> [state : Up \cup {"closing", "closed"}, handle : Handles,
                            number : Numbers \cup {NoNumber}, code : {"none", "timer", "asked"}]]
  /\ opening \in Nat /\ timers \in Nat
  /\ creds \in [Handles -> {"fresh", "registered"}]
  /\ row \in [status : {"none", "pending", "linked", "logged_out"},
              number : Numbers \cup {NoNumber}]
  /\ session \in {"none", "fresh", "registered"}
  /\ requests \in 0..MaxRequests /\ reboots \in 0..MaxReboots
  /\ hurried \in BOOLEAN

-------------------------------------------------------------------------------

\* The connection as its constructor reads it from the database.
Restored(r, handle) ==
  [status |-> IF r.status = "linked" THEN "linked" ELSE "pending",
   linked |-> r.status = "linked",
   attempts |-> 0, rejections |-> 0,
   codeAsked |-> FALSE, code |-> NoNumber, stopped |-> FALSE,
   number |-> r.number, handle |-> handle]

Init ==
  /\ row = [status |-> "none", number |-> NoNumber]
  /\ session = "none"
  /\ live = Restored(row, 0)
  /\ creds = [h \in Handles |-> "fresh"]
  /\ sock = NoSlot
  /\ sockets = [s \in Slots |-> Dead]
  /\ opening = 0 /\ timers = 0
  /\ requests = 0 /\ reboots = 0 /\ hurried = FALSE

\* An upsert: the number is written with the first row only.
Upserted(status) ==
  [status |-> status, number |-> IF row.status = "none" THEN live.number ELSE row.number]

\* stop(): the current socket is told to close, and reports it later.
Stopped ==
  [s \in Slots |->
     IF s = sock /\ Live(s) THEN [sockets[s] EXCEPT !.state = "closing"] ELSE sockets[s]]

\* The credentials of a new auth handle, read from the database.
Loaded(handle, stored) ==
  [creds EXCEPT ![handle] = IF stored = "registered" THEN "registered" ELSE "fresh"]

Request(hurry) ==
  /\ requests < MaxRequests
  /\ requests' = requests + 1
  /\ hurried' = (hurried \/ hurry)
  /\ UNCHANGED reboots

\* The connection that pairs a number from the start.
Pairing(n) == Restored([status |-> "pending", number |-> n], live.handle + 1)

\* POST /connection/link: wipe, and pair anew.
Link(n) ==
  LET handle == live.handle + 1 IN
  /\ Request(~AtRest)
  /\ sockets' = Stopped
  /\ live' = Pairing(n)
  /\ creds' = Loaded(handle, "none")
  /\ session' = "none"
  /\ row' = [status |-> "pending", number |-> IF row.status = "none" THEN n ELSE row.number]
  /\ opening' = opening + 1
  /\ UNCHANGED <<sock, timers>>

\* POST /connection/unlink: wipe; the credentials in memory stay.
Unlink ==
  /\ Request(opening > 0)
  /\ sockets' = Stopped
  /\ live' = [live EXCEPT !.stopped = TRUE, !.status = "logged_out", !.linked = FALSE,
                          !.code = NoNumber]
  /\ session' = "none"
  /\ row' = Upserted("logged_out")
  /\ UNCHANGED <<sock, opening, timers, creds>>

\* The web version is there, or is given up: a socket, and one request for a
\* pairing code while the connection has never been linked.
NeedsCode == ~live.linked /\ ~live.codeAsked /\ creds[live.handle] = "fresh"

OpenSocket(s) ==
  /\ opening > 0 /\ Free(s)
  /\ opening' = opening - 1
  /\ sock' = s
  /\ sockets' = [sockets EXCEPT ![s] =
       [state |-> "connecting", handle |-> live.handle, number |-> live.number,
        code |-> IF NeedsCode THEN "timer" ELSE "none"]]
  /\ live' = [live EXCEPT !.codeAsked = @ \/ NeedsCode]
  /\ UNCHANGED <<timers, creds, row, session, counts>>

\* Mutant of Reconnect: an interval instead of a timeout.
ReconnectEvery ==
  /\ timers > 0
  /\ opening' = IF live.stopped THEN opening ELSE opening + 1
  /\ UNCHANGED <<live, sock, sockets, timers, creds, row, session, counts>>

\* A reconnect timer: openSocket(), unless the connection was stopped.
Reconnect ==
  /\ timers > 0
  /\ timers' = timers - 1
  /\ opening' = IF live.stopped THEN opening ELSE opening + 1
  /\ UNCHANGED <<live, sock, sockets, creds, row, session, counts>>

\* requestPairingCode() is called three seconds after the socket, and answers.
AskCode(s) ==
  /\ sockets[s].code = "timer"
  /\ sockets' = [sockets EXCEPT ![s].code = IF Live(s) THEN "asked" ELSE "none"]
  /\ UNCHANGED <<live, sock, opening, timers, creds, row, session, counts>>

Answered(s) == [sockets EXCEPT ![s] =
  IF @.state = "closed" THEN Dead ELSE [@ EXCEPT !.code = "none"]]

CodeIssued(s) ==
  /\ sockets[s].code = "asked"
  /\ sockets' = Answered(s)
  /\ live' = [live EXCEPT !.code = sockets[s].number]
  /\ UNCHANGED <<sock, opening, timers, creds, row, session, counts>>

CodeFails(s) ==
  /\ sockets[s].code = "asked"
  /\ sockets' = Answered(s)
  /\ UNCHANGED <<live, sock, opening, timers, creds, row, session, counts>>

\* Mutant of Saved: the credentials as they were when the handle was made.
SavedAtStart(c) == "fresh"

\* creds.update saves the credentials of the current handle, whoever reports it.
Saved(c) == c[live.handle]

\* The code is entered on the phone; the socket must then be restarted.
Paired(s) ==
  /\ sockets[s].state = "connecting" /\ creds[sockets[s].handle] = "fresh"
  /\ live.code = sockets[s].number
  /\ creds' = [creds EXCEPT ![sockets[s].handle] = "registered"]
  /\ session' = Saved(creds')
  /\ sockets' = [sockets EXCEPT ![s].state = "restarting"]
  /\ UNCHANGED <<live, sock, opening, timers, row, counts>>

SaveCreds(s) ==
  /\ Live(s)
  /\ session' = Saved(creds)
  /\ UNCHANGED <<live, sock, sockets, opening, timers, creds, row, counts>>

\* connection.update "open".
Opened(s) ==
  /\ sockets[s].state = "connecting" /\ creds[sockets[s].handle] = "registered"
  /\ sockets' = [sockets EXCEPT ![s].state = "open"]
  /\ live' = [live EXCEPT !.attempts = 0, !.rejections = 0, !.code = NoNumber,
                          !.linked = TRUE, !.status = "linked"]
  /\ row' = Upserted("linked")
  /\ UNCHANGED <<sock, opening, timers, creds, session, counts>>

-------------------------------------------------------------------------------

GivesUp == live.attempts + 1 >= MaxLinkAttempts

LogsOut(rejected) == rejected /\ live.linked /\ live.rejections + 1 >= MaxRejections

\* The session is refused once too often: a person has to link again.
LoggedOut ==
  /\ live' = [live EXCEPT !.rejections = @ + 1, !.status = "logged_out", !.stopped = TRUE]
  /\ row' = Upserted("logged_out")
  /\ UNCHANGED timers

\* Pairing has failed too often.
GiveUp ==
  /\ live' = [live EXCEPT !.attempts = @ + 1, !.stopped = TRUE]
  /\ UNCHANGED <<row, timers>>

\* Mutant of Retry: only pairing is tried again.
RetryWhilePairing(rejected) ==
  /\ live' = [live EXCEPT !.attempts = IF live.linked THEN @ ELSE @ + 1]
  /\ timers' = IF live.linked THEN timers ELSE timers + 1
  /\ UNCHANGED row

\* One more try, later.
Retry(rejected) ==
  /\ live' = [live EXCEPT !.attempts = IF live.linked THEN @ ELSE @ + 1,
                          !.rejections = IF ~live.linked THEN @
                                         ELSE IF rejected THEN @ + 1 ELSE 0]
  /\ timers' = timers + 1
  /\ UNCHANGED row

\* handleClose().
HandleClose(rejected) ==
  IF live.stopped
  THEN UNCHANGED <<live, row, timers>>
  ELSE \/ LogsOut(rejected) /\ LoggedOut
       \/ ~live.linked /\ GivesUp /\ GiveUp
       \/ ~LogsOut(rejected) /\ (live.linked \/ ~GivesUp) /\ Retry(rejected)

\* connection.update "close", of a socket that talks or was told to close.
Closed(s, rejected) ==
  /\ sockets[s].state # "closed"
  /\ rejected => sockets[s].state \in {"connecting", "open"}
  /\ sockets' = [sockets EXCEPT ![s].state = "closed", ![s].handle = 0, ![s].number =
       IF sockets[s].code = "asked" THEN @ ELSE NoNumber]
  /\ HandleClose(rejected)
  /\ UNCHANGED <<sock, opening, creds, session, counts>>

\* The process ends, by a signal or a crash, and boots: only a linked
\* connection is started.
Reboot ==
  LET handle == live.handle + 1 IN
  /\ reboots < MaxReboots
  /\ reboots' = reboots + 1
  /\ live' = Restored(row, handle)
  /\ creds' = Loaded(handle, session)
  /\ sock' = NoSlot
  /\ sockets' = [s \in Slots |-> Dead]
  /\ opening' = IF row.status = "linked" THEN 1 ELSE 0
  /\ timers' = 0
  /\ UNCHANGED <<row, session, requests, hurried>>

Proceed == Reconnect \/ \E s \in Slots : OpenSocket(s)

Next ==
  \/ \E n \in Numbers : Link(n)
  \/ Unlink \/ Reboot \/ Proceed
  \/ \E s \in Slots :
       \/ AskCode(s) \/ CodeIssued(s) \/ CodeFails(s)
       \/ Paired(s) \/ SaveCreds(s) \/ Opened(s)
       \/ \E rejected \in BOOLEAN : Closed(s, rejected)

Spec == Init /\ [][Next]_vars

\* Timers fire, the version request ends, and a socket told to close reports it.
FairSpec ==
  /\ Spec
  /\ WF_vars(Proceed)
  /\ \A s \in Slots : WF_vars(sockets[s].state = "closing" /\ Closed(s, FALSE))

-------------------------------------------------------------------------------
(***************************************************************************)
(* Properties                                                              *)
(***************************************************************************)

\* "A linked WhatsApp session must have exactly one running owner"
\* (docs/deployment.md:80): closes, timers, reboots and re-links never leave two
\* sockets on their way, as long as requests come at rest.
OneConnector == ~hurried => Connectors <= 1

\* "The linked session is persisted, so the gateway resumes it on the next boot
\* without re-pairing" (README.md:222): a row that says linked has a session.
LinkedIsResumable == ~hurried /\ row.status = "linked" => session = "registered"

\* A linked connection is not forgotten: after any close or reboot it has a
\* socket again, until it is unlinked or logged out.
ComesBack ==
  live.status = "linked" ~>
    (hurried \/ live.status # "linked" \/ \E s \in Slots : Live(s))

================================================================================
