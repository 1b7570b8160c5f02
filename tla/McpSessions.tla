----------------------------- MODULE McpSessions -----------------------------
(***************************************************************************)
(* Talking to PromptQL: the MCP client (promptql/mcpClient.ts), the        *)
(* sessions the adapter keeps for each posting identity                    *)
(* (promptql/promptqlAdapter.ts), and the credentials an administrator     *)
(* rotates and revokes meanwhile (storage/credentialStore.ts).             *)
(*                                                                         *)
(* A turn asks, waits for the answer in polls up to its deadline, and then *)
(* declines approvals or downloads artifacts.  Each of these is a call: a  *)
(* handshake where one is due, and posts that are repeated when lost.  A   *)
(* step lasts from one await to the next.  Tokens are <<identity, version>>*)
(* and stand for the session object made with them; the deployment issues  *)
(* no session ids (mcpClient.ts:8).                                        *)
(***************************************************************************)
EXTENDS Naturals, FiniteSets

CONSTANTS
  Turns,        \* asks and their waits
  Identities,   \* posting identities: the roles of the shoppers, the client
  IdentityOf,   \* IdentityOf[t]: who posts turn t
  ShopperOf,    \* ShopperOf[i]: the shopper behind identity i
  NoToken,
  MaxRetries,   \* config.mcp.maxRetries
  Timeout,      \* config.mcp.timeoutMs, in ticks
  ResponseMax,  \* config.mcp.responseMaxMs, in ticks
  MaxVersion,   \* MaxVersion[i]: bound on the tokens issued for identity i
  MaxFiles      \* MaxFiles[t]: bound on the artifacts, or approvals, of t's answer

ASSUME McpSessionsAssumption ==
  /\ IdentityOf \in [Turns -> Identities]
  /\ MaxRetries \in Nat /\ MaxVersion \in [Identities -> Nat \ {0}] /\ MaxFiles \in [Turns -> Nat]
  /\ Timeout \in Nat \ {0} /\ ResponseMax \in Nat

VARIABLES
  vault,   \* vault[i]: the version of i's active token, 0 when there is none
  issued,  \* issued[i]: tokens stored for i so far
  cache,   \* the adapter's sessions
  ready,   \* the sessions whose handshake is done ("initialized")
  turn,    \* turn[t]: what t is at, the time and the calls that are left
  call,    \* call[t]: the call t waits for
  ran,     \* while t asks: how often PromptQL has done so, under which tokens
  lost     \* while t asks: its posts whose answer never came

vars == <<vault, issued, cache, ready, turn, call, ran, lost>>
admin == <<vault, issued>>

Tokens == UNION {{i} \X (1..MaxVersion[i]) : i \in Identities}

ASSUME NoTokenAssumption == NoToken \notin Tokens
NoCall == [pc |-> "none", tok |-> NoToken, attempt |-> 0, age |-> 0, body |-> FALSE]

\* What a turn stands at: an await of a call, or of other work before a poll.
InCall == {"asking", "polling", "declining", "fetching"}
Ended == {"done", "failed"}
Open == {"hello", "ready", "sent"}  \* a post is on its way

NeverRan == [k \in Tokens |-> 0]

TypeOK ==
  /\ \A i \in Identities : vault[i] \in 0..issued[i] /\ issued[i] \in 1..MaxVersion[i]
  /\ cache \in [Identities -> Tokens \cup {NoToken}]
  /\ ready \subseteq Tokens
  /\ \A t \in Turns : turn[t] \in [at : InCall \cup Ended \cup {"idle", "between"},
                                  time : 0..ResponseMax, left : 0..MaxFiles[t]]
  /\ call \in [Turns -> [pc : Open \cup {"none", "sleep"}, tok : Tokens \cup {NoToken},
                         attempt : 0..(MaxRetries + 1), age : 0..Timeout, body : BOOLEAN]]
  /\ ran \in [Turns -> [Tokens -> 0..(MaxRetries + 1)]] /\ lost \in [Turns -> 0..(MaxRetries + 1)]

Init ==
  /\ vault = [i \in Identities |-> 1] /\ issued = vault
  /\ cache = [i \in Identities |-> NoToken] /\ ready = {}
  /\ turn = [t \in Turns |-> [at |-> "idle", time |-> 0, left |-> 0]]
  /\ call = [t \in Turns |-> NoCall]
  /\ ran = [t \in Turns |-> NeverRan] /\ lost = [t \in Turns |-> 0]

-------------------------------------------------------------------------------
(***************************************************************************)
(* Credentials and sessions                                                *)
(***************************************************************************)

\* Mutant of Key: one session for all the roles of a shopper.
KeyOfShopper(i) == CHOOSE j \in Identities : ShopperOf[j] = ShopperOf[i]

\* The session map is keyed by shopper and role.
Key(i) == i

Invalidated(i) == [cache EXCEPT ![Key(i)] = NoToken]

\* A new token, for the client or a role of a shopper; a registration stores one
\* for both roles, one after the other.
Rotate(i) ==
  /\ issued[i] < MaxVersion[i]
  /\ issued' = [issued EXCEPT ![i] = @ + 1]
  /\ vault' = [vault EXCEPT ![i] = issued[i] + 1]
  /\ cache' = Invalidated(i)
  /\ UNCHANGED <<ready, turn, call, ran, lost>>

Revoke(i) ==
  /\ vault[i] > 0
  /\ vault' = [vault EXCEPT ![i] = 0]
  /\ cache' = Invalidated(i)
  /\ UNCHANGED <<issued, ready, turn, call, ran, lost>>

\* session(): revocation is checked at every lookup; NoToken means it throws.
Session(i) ==
  IF vault[i] = 0 THEN NoToken
  ELSE IF cache[Key(i)] # NoToken THEN cache[Key(i)] ELSE <<i, vault[i]>>

Looked(i) == cache' = [cache EXCEPT ![Key(i)] = Session(i)]

-------------------------------------------------------------------------------
(***************************************************************************)
(* Calls                                                                   *)
(***************************************************************************)

\* callTool(): the handshake comes first when the session has had none.
Begun(tok) ==
  [NoCall EXCEPT !.pc = IF tok \in ready THEN "sent" ELSE "hello", !.tok = tok]

Goto(t, at) == turn' = [turn EXCEPT ![t].at = at]
Return(t, at) ==
  /\ turn' = [turn EXCEPT ![t].at = at, ![t].time = IF at \in Ended THEN 0 ELSE @]
  /\ call' = [call EXCEPT ![t] = NoCall]

InSeries == {"declining", "fetching"}

MoreOfSeries(t) == turn[t].left > 0

\* The call of a series has ended, well or not: the next, or the end.
NextOfSeries(t) ==
  IF MoreOfSeries(t)
  THEN /\ turn' = [turn EXCEPT ![t].left = @ - 1]
       /\ call' = [call EXCEPT ![t] = Begun(call[t].tok)]
  ELSE Return(t, "done")

\* The call throws.
Throw(t) == IF turn[t].at \in InSeries THEN NextOfSeries(t) ELSE Return(t, "failed")

Asking(t) == turn[t].at = "asking" /\ call[t].pc = "sent"
RanOnce(t) == [ran EXCEPT ![t][call[t].tok] = @ + 1]

\* A post that is on its way to PromptQL, and its answer's body.
Head(t, pcs) == call[t].pc \in pcs /\ ~call[t].body
Quiet == UNCHANGED <<admin, cache>>

\* The headers of an answer are in; the body is read, without a timer.
Headers(t) ==
  /\ Head(t, {"hello", "sent"})
  /\ call' = [call EXCEPT ![t].body = TRUE]
  /\ ran' = IF Asking(t) THEN RanOnce(t) ELSE ran
  /\ UNCHANGED <<ready, turn, lost>> /\ Quiet

\* Mutant of Retried: whatever was answered is asked again.
RetriedAlways(how) == TRUE

\* Only what was lost is posted again.
Retried(how) == how = "lost"

\* A request fails: "lost" in transport, by a timeout or with a server error, or
\* "refused" by an error of the protocol, of HTTP or of the tool.
Fail(t, how, carriedOut) ==
  /\ call[t].pc = "sent" /\ (call[t].body => carriedOut)
  /\ ran' = IF Asking(t) /\ carriedOut /\ ~call[t].body THEN RanOnce(t) ELSE ran
  /\ lost' = IF Asking(t) /\ how = "lost" THEN [lost EXCEPT ![t] = @ + 1] ELSE lost
  /\ IF Retried(how) /\ call[t].attempt < MaxRetries
     THEN /\ call' = [call EXCEPT ![t].pc = "sleep", ![t].attempt = @ + 1,
                                  ![t].age = 0, ![t].body = FALSE]
          /\ UNCHANGED turn
     ELSE Throw(t)
  /\ UNCHANGED ready /\ Quiet

Wake(t) ==
  /\ call[t].pc = "sleep"
  /\ call' = [call EXCEPT ![t].pc = "sent"]
  /\ UNCHANGED <<ready, turn, ran, lost>> /\ Quiet

\* Mutant of Spent: a session that has expired costs no attempt.
ExpiryIsFree(t) == call[t].attempt

Spent(t) == call[t].attempt + 1

\* HTTP 404 to a request: a handshake comes before it is posted again.
Expired(t) ==
  /\ Head(t, {"sent"})
  /\ ready' = ready \ {call[t].tok}
  /\ call' = [call EXCEPT ![t].pc = "hello", ![t].age = 0, ![t].attempt = Spent(t)]
  /\ UNCHANGED <<turn, ran, lost>> /\ Quiet

\* The handshake: initialize is answered, then the notification is.
Greeted(t) ==
  /\ call[t].pc = "hello" /\ call[t].body
  /\ call' = [call EXCEPT ![t].pc = "ready", ![t].age = 0, ![t].body = FALSE]
  /\ UNCHANGED <<ready, turn, ran, lost>> /\ Quiet

\* After an expiry at the last attempt, the handshake is all there is time for.
Initialized(t) ==
  /\ call[t].pc = "ready"
  /\ ready' = ready \cup {call[t].tok}
  /\ IF call[t].attempt > MaxRetries
     THEN Throw(t)
     ELSE call' = [call EXCEPT ![t].pc = "sent", ![t].age = 0] /\ UNCHANGED turn
  /\ UNCHANGED <<ran, lost>> /\ Quiet

\* No failure of a handshake is retried.
HandshakeFails(t) ==
  /\ call[t].pc \in {"hello", "ready"}
  /\ Throw(t)
  /\ UNCHANGED <<ready, ran, lost>> /\ Quiet

-------------------------------------------------------------------------------
(***************************************************************************)
(* Turns                                                                   *)
(***************************************************************************)

\* A call with the session of this moment; without one, session() throws.
Start(t, at) ==
  LET tok == Session(IdentityOf[t]) IN
  /\ Looked(IdentityOf[t])
  /\ IF tok = NoToken
     THEN Goto(t, "failed") /\ UNCHANGED call
     ELSE Goto(t, at) /\ call' = [call EXCEPT ![t] = Begun(tok)]

Ask(t) ==
  /\ turn[t].at = "idle"
  /\ Start(t, "asking")
  /\ UNCHANGED <<admin, ready, ran, lost>>

\* The body of an answer is in.
Answered(t, at) == turn[t].at = at /\ call[t].pc = "sent" /\ call[t].body

\* A bot handle; the dispatcher sets the time of the wait.
Accepted(t) ==
  /\ Answered(t, "asking")
  /\ turn' = [turn EXCEPT ![t].at = "between", ![t].time = ResponseMax]
  /\ call' = [call EXCEPT ![t] = NoCall]
  /\ ran' = [ran EXCEPT ![t] = NeverRan] /\ lost' = [lost EXCEPT ![t] = 0]
  /\ UNCHANGED ready /\ Quiet

\* A status other than success, no usable handle, or a run that was interrupted.
Rejected(t) ==
  /\ Answered(t, "asking") \/ Answered(t, "polling")
  /\ Return(t, "failed")
  /\ UNCHANGED <<ready, ran, lost>> /\ Quiet

\* The loop of waitForResponse(): the deadline is looked at before each poll.
Poll(t) ==
  /\ turn[t].at = "between"
  /\ IF turn[t].time > 0
     THEN Start(t, "polling")
     ELSE Goto(t, "failed") /\ UNCHANGED <<cache, call>>
  /\ UNCHANGED <<admin, ready, ran, lost>>

Analyzing(t) ==
  /\ Answered(t, "polling")
  /\ Return(t, "between")
  /\ UNCHANGED <<ready, ran, lost>> /\ Quiet

\* "waiting_approval": every approval is declined with the session of the poll.
Approval(t, n) ==
  /\ Answered(t, "polling") /\ n > 0
  /\ turn' = [turn EXCEPT ![t].at = "declining", ![t].left = n - 1]
  /\ call' = [call EXCEPT ![t] = Begun(call[t].tok)]
  /\ UNCHANGED <<ready, ran, lost>> /\ Quiet

\* "completed"; its artifacts are downloaded with one session.
Completed(t, n) ==
  /\ Answered(t, "polling")
  /\ IF n = 0 THEN Return(t, "done") /\ UNCHANGED cache
     ELSE LET tok == Session(IdentityOf[t]) IN
          /\ Looked(IdentityOf[t])
          /\ turn' = [turn EXCEPT ![t].at = IF tok = NoToken THEN "failed" ELSE "fetching",
                                  ![t].left = n - 1]
          /\ call' = [call EXCEPT ![t] = IF tok = NoToken THEN NoCall ELSE Begun(tok)]
  /\ UNCHANGED <<admin, ready, ran, lost>>

OneOfSeries(t) ==
  /\ Answered(t, "declining") \/ Answered(t, "fetching")
  /\ NextOfSeries(t)
  /\ UNCHANGED <<ready, ran, lost>> /\ Quiet

-------------------------------------------------------------------------------

\* The timer of a post runs until the headers are in; the body has none.
Timed(c) == c.pc \in Open /\ ~c.body
Due(t) == Timed(call[t]) /\ call[t].age >= Timeout

Tick ==
  /\ \A t \in Turns : ~Due(t)
  /\ call' = [t \in Turns |-> [call[t] EXCEPT !.age = IF Timed(call[t]) THEN @ + 1 ELSE 0]]
  /\ turn' = [t \in Turns |-> [turn[t] EXCEPT !.time = IF @ > 0 THEN @ - 1 ELSE 0]]
  /\ UNCHANGED <<admin, cache, ready, ran, lost>>

Progress(t) ==
  \/ Headers(t) \/ Wake(t) \/ Expired(t) \/ Greeted(t) \/ Initialized(t) \/ HandshakeFails(t)
  \/ \E how \in {"lost", "refused"}, carriedOut \in BOOLEAN : Fail(t, how, carriedOut)
  \/ Accepted(t) \/ Rejected(t) \/ Poll(t) \/ Analyzing(t) \/ OneOfSeries(t)
  \/ \E n \in 0..MaxFiles[t] : Approval(t, n) \/ Completed(t, n)

Next ==
  \/ \E i \in Identities : Rotate(i) \/ Revoke(i)
  \/ \E t \in Turns : Ask(t) \/ Progress(t)
  \/ Tick

Spec == Init /\ [][Next]_vars

\* Time passes, and PromptQL finishes the answers it begins: no timer of the
\* client sees to that.
FairSpec == Spec /\ WF_vars(Tick) /\ \A t \in Turns : WF_vars(Progress(t))

-------------------------------------------------------------------------------
(***************************************************************************)
(* Properties                                                              *)
(***************************************************************************)

\* "Each shopper gets its own McpSession so PromptQL attributes work to the right
\* service account" (mcpClient.ts:77): no ask is carried out under a token that
\* was not issued for its identity, the other role of the shopper included.
AttributedToItsAccount ==
  \A t \in Turns, k \in Tokens : ran[t][k] > 0 => k[1] = IdentityOf[t]

\* An ask is carried out twice only when the answer to an earlier post of it was
\* lost: asking is not idempotent, and what was answered is not repeated.
RepeatsFollowLosses ==
  \A t \in Turns : \A k \in Tokens : ran[t][k] > 0 =>
    /\ ran[t][k] <= 1 + lost[t]
    /\ \A j \in Tokens \ {k} : ran[t][j] = 0

\* A turn ends, whatever is lost, expires or is revoked, and however often.
TurnsEnd == \A t \in Turns : turn[t].at # "idle" ~> turn[t].at \in Ended

================================================================================
