---------------------------- MODULE SignedRequests ----------------------------
(***************************************************************************)
(* Requests signed by a device, from the check of the signature to the     *)
(* audit record: verify_signed_request of signing.py, the handlers of      *)
(* token refresh and device revocation of app.py, the access token of a    *)
(* websocket, and the tables devices, auth_tokens and request_nonces.      *)
(*                                                                         *)
(* A worker is one delivery of a request that is being served.  It is      *)
(* verified on the event loop, where the wait for the body lets other      *)
(* requests in, and handled on a thread of the pool, each store call a     *)
(* transaction.  The module is AuditChain with its writers given something *)
(* to write about: every append of AuditChain is one of a worker here.     *)
(***************************************************************************)
EXTENDS AuditChain, FiniteSets

CONSTANTS Devices,        \* paired devices
          Requests,       \* signed requests, each with its own nonce
          MaxDeliveries   \* bound: deliveries of requests, duplicates included

ASSUME SignedAssumption == /\ Devices \cap Requests = {}
                           /\ "none" \notin Devices \cup Requests
                           /\ MaxDeliveries \in Nat
                           /\ IsFiniteSet(Writers)

VARIABLES status,         \* status[d]: column status of devices
          tokens,         \* table auth_tokens
          nonces,         \* table request_nonces
          sent,           \* sent[r]: what request r asks for, once it is signed
          stage,          \* stage[w]: the next step of worker w
          job,            \* job[w]: the request it serves
          done,           \* done[r]: how often r took effect
          streams,        \* devices for which a websocket has been accepted
          deliveries

chain == <<log, pc, previous, crashes>>
tables == <<status, tokens, nonces>>
signedVars == <<chain, tables, sent, stage, job, done, streams, deliveries>>

NoRequest == "none"
NoMessage == [op |-> "none", device |-> NoRequest, target |-> NoRequest, token |-> NoRequest]

\* The tokens of a pairing go by the device, those of a refresh by its request.
Keys == Devices \cup Requests

Message == [op : {"act", "revoke"}, device : Devices, target : Devices, token : {NoRequest}]
           \cup [op : {"refresh", "stream"}, device : Devices, target : {NoRequest}, token : Keys]

Token == [key : Keys, type : {"access", "refresh"}, device : Devices, revoked : BOOLEAN]

\* What a device can ask for: one of the state-changing handlers, which all have the
\* same shape, the end of some device, new tokens for a refresh token that exists, or a
\* websocket with an access token that exists.
Messages ==
  {[op |-> "act", device |-> d, target |-> d, token |-> NoRequest] : d \in Devices}
  \cup {[op |-> "revoke", device |-> d, target |-> e, token |-> NoRequest] : d, e \in Devices}
  \cup {[op |-> "refresh", device |-> d, target |-> NoRequest, token |-> k.key] :
          d \in Devices, k \in {t \in tokens : t.type = "refresh"}}
  \cup {[op |-> "stream", device |-> k.device, target |-> NoRequest, token |-> k.key] :
          k \in {t \in tokens : t.type = "access"}}

SignedInit ==
  /\ Init
  /\ status = [d \in Devices |-> "active"]
  /\ tokens = {t \in Token : t.key = t.device /\ ~t.revoked}
  /\ nonces = {}
  /\ sent = [r \in Requests |-> NoMessage]
  /\ stage = [w \in Writers |-> "idle"]
  /\ job = [w \in Writers |-> NoRequest]
  /\ done = [r \in Requests |-> 0]
  /\ streams = {} /\ deliveries = 0

Asked(w) == sent[job[w]]
Goto(w, s) == stage' = [stage EXCEPT ![w] = s]
Find(key, type) == {t \in tokens : t.key = key /\ t.type = type}

\* The answer leaves the gateway; what it says is left out.
Answer(w) == Goto(w, "idle") /\ job' = [job EXCEPT ![w] = NoRequest]

\* No other request is in a step of the loop that threads of the pool can cut: the two
\* transactions of a refusal, or of an access token.
LoopFree(w) == \A u \in Writers \ {w} : stage[u] \notin {"reject", "expiry"}

-----------------------------------------------------------------------------
(* Delivery and verification, on the event loop.                           *)

\* The app signs r and it arrives, or a copy of it arrives once more.
Deliver(w, r, m) ==
  /\ stage[w] = "idle" /\ deliveries < MaxDeliveries
  /\ IF sent[r] = NoMessage THEN m \in Messages ELSE m = sent[r]
  /\ sent' = [sent EXCEPT ![r] = m]
  /\ job' = [job EXCEPT ![w] = r]
  /\ Goto(w, IF m.op = "stream" THEN "join" ELSE "check")
  /\ deliveries' = deliveries + 1
  /\ UNCHANGED <<chain, tables, done, streams>>

\* Bug: any device that is known will do.
CheckKnown(w) ==
  /\ stage[w] = "check" /\ LoopFree(w)
  /\ Goto(w, "nonce")
  /\ UNCHANGED <<chain, tables, sent, job, done, streams, deliveries>>

\* get_device, its status and the timestamp, which may have left the window on the way;
\* then the body is awaited.
Check(w) ==
  /\ stage[w] = "check" /\ LoopFree(w)
  /\ \/ status[Asked(w).device] = "active" /\ Goto(w, "nonce")
     \/ Goto(w, "reject")
  /\ UNCHANGED <<chain, tables, sent, job, done, streams, deliveries>>

Handler(op) == IF op = "refresh" THEN "token" ELSE "effect"

\* Bug: INSERT OR IGNORE, which never fails.
NonceIgnored(w) ==
  /\ stage[w] = "nonce" /\ LoopFree(w)
  /\ nonces' = nonces \cup {job[w]}
  /\ Goto(w, Handler(Asked(w).op))
  /\ UNCHANGED <<chain, status, tokens, sent, job, done, streams, deliveries>>

\* record_request_nonce: the primary key refuses a second row.
Nonce(w) ==
  /\ stage[w] = "nonce" /\ LoopFree(w)
  /\ IF job[w] \in nonces THEN Goto(w, "reject") ELSE Goto(w, Handler(Asked(w).op))
  /\ nonces' = nonces \cup {job[w]}
  /\ UNCHANGED <<chain, status, tokens, sent, job, done, streams, deliveries>>

-----------------------------------------------------------------------------
(* The handlers, on threads of the pool.                                   *)

Take(w) == done' = [done EXCEPT ![job[w]] = @ + 1]

\* The effect of an ordinary handler behind the signature; its audit record follows.
Act(w) ==
  /\ stage[w] = "effect" /\ Asked(w).op = "act"
  /\ Take(w) /\ Goto(w, "audit")
  /\ UNCHANGED <<chain, tables, sent, job, streams, deliveries>>

\* Bugs: a status nothing tests for; a revocation that leaves the tokens.
RevokeAsLost(w) ==
  /\ stage[w] = "effect" /\ Asked(w).op = "revoke"
  /\ status' = [status EXCEPT ![Asked(w).target] = "lost"]
  /\ Take(w) /\ Goto(w, "audit")
  /\ UNCHANGED <<chain, tokens, nonces, sent, job, streams, deliveries>>
RevokeDeviceOnly(w) ==
  /\ stage[w] = "effect" /\ Asked(w).op = "revoke"
  /\ status' = [status EXCEPT ![Asked(w).target] = "revoked"]
  /\ Take(w) /\ Goto(w, "audit")
  /\ UNCHANGED <<chain, tokens, nonces, sent, job, streams, deliveries>>

\* revoke_device: the device and every token it has, in one transaction.  Of a device
\* that the gateway does not know (404) nothing is changed, and no message names one.
Revoke(w) ==
  /\ stage[w] = "effect" /\ Asked(w).op = "revoke"
  /\ status' = [status EXCEPT ![Asked(w).target] = "revoked"]
  /\ tokens' = {IF t.device = Asked(w).target THEN [t EXCEPT !.revoked = TRUE] ELSE t :
                  t \in tokens}
  /\ Take(w) /\ Goto(w, "audit")
  /\ UNCHANGED <<chain, nonces, sent, job, streams, deliveries>>

\* _get_token of verify_refresh_token; any token may have expired.
ReadToken(w) ==
  /\ stage[w] = "token"
  /\ \/ /\ \E t \in Find(Asked(w).token, "refresh") : ~t.revoked
        /\ Goto(w, "owner")
        /\ UNCHANGED job
     \/ Answer(w)
  /\ UNCHANGED <<chain, tables, sent, done, streams, deliveries>>

\* The device of the token is active, and the one that signed.
ReadOwner(w) ==
  /\ stage[w] = "owner"
  /\ IF \E t \in Find(Asked(w).token, "refresh") :
          status[t.device] = "active" /\ t.device = Asked(w).device
       THEN Goto(w, "access") /\ UNCHANGED job
       ELSE Answer(w)
  /\ UNCHANGED <<chain, tables, sent, done, streams, deliveries>>

Issue(w, type) == tokens' = tokens \cup {[key |-> job[w], type |-> type,
                                          device |-> Asked(w).device, revoked |-> FALSE]}

CreateAccess(w) ==
  /\ stage[w] = "access"
  /\ Issue(w, "access") /\ Take(w) /\ Goto(w, "refresh")
  /\ UNCHANGED <<chain, status, nonces, sent, job, streams, deliveries>>

\* The token that was presented stays valid, and nothing is audited.
CreateRefresh(w) ==
  /\ stage[w] = "refresh"
  /\ Issue(w, "refresh") /\ Answer(w)
  /\ UNCHANGED <<chain, status, nonces, sent, done, streams, deliveries>>

-----------------------------------------------------------------------------
(* verify_access_token of a websocket, on the loop.                        *)

JoinDevice(w) ==
  /\ stage[w] = "join" /\ LoopFree(w)
  /\ IF \E t \in Find(Asked(w).token, "access") : ~t.revoked /\ status[t.device] = "active"
       THEN Goto(w, "expiry") /\ UNCHANGED job
       ELSE Answer(w)
  /\ UNCHANGED <<chain, tables, sent, done, streams, deliveries>>

\* The token is read once more for its expiry, its revocation not being looked at.
JudgeExpiry(w) ==
  /\ stage[w] = "expiry"
  /\ \/ streams' = streams \cup {Asked(w).device} /\ Answer(w)
     \/ Answer(w) /\ UNCHANGED streams
  /\ UNCHANGED <<chain, tables, sent, done, deliveries>>

-----------------------------------------------------------------------------
(* The audit record of a refusal or of an effect, the last thing done.     *)

ReadHash(w) == /\ stage[w] \in {"reject", "audit"}
               /\ ReadLatest(w)
               /\ UNCHANGED <<tables, sent, stage, job, done, streams, deliveries>>

AppendRecord(w) ==
  /\ stage[w] \in {"reject", "audit"}
  /\ Insert(w)
  /\ Answer(w)
  /\ UNCHANGED <<tables, sent, done, streams, deliveries>>

\* The gateway dies and is started again.
Restart == /\ Crash
           /\ stage' = [w \in Writers |-> "idle"]
           /\ job' = [w \in Writers |-> NoRequest]
           /\ UNCHANGED <<tables, sent, done, streams, deliveries>>

SignedNext ==
  \/ \E w \in Writers : \/ Check(w) \/ Nonce(w) \/ Act(w) \/ Revoke(w)
                        \/ ReadToken(w) \/ ReadOwner(w) \/ CreateAccess(w) \/ CreateRefresh(w)
                        \/ JoinDevice(w) \/ JudgeExpiry(w)
                        \/ ReadHash(w) \/ AppendRecord(w)
  \/ \E w \in Writers, r \in Requests :
       \E m \in Messages \cup ({sent[r]} \ {NoMessage}) : Deliver(w, r, m)
  \/ Restart

SignedSpec == SignedInit /\ [][SignedNext]_signedVars

-----------------------------------------------------------------------------
Stages == {"idle", "check", "nonce", "reject", "effect", "audit", "token", "owner",
           "access", "refresh", "join", "expiry"}

TablesOK ==
  /\ status \in [Devices -> {"active", "revoked"}]
  /\ tokens \subseteq Token
  /\ nonces \subseteq Requests
  /\ sent \in [Requests -> Message \cup {NoMessage}]
  /\ stage \in [Writers -> Stages]
  /\ job \in [Writers -> Requests \cup {NoRequest}]
  /\ done \in [Requests -> Nat]
  /\ streams \subseteq Devices
  /\ deliveries \in Nat

SignedTypeOK == TypeOK /\ TablesOK

\* However often a signed request is delivered, and however its deliveries interleave
\* with each other and with restarts, it takes effect once at most.
OncePerNonce == \A r \in Requests : done[r] <= 1

\* What a device still has under way behind its check, and what it has achieved.
InFlight(d) == {w \in Writers : /\ job[w] # NoRequest /\ Asked(w).device = d
                                /\ stage[w] \notin {"check", "reject", "join"}}
Effects(d)  == {r \in Requests : done[r] > 0 /\ sent[r].device = d}
Live(d)     == {t \in tokens : t.device = d /\ ~t.revoked}

\* From its revocation on a device gets nothing new under way: what was behind the check
\* of its status drains, and until then it alone may take effect, insert tokens or open
\* a websocket.
RevocationDrains ==
  [][\A d \in Devices : status[d] = "revoked" =>
       /\ status'[d] = "revoked"
       /\ InFlight(d)' \subseteq InFlight(d)
       /\ \/ InFlight(d) # {}
          \/ Effects(d)' = Effects(d) /\ Live(d)' \subseteq Live(d)
             /\ (d \in streams' => d \in streams)]_signedVars

\* The tokens that outlive the revocation of their device were inserted by refreshes
\* under way on the other threads, one pair each: those the device had are all dead, and
\* what is left cannot be used to make more.
LateTokensAreFew == \A d \in Devices : status[d] = "revoked" =>
                      Cardinality({t.key : t \in Live(d)}) < Cardinality(Writers)
=============================================================================
