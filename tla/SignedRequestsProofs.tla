------------------------ MODULE SignedRequestsProofs ------------------------
(* Theorems about signed requests, for any number of workers, devices, requests and *)
(* restarts.                                                                        *)
EXTENDS SignedRequests, AuditChainProofs, FiniteSetTheorems

\* A worker that is not idle serves a request that has been signed.
Assigned == \A w \in Writers :
              IF stage[w] = "idle" THEN job[w] = NoRequest
              ELSE /\ job[w] \in Requests /\ sent[job[w]] \in Message
                   /\ stage[w] = "join" => sent[job[w]].op = "stream"

\* Past the nonce, and the request has not taken effect yet.
Handling == {w \in Writers : stage[w] \in {"effect", "token", "owner", "access"}}

\* A nonce that is stored has let one worker through at most, and only a request with a
\* stored nonce has taken effect.
OneHandles ==
  /\ \A w \in Handling : job[w] \in nonces /\ done[job[w]] = 0
  /\ \A w, u \in Handling : job[w] = job[u] => w = u
  /\ \A r \in Requests : IF r \in nonces THEN sent[r] \in Message ELSE done[r] = 0

\* Each key belongs to one device, and a websocket is asked for with a key of one's own.
Owner(k) == IF k \in Devices THEN k ELSE sent[k].device
KeysFit ==
  /\ \A t \in tokens : /\ t.device = Owner(t.key)
                       /\ t.key \in Requests => sent[t.key] \in Message
  /\ \A r \in Requests : sent[r].op = "stream" =>
       \E t \in tokens : t.key = sent[r].token /\ t.device = sent[r].device

SignedInv == TablesOK /\ Assigned /\ OneHandles /\ OncePerNonce /\ KeysFit

-----------------------------------------------------------------------------
(* The audit log. *)

\* What a step of a worker does to the audit log is a step of AuditChain or none.
LEMMA SignedStepIsChainStep == [SignedNext]_signedVars => [Next]_vars
<1> SUFFICES ASSUME [SignedNext]_signedVars PROVE [Next]_vars
    OBVIOUS
<1> USE DEF vars, chain
<1>1. ASSUME NEW w \in Writers, ReadHash(w) \/ AppendRecord(w) PROVE Next
      BY <1>1 DEF ReadHash, AppendRecord, Next
<1>2. ASSUME NEW w \in Writers,
             \/ Check(w) \/ Nonce(w) \/ Act(w) \/ Revoke(w) \/ ReadToken(w) \/ ReadOwner(w)
             \/ CreateAccess(w) \/ CreateRefresh(w) \/ JoinDevice(w) \/ JudgeExpiry(w)
      PROVE  UNCHANGED vars
      BY <1>2 DEF Check, Nonce, Act, Revoke, ReadToken, ReadOwner, CreateAccess, CreateRefresh,
                  JoinDevice, JudgeExpiry
<1>3. ASSUME NEW w \in Writers, NEW r \in Requests,
             NEW m \in Messages \cup ({sent[r]} \ {NoMessage}), Deliver(w, r, m)
      PROVE  UNCHANGED vars
      BY <1>3 DEF Deliver
<1>4. CASE Restart BY <1>4 DEF Restart, Next
<1>5. CASE UNCHANGED signedVars BY <1>5 DEF signedVars
<1> QED BY <1>1, <1>2, <1>3, <1>4, <1>5 DEF SignedNext

\* Whatever the workers verify, handle and refuse, the log they append to is the one of
\* AuditChain (append_audit_event).
THEOREM SignedImplementsAuditChain == SignedSpec => Spec
<1>1. SignedInit => Init BY DEF SignedInit
<1> QED BY <1>1, SignedStepIsChainStep, PTL DEF SignedSpec, Spec

\* No worker forks the chain on its own.
THEOREM SignedForksOnlyBetweenWriters == SignedSpec => []NoForkByOneWriter
BY SignedImplementsAuditChain, AuditForksOnlyBetweenWriters, PTL

-----------------------------------------------------------------------------
(* The invariant. *)

\* A signed message is no NoMessage.
LEMMA NoMessageIsNone == NoMessage \notin Message
BY DEF NoMessage, Message

LEMMA SignedInitInv == SignedInit => SignedInv
<1> SUFFICES ASSUME SignedInit PROVE SignedInv
    OBVIOUS
<1> USE SignedAssumption DEF SignedInit
<1>1. TablesOK BY DEF TablesOK, Stages
<1>2. Assigned /\ OneHandles /\ OncePerNonce
      BY DEF Assigned, OneHandles, Handling, OncePerNonce
<1>3. KeysFit BY DEF KeysFit, Owner, NoMessage, Token
<1> QED BY <1>1, <1>2, <1>3 DEF SignedInv

\* What the app signs is a message, and keeps the keys of KeysFit.
LEMMA DeliverKeeps ==
  ASSUME SignedInv, NEW w \in Writers, NEW r \in Requests,
         NEW m \in Messages \cup ({sent[r]} \ {NoMessage}), Deliver(w, r, m)
  PROVE  SignedInv'
<1> USE DEF SignedInv, tables
<1>1. m \in Message /\ (sent[r] # NoMessage => m = sent[r])
  <2>1. Messages \subseteq Message
        BY DEF Messages, Message, TablesOK, Token
  <2> QED BY <2>1, NoMessageIsNone DEF Deliver, TablesOK
<1>2. sent' \in [Requests -> Message \cup {NoMessage}] /\ sent'[r] = m
      /\ \A q \in Requests : sent[q] \in Message => sent'[q] = sent[q]
      BY <1>1, NoMessageIsNone DEF Deliver, TablesOK
<1>3. TablesOK' BY <1>2 DEF Deliver, Goto, TablesOK, Stages
<1>4. Assigned' BY <1>1, <1>2 DEF Deliver, Goto, TablesOK, Assigned
<1>5. OneHandles' /\ OncePerNonce'
      BY <1>2 DEF Deliver, Goto, TablesOK, OneHandles, Handling, OncePerNonce
<1>6. KeysFit'
  <2>1. \A t \in tokens : t.key \in Keys BY DEF TablesOK, Token
  <2>2. \A t \in tokens : /\ t.device = Owner(t.key)'
                          /\ t.key \in Requests => sent'[t.key] \in Message
        BY <1>2, <2>1, SignedAssumption DEF KeysFit, Owner, Keys, TablesOK
  <2>3. ASSUME sent[r] = NoMessage, m.op = "stream"
        PROVE  \E t \in tokens : t.key = m.token /\ t.device = m.device
        BY <2>3 DEF Messages, Deliver
  <2>4. \A q \in Requests : sent'[q].op = "stream" =>
          \E t \in tokens : t.key = sent'[q].token /\ t.device = sent'[q].device
        BY <1>1, <1>2, <2>3 DEF KeysFit, Deliver, TablesOK
  <2> QED BY <2>2, <2>4 DEF KeysFit, Deliver
<1> QED BY <1>3, <1>4, <1>5, <1>6

HandlingStages == {"effect", "token", "owner", "access"}

\* A worker that changes no table goes on to another stage, or answers.
LEMMA MoveKeeps ==
  ASSUME SignedInv, NEW w \in Writers, stage[w] # "idle",
         UNCHANGED <<tables, sent, done, deliveries>>, streams' \subseteq Devices,
         \/ Answer(w)
         \/ /\ UNCHANGED job
            /\ \E s \in Stages \ {"idle", "join"} : /\ Goto(w, s)
                                                    /\ s \in HandlingStages => w \in Handling
  PROVE  SignedInv'
<1> USE DEF SignedInv, tables
<1>1. TablesOK' BY DEF Answer, Goto, TablesOK, Stages
<1>2. Assigned' BY DEF Answer, Goto, TablesOK, Assigned
<1>3. Handling' \subseteq Handling /\ \A u \in Handling' : job'[u] = job[u]
      BY DEF Answer, Goto, TablesOK, Handling, HandlingStages
<1>4. OneHandles' /\ OncePerNonce'
      BY <1>3 DEF OneHandles, OncePerNonce
<1>5. KeysFit' BY DEF KeysFit, Owner
<1> QED BY <1>1, <1>2, <1>4, <1>5

LEMMA StageOf ==
  ASSUME SignedInv, NEW w \in Writers, stage[w] # "idle"
  PROVE  /\ job[w] \in Requests /\ Asked(w) \in Message /\ Asked(w).device \in Devices
         /\ \A s : Goto(w, s) => stage'[w] = s
BY DEF SignedInv, Assigned, Asked, Message, Goto, TablesOK

\* The nonce lets in the first worker that brings it, and no later one.
LEMMA NonceKeeps ==
  ASSUME SignedInv, NEW w \in Writers, Nonce(w)
  PROVE  SignedInv'
<1> USE DEF SignedInv, Nonce
<1>0. /\ job[w] \in Requests
      /\ \E s \in {"reject", "token", "effect"} :
            Goto(w, s) /\ (s \in {"token", "effect"} => job[w] \notin nonces)
      BY StageOf DEF Handler
<1>1. TablesOK' BY <1>0 DEF Goto, TablesOK, Stages
<1>2. Assigned' BY <1>0 DEF Goto, TablesOK, Assigned
<1>3. \A u \in Handling' : u # w => u \in Handling
      BY <1>0 DEF Goto, TablesOK, Handling
<1>4. w \in Handling' => job[w] \notin nonces
      BY <1>0 DEF Goto, TablesOK, Handling
<1>5. OneHandles' /\ OncePerNonce'
  <2>1. \A u \in Handling' : job'[u] \in nonces' /\ done'[job'[u]] = 0
        BY <1>0, <1>3, <1>4 DEF OneHandles
  <2>2. \A u, v \in Handling' : job'[u] = job'[v] => u = v
        BY <1>3, <1>4 DEF OneHandles
  <2>3. \A r \in Requests : IF r \in nonces' THEN sent'[r] \in Message ELSE done'[r] = 0
        BY <1>0, StageOf DEF OneHandles, Asked
  <2> QED BY <2>1, <2>2, <2>3 DEF OneHandles, OncePerNonce
<1>6. KeysFit' BY DEF KeysFit, Owner
<1> QED BY <1>1, <1>2, <1>5, <1>6

\* A worker that takes effect is no longer among those that handle the request.
LEMMA TakeKeeps ==
  ASSUME SignedInv, NEW w \in Handling, Take(w), UNCHANGED <<nonces, job, sent>>,
         NEW s \in Stages \ HandlingStages, Goto(w, s)
  PROVE  OneHandles' /\ OncePerNonce' /\ done' \in [Requests -> Nat]
<1> USE DEF SignedInv
<1>0. w \in Writers /\ stage[w] # "idle" BY DEF Handling
<1>1. job[w] \in Requests BY <1>0, StageOf
<1>2. Handling' = Handling \ {w}
      BY <1>0 DEF Goto, TablesOK, Handling, HandlingStages
<1>3. /\ done'[job[w]] = 1
      /\ \A r \in Requests \ {job[w]} : done'[r] = done[r]
      /\ done' \in [Requests -> Nat]
      BY <1>1 DEF Take, OneHandles, TablesOK
<1>4. \A u \in Handling' : job[u] \in Requests \ {job[w]}
  <2>1. \A u \in Handling : u \in Writers /\ stage[u] # "idle" BY DEF Handling
  <2> QED BY <1>2, <2>1, StageOf DEF OneHandles
<1>5. OneHandles' BY <1>2, <1>3, <1>4 DEF OneHandles
<1> QED BY <1>3, <1>5 DEF OncePerNonce, OneHandles

\* A revocation keeps whose token it is.
LEMMA RevokedToken ==
  ASSUME NEW t \in Token
  PROVE  LET u == [t EXCEPT !.revoked = TRUE]
         IN  u \in Token /\ u.key = t.key /\ u.device = t.device /\ u.revoked
BY DEF Token

LEMMA RevokeTokens ==
  ASSUME SignedInv, NEW w \in Writers, Revoke(w)
  PROVE  /\ tokens' \subseteq Token
         /\ \A t \in tokens' : \E u \in tokens : t.key = u.key /\ t.device = u.device
         /\ \A u \in tokens : \E t \in tokens' : t.key = u.key /\ t.device = u.device
<1> DEFINE R(t) == IF t.device = Asked(w).target THEN [t EXCEPT !.revoked = TRUE] ELSE t
<1>1. \A t \in tokens : R(t) \in Token /\ R(t).key = t.key /\ R(t).device = t.device
      BY RevokedToken DEF SignedInv, TablesOK
<1>2. tokens' = {R(t) : t \in tokens} BY DEF Revoke
<1> HIDE DEF R
<1> QED BY <1>1, <1>2

LEMMA ActKeeps ==
  ASSUME SignedInv, NEW w \in Writers, Act(w) \/ Revoke(w)
  PROVE  SignedInv'
<1> USE DEF SignedInv, Act, Revoke, tables
<1>0. w \in Handling BY DEF Handling
<1>1. /\ job[w] \in Requests /\ Asked(w) \in Message
      /\ Asked(w).op = "revoke" => Asked(w).target \in Devices
      BY StageOf DEF Message
<1>2. OneHandles' /\ OncePerNonce' /\ done' \in [Requests -> Nat]
      BY <1>0, TakeKeeps DEF Stages, HandlingStages
<1>3. status' \in [Devices -> {"active", "revoked"}]
      BY <1>1 DEF TablesOK
<1>4. /\ tokens' \subseteq Token
      /\ \A t \in tokens' : \E u \in tokens : t.key = u.key /\ t.device = u.device
      /\ \A u \in tokens : \E t \in tokens' : t.key = u.key /\ t.device = u.device
      BY RevokeTokens DEF TablesOK
<1>5. TablesOK' BY <1>2, <1>3, <1>4 DEF Goto, TablesOK, Stages
<1>6. Assigned' BY DEF Goto, TablesOK, Assigned
<1>7. KeysFit'
  <2>1. UNCHANGED sent OBVIOUS
  <2>2. \A t \in tokens' : /\ t.device = Owner(t.key)
                           /\ t.key \in Requests => sent[t.key] \in Message
        BY <1>4 DEF KeysFit
  <2>3. \A r \in Requests : sent[r].op = "stream" =>
          \E t \in tokens' : t.key = sent[r].token /\ t.device = sent[r].device
        BY <1>4 DEF KeysFit
  <2> QED BY <2>1, <2>2, <2>3 DEF KeysFit, Owner
<1> QED BY <1>2, <1>5, <1>6, <1>7

\* New tokens go by the request that asked for them and belong to the device that signed it.
LEMMA IssueKeeps ==
  ASSUME SignedInv, NEW w \in Writers, CreateAccess(w) \/ CreateRefresh(w)
  PROVE  SignedInv'
<1> USE DEF SignedInv
<1>1. job[w] \in Requests /\ sent[job[w]] \in Message /\ Asked(w).device \in Devices
      BY StageOf DEF CreateAccess, CreateRefresh, Asked
<1>2. PICK type \in {"access", "refresh"} : Issue(w, type)
      BY DEF CreateAccess, CreateRefresh
<1>3. tokens' \subseteq Token
  <2>1. [key |-> job[w], type |-> type, device |-> Asked(w).device, revoked |-> FALSE] \in Token
        BY <1>1 DEF Token, Keys
  <2> QED BY <1>2, <2>1 DEF Issue, TablesOK
<1>4. OneHandles' /\ OncePerNonce' /\ done' \in [Requests -> Nat]
  <2>1. CASE CreateAccess(w)
        BY <2>1, TakeKeeps DEF CreateAccess, Handling, Stages, HandlingStages
  <2>2. CASE CreateRefresh(w)
    <3>1. Handling' \subseteq Handling /\ \A u \in Handling' : job'[u] = job[u]
          BY <2>2 DEF CreateRefresh, Answer, Goto, TablesOK, Handling
    <3> QED BY <2>2, <3>1 DEF CreateRefresh, OneHandles, OncePerNonce, TablesOK
  <2> QED BY <2>1, <2>2
<1>5. TablesOK' BY <1>3, <1>4 DEF CreateAccess, CreateRefresh, Answer, Goto, TablesOK, Stages
<1>6. Assigned' BY DEF CreateAccess, CreateRefresh, Answer, Goto, TablesOK, Assigned
<1>7. KeysFit'
  <2>1. UNCHANGED sent BY DEF CreateAccess, CreateRefresh
  <2>2. tokens \subseteq tokens' BY <1>2 DEF Issue
  <2>3. ASSUME NEW t \in tokens'
        PROVE  t.device = Owner(t.key) /\ (t.key \in Requests => sent[t.key] \in Message)
    <3>1. CASE t \in tokens BY <3>1 DEF KeysFit
    <3>2. CASE t \notin tokens
      <4>1. t.key = job[w] /\ t.device = Asked(w).device BY <3>2, <1>2 DEF Issue
      <4> QED BY <4>1, <1>1, SignedAssumption DEF Owner, Asked
    <3> QED BY <3>1, <3>2
  <2> QED BY <2>1, <2>2, <2>3 DEF KeysFit, Owner
<1> QED BY <1>4, <1>5, <1>6, <1>7

LEMMA RestartKeeps == ASSUME SignedInv, Restart PROVE SignedInv'
<1> USE DEF SignedInv, Restart, tables
<1>1. TablesOK' BY DEF TablesOK, Stages
<1>2. Assigned' /\ OneHandles' /\ OncePerNonce'
      BY DEF Assigned, OneHandles, Handling, OncePerNonce
<1>3. KeysFit' BY DEF KeysFit, Owner
<1> QED BY <1>1, <1>2, <1>3

LEMMA SignedInvariant == SignedSpec => []SignedInv
<1>1. SignedInv /\ [SignedNext]_signedVars => SignedInv'
  <2> SUFFICES ASSUME SignedInv, [SignedNext]_signedVars PROVE SignedInv'
      OBVIOUS
  <2>1. ASSUME NEW w \in Writers, Check(w) PROVE SignedInv'
        BY <2>1, MoveKeeps DEF Check, Stages, HandlingStages, SignedInv, TablesOK
  <2>2. ASSUME NEW w \in Writers, ReadToken(w) \/ ReadOwner(w) PROVE SignedInv'
        BY <2>2, MoveKeeps DEF ReadToken, ReadOwner, Stages, Handling, SignedInv, TablesOK
  <2>3. ASSUME NEW w \in Writers, JoinDevice(w) PROVE SignedInv'
        BY <2>3, MoveKeeps DEF JoinDevice, Stages, HandlingStages, SignedInv, TablesOK
  <2>4. ASSUME NEW w \in Writers, JudgeExpiry(w) PROVE SignedInv'
    <3>1. stage[w] # "idle" /\ Asked(w).device \in Devices
          BY <2>4, StageOf DEF JudgeExpiry
    <3> QED BY <2>4, <3>1, MoveKeeps DEF JudgeExpiry, SignedInv, TablesOK
  <2>5. ASSUME NEW w \in Writers, ReadHash(w) PROVE SignedInv'
    <3> USE <2>5 DEF ReadHash, SignedInv, tables
    <3>1. TablesOK' /\ Assigned' BY DEF TablesOK, Assigned
    <3>2. OneHandles' /\ OncePerNonce' BY DEF OneHandles, Handling, OncePerNonce
    <3>3. KeysFit' BY DEF KeysFit, Owner
    <3> QED BY <3>1, <3>2, <3>3
  <2>6. ASSUME NEW w \in Writers, AppendRecord(w) PROVE SignedInv'
        BY <2>6, MoveKeeps DEF AppendRecord, SignedInv, TablesOK
  <2>7. CASE UNCHANGED signedVars
    <3> USE <2>7 DEF signedVars, SignedInv, tables
    <3>1. TablesOK' /\ Assigned' BY DEF TablesOK, Assigned
    <3>2. OneHandles' /\ OncePerNonce' BY DEF OneHandles, Handling, OncePerNonce
    <3>3. KeysFit' BY DEF KeysFit, Owner
    <3> QED BY <3>1, <3>2, <3>3
  <2> QED BY <2>1, <2>2, <2>3, <2>4, <2>5, <2>6, <2>7, NonceKeeps, ActKeeps, IssueKeeps,
             RestartKeeps, DeliverKeeps DEF SignedNext
<1> QED BY <1>1, SignedInitInv, PTL DEF SignedSpec

\* Type correctness, for any number of workers, devices, requests and restarts.
THEOREM SignedTyped == SignedSpec => []SignedTypeOK
<1>1. SignedInv /\ TypeOK => SignedTypeOK BY DEF SignedInv, SignedTypeOK
<1> QED BY <1>1, SignedInvariant, SignedImplementsAuditChain, AuditTyped, PTL

\* A signed request takes effect once at most, however often it is delivered
\* (record_request_nonce).
THEOREM SignedOncePerNonce == SignedSpec => []OncePerNonce
<1>1. SignedInv => OncePerNonce BY DEF SignedInv
<1> QED BY <1>1, SignedInvariant, PTL

-----------------------------------------------------------------------------
(* Revocation. *)

\* The device of a websocket is that of its token.
LEMMA JoinIsOwn ==
  ASSUME SignedInv, NEW w \in Writers, stage[w] = "join",
         NEW t \in Find(Asked(w).token, "access")
  PROVE  t.device = Asked(w).device
<1>1. job[w] \in Requests /\ Asked(w).op = "stream"
      BY StageOf DEF SignedInv, Assigned, Asked
<1>2. PICK u \in tokens : u.key = Asked(w).token /\ u.device = Asked(w).device
      BY <1>1 DEF SignedInv, KeysFit, Asked
<1> QED BY <1>2 DEF SignedInv, KeysFit, Find

\* A worker leaves InFlight only by answering, and joins it only by a step of its own.
LEMMA OthersStay ==
  ASSUME SignedInv, NEW w \in Writers, NEW d \in Devices,
         \E s \in Stages : Goto(w, s),
         \A u \in Writers \ {w} : job'[u] = job[u],
         \A r \in Requests : sent[r] \in Message => sent'[r] = sent[r],
         w \in InFlight(d)' => w \in InFlight(d)
  PROVE  InFlight(d)' \subseteq InFlight(d)
<1> SUFFICES ASSUME NEW u \in InFlight(d)', u # w PROVE u \in InFlight(d)
    OBVIOUS
<1>1. u \in Writers /\ stage'[u] = stage[u] /\ job'[u] = job[u]
      BY DEF InFlight, Goto, SignedInv, TablesOK
<1>2. job[u] \in Requests /\ sent[job[u]] \in Message
      BY <1>1 DEF InFlight, SignedInv, Assigned, TablesOK
<1> QED BY <1>1, <1>2 DEF InFlight, Asked

\* What RevocationDrains says of one device and one step.
Drains(d) == /\ status'[d] = "revoked"
             /\ InFlight(d)' \subseteq InFlight(d)
             /\ \/ InFlight(d) # {}
                \/ /\ Effects(d)' = Effects(d) /\ Live(d)' \subseteq Live(d)
                   /\ d \in streams' => d \in streams

\* A step that leaves tables and effects alone drains if its worker does not join.
LEMMA MoveDrains ==
  ASSUME SignedInv, NEW w \in Writers, NEW d \in Devices, status[d] = "revoked",
         UNCHANGED <<status, tokens, sent, done, streams>>,
         \E s \in Stages : Goto(w, s),
         \A u \in Writers \ {w} : job'[u] = job[u],
         w \in InFlight(d)' => w \in InFlight(d)
  PROVE  Drains(d)
<1>1. InFlight(d)' \subseteq InFlight(d) BY OthersStay
<1>2. Effects(d)' = Effects(d) /\ Live(d)' = Live(d) BY DEF Effects, Live
<1> QED BY <1>1, <1>2 DEF Drains

LEMMA VerifyDrains ==
  ASSUME SignedInv, NEW w \in Writers, NEW d \in Devices, status[d] = "revoked",
         \/ Check(w) \/ Nonce(w) \/ ReadToken(w) \/ ReadOwner(w) \/ JoinDevice(w)
         \/ AppendRecord(w)
  PROVE  Drains(d)
<1> USE DEF SignedInv, TablesOK, tables, InFlight, Goto, Answer, Asked
<1>1. CASE Check(w) BY <1>1, MoveDrains DEF Check, Stages
<1>2. CASE Nonce(w) BY <1>2, MoveDrains DEF Nonce, Handler, Stages
<1>3. CASE ReadToken(w) \/ ReadOwner(w)
      BY <1>3, MoveDrains DEF ReadToken, ReadOwner, Stages
<1>4. CASE JoinDevice(w)
  <2>1. ASSUME w \in InFlight(d)', Asked(w).device = d PROVE FALSE
    <3>1. PICK t \in Find(Asked(w).token, "access") : status[t.device] = "active"
          BY <1>4, <2>1 DEF JoinDevice
    <3>2. t.device = d BY <1>4, <2>1, <3>1, JoinIsOwn DEF JoinDevice
    <3> QED BY <3>1, <3>2
  <2> QED BY <1>4, <2>1, MoveDrains DEF JoinDevice, Stages
<1>5. CASE AppendRecord(w) BY <1>5, MoveDrains DEF AppendRecord, Stages
<1> QED BY <1>1, <1>2, <1>3, <1>4, <1>5

\* What takes effect, issues tokens or opens a websocket is in flight for its own device
\* and does nothing to another, except end it.
LEMMA EffectDrains ==
  ASSUME SignedInv, NEW w \in Writers, NEW d \in Devices, status[d] = "revoked",
         \/ Act(w) \/ Revoke(w) \/ CreateAccess(w) \/ CreateRefresh(w) \/ JudgeExpiry(w)
  PROVE  Drains(d)
<1> USE DEF SignedInv, tables
<1>1. /\ w \in InFlight(Asked(w).device)
      /\ job[w] \in Requests /\ Asked(w).device \in Devices /\ Asked(w) \in Message
      BY StageOf, SignedAssumption
      DEF InFlight, Act, Revoke, CreateAccess, CreateRefresh, JudgeExpiry, NoRequest
<1>2. /\ UNCHANGED sent
      /\ \E s \in Stages : Goto(w, s)
      /\ job' = job \/ Answer(w)
      BY DEF Act, Revoke, CreateAccess, CreateRefresh, JudgeExpiry, Answer, Stages
<1>3. InFlight(d)' \subseteq InFlight(d)
  <2>1. \A u \in Writers \ {w} : job'[u] = job[u]
        BY <1>2 DEF Answer, TablesOK
  <2>2. w \in InFlight(d)' => w \in InFlight(d)
        BY <1>1, <1>2 DEF InFlight, Answer, TablesOK, Asked
  <2> QED BY <1>2, <2>1, <2>2, OthersStay
<1>4. status'[d] = "revoked"
      BY DEF Act, Revoke, CreateAccess, CreateRefresh, JudgeExpiry, TablesOK
<1>5. ASSUME Asked(w).device # d
      PROVE  /\ Effects(d)' = Effects(d) /\ Live(d)' \subseteq Live(d)
             /\ d \in streams' => d \in streams
  <2>1. Effects(d)' = Effects(d)
    <3>1. sent[job[w]].device # d BY <1>5 DEF Asked
    <3>2. done' = done \/ Take(w)
          BY DEF Act, Revoke, CreateAccess, CreateRefresh, JudgeExpiry
    <3> QED BY <1>2, <3>1, <3>2 DEF Effects, Take, TablesOK
  <2>2. Live(d)' \subseteq Live(d)
    <3>1. CASE Revoke(w)
      <4>1. \A t \in tokens' : t \in tokens \/ t.revoked
            BY <3>1, RevokedToken DEF Revoke, TablesOK
      <4> QED BY <4>1 DEF Live
    <3>2. CASE Act(w) \/ JudgeExpiry(w) BY <3>2 DEF Act, JudgeExpiry, Live
    <3>3. CASE CreateAccess(w) \/ CreateRefresh(w)
      <4>1. \A t \in tokens' : t \in tokens \/ t.device = Asked(w).device
            BY <3>3 DEF CreateAccess, CreateRefresh, Issue
      <4> QED BY <4>1, <1>5 DEF Live
    <3> QED BY <3>1, <3>2, <3>3
  <2>3. d \in streams' => d \in streams
        BY <1>5 DEF Act, Revoke, CreateAccess, CreateRefresh, JudgeExpiry
  <2> QED BY <2>1, <2>2, <2>3
<1> QED BY <1>1, <1>3, <1>4, <1>5 DEF Drains

LEMMA DeliverDrains ==
  ASSUME SignedInv, NEW d \in Devices, status[d] = "revoked",
         NEW w \in Writers, NEW r \in Requests,
         NEW m \in Messages \cup ({sent[r]} \ {NoMessage}), Deliver(w, r, m)
  PROVE  Drains(d)
<1> USE DEF SignedInv, Deliver, tables
<1>1. \A q \in Requests : sent[q] \in Message => sent'[q] = sent[q]
      BY NoMessageIsNone DEF TablesOK
<1>2. InFlight(d)' \subseteq InFlight(d)
  <2>1. \E s \in Stages : Goto(w, s) BY DEF Stages
  <2>2. w \notin InFlight(d)' BY DEF InFlight, Goto, TablesOK
  <2> QED BY <1>1, <2>1, <2>2, OthersStay DEF TablesOK
<1>3. \A q \in Requests : done[q] > 0 => sent[q] \in Message
      BY DEF OneHandles, TablesOK
<1>4. Effects(d)' = Effects(d) /\ Live(d)' = Live(d)
      BY <1>1, <1>3 DEF Effects, Live
<1> QED BY <1>2, <1>4 DEF Drains

\* From its revocation on a device gets nothing new under way (verify_signed_request,
\* verify_access_token, revoke_device).
THEOREM SignedRevocationDrains == SignedSpec => RevocationDrains
<1>1. SignedInv /\ [SignedNext]_signedVars =>
        [\A d \in Devices : status[d] = "revoked" =>
           /\ status'[d] = "revoked"
           /\ InFlight(d)' \subseteq InFlight(d)
           /\ \/ InFlight(d) # {}
              \/ Effects(d)' = Effects(d) /\ Live(d)' \subseteq Live(d)
                 /\ (d \in streams' => d \in streams)]_signedVars
  <2> SUFFICES ASSUME SignedInv, SignedNext, NEW d \in Devices, status[d] = "revoked"
               PROVE  Drains(d)
      BY DEF Drains
  <2>1. ASSUME NEW w \in Writers, ReadHash(w) PROVE Drains(d)
    <3>1. InFlight(d)' = InFlight(d) /\ Effects(d)' = Effects(d) /\ Live(d)' = Live(d)
          BY <2>1 DEF ReadHash, tables, InFlight, Asked, Effects, Live
    <3> QED BY <2>1, <3>1 DEF ReadHash, tables, Drains
  <2>2. CASE Restart
    <3>1. InFlight(d)' = {} BY <2>2 DEF Restart, InFlight
    <3>2. Effects(d)' = Effects(d) /\ Live(d)' = Live(d)
          BY <2>2 DEF Restart, tables, Effects, Live
    <3> QED BY <2>2, <3>1, <3>2 DEF Restart, tables, Drains
  <2> QED BY <2>1, <2>2, VerifyDrains, EffectDrains, DeliverDrains DEF SignedNext
<1> QED BY <1>1, SignedInvariant, PTL DEF SignedSpec, RevocationDrains

\* The requests that have put, or are about to put, a live token of d into the table.
Late(d) == {t.key : t \in Live(d)}
           \cup {job[w] : w \in {u \in Writers : /\ stage[u] \in {"access", "refresh"}
                                                 /\ Asked(u).device = d}}

\* A revocation kills every token there is: what is left comes from the other workers.
FewAreLate ==
  \A d \in Devices : status[d] = "revoked" =>
    /\ IsFiniteSet(Late(d))
    /\ Cardinality(Late(d)) < Cardinality(Writers)

\* The revocation itself.
LEMMA RevokeLeavesFew ==
  ASSUME SignedInv, NEW w \in Writers, Revoke(w), NEW d \in Devices, Asked(w).target = d
  PROVE  IsFiniteSet(Late(d)') /\ Cardinality(Late(d)') < Cardinality(Writers)
<1> USE SignedAssumption
<1> DEFINE others == Writers \ {w}
           f == [u \in others |-> job[u]]
<1>1. Live(d)' = {}
  <2>1. \A t \in tokens' : t.device = d => t.revoked
    <3>1. \A t \in tokens : t \in Token BY DEF SignedInv, TablesOK
    <3> QED BY <3>1, RevokedToken DEF Revoke
  <2> QED BY <2>1 DEF Live
<1>2. Late(d)' \subseteq {f[u] : u \in others}
      BY <1>1 DEF Late, Revoke, Goto, SignedInv, TablesOK
<1>3. IsFiniteSet(others) /\ Cardinality(others) = Cardinality(Writers) - 1
      BY FS_RemoveElement
<1>4. /\ IsFiniteSet({f[u] : u \in others})
      /\ Cardinality({f[u] : u \in others}) <= Cardinality(others)
  <2>1. f \in Surjection(others, {f[u] : u \in others}) BY DEF Surjection
  <2> QED BY <1>3, <2>1, FS_Surjection
<1>5. /\ IsFiniteSet(Late(d)')
      /\ Cardinality(Late(d)') <= Cardinality({f[u] : u \in others})
      BY <1>2, <1>4, FS_Subset
<1>6. /\ Cardinality(Writers) \in Nat /\ Cardinality(others) \in Nat
      /\ Cardinality({f[u] : u \in others}) \in Nat /\ Cardinality(Late(d)') \in Nat
      BY <1>3, <1>4, <1>5, FS_CardinalityType
<1> QED BY <1>3, <1>4, <1>5, <1>6

\* No other step adds to Late: a device that is revoked gets no worker past ReadOwner,
\* and what CreateAccess and CreateRefresh insert is counted already.
LEMMA LateDrains ==
  ASSUME SignedInv, [SignedNext]_signedVars, NEW d \in Devices, status[d] = "revoked",
         \A w \in Writers : Revoke(w) => Asked(w).target # d
  PROVE  Late(d)' \subseteq Late(d)
<1> USE DEF SignedInv, tables
<1> DEFINE Issuing == {u \in Writers : stage[u] \in {"access", "refresh"} /\ Asked(u).device = d}
<1>0. ASSUME Live(d)' \subseteq Live(d), \A u \in Issuing' : u \in Issuing /\ job'[u] = job[u]
      PROVE  Late(d)' \subseteq Late(d)
      BY <1>0 DEF Late
<1>1. ASSUME NEW w \in Writers, UNCHANGED <<tokens, sent>>,
             \A u \in Writers \ {w} : stage'[u] = stage[u] /\ job'[u] = job[u],
             w \notin Issuing'
      PROVE  Late(d)' \subseteq Late(d)
  <2>1. \A u \in Issuing' : u \in Issuing /\ job'[u] = job[u] BY <1>1 DEF Asked
  <2>2. Live(d)' = Live(d) BY <1>1 DEF Live
  <2> QED BY <1>0, <2>1, <2>2
<1>2. ASSUME NEW w \in Writers, Check(w) \/ Nonce(w) \/ ReadToken(w)
      PROVE  Late(d)' \subseteq Late(d)
      BY <1>1, <1>2 DEF Check, Nonce, Handler, ReadToken, Answer, Goto, TablesOK
<1>3. ASSUME NEW w \in Writers, JoinDevice(w) \/ JudgeExpiry(w) \/ Act(w) \/ AppendRecord(w)
      PROVE  Late(d)' \subseteq Late(d)
      BY <1>1, <1>3 DEF JoinDevice, JudgeExpiry, Act, AppendRecord, Answer, Goto, TablesOK
<1>4. ASSUME NEW w \in Writers, ReadOwner(w) PROVE Late(d)' \subseteq Late(d)
  <2>1. CASE Asked(w).device = d
        BY <1>1, <1>4, <2>1 DEF ReadOwner, Answer, Goto, TablesOK
  <2>2. CASE Asked(w).device # d
    <3>1. stage[w] = "owner" BY <1>4 DEF ReadOwner
    <3>2. job'[w] = job[w] \/ stage'[w] = "idle"
          BY <1>4 DEF ReadOwner, Answer, Goto, TablesOK
    <3> QED BY <1>1, <1>4, <2>2, <3>2 DEF ReadOwner, Answer, Goto, TablesOK, Asked
  <2> QED BY <2>1, <2>2
<1>5. ASSUME NEW w \in Writers, Revoke(w) PROVE Late(d)' \subseteq Late(d)
  <2>1. \A t \in tokens' : t \in tokens \/ t.revoked
        BY <1>5, RevokedToken DEF Revoke, TablesOK
  <2>2. Live(d)' \subseteq Live(d) BY <2>1 DEF Live
  <2>3. \A u \in Issuing' : u \in Issuing /\ job'[u] = job[u]
        BY <1>5 DEF Revoke, Goto, TablesOK, Asked
  <2> QED BY <1>0, <2>2, <2>3
<1>6. ASSUME NEW w \in Writers, CreateAccess(w) \/ CreateRefresh(w)
      PROVE  Late(d)' \subseteq Late(d)
  <2>1. w \in Writers /\ stage[w] \in {"access", "refresh"}
        BY <1>6 DEF CreateAccess, CreateRefresh
  <2>2. \A t \in Live(d)' : t \in Live(d) \/ (t.key = job[w] /\ Asked(w).device = d)
        BY <1>6 DEF CreateAccess, CreateRefresh, Issue, Live
  <2>3. \A u \in Issuing' : u \in Issuing /\ job'[u] = job[u]
        BY <1>6 DEF CreateAccess, CreateRefresh, Answer, Goto, TablesOK, Asked
  <2> QED BY <2>1, <2>2, <2>3 DEF Late
<1>7. ASSUME NEW w \in Writers, ReadHash(w) PROVE Late(d)' \subseteq Late(d)
      BY <1>7 DEF ReadHash, Late, Live, Asked
<1>8. ASSUME NEW w \in Writers, NEW r \in Requests,
             NEW m \in Messages \cup ({sent[r]} \ {NoMessage}), Deliver(w, r, m)
      PROVE  Late(d)' \subseteq Late(d)
  <2>1. \A q \in Requests : sent[q] \in Message => sent'[q] = sent[q]
        BY <1>8, NoMessageIsNone DEF Deliver, TablesOK
  <2>2. \A u \in Writers \ {w} : stage'[u] = stage[u] /\ job'[u] = job[u]
        BY <1>8 DEF Deliver, Goto, TablesOK
  <2>3. w \notin Issuing' BY <1>8 DEF Deliver, Goto, TablesOK
  <2>4. \A u \in Issuing' : u \in Issuing /\ job'[u] = job[u]
    <3> SUFFICES ASSUME NEW u \in Issuing' PROVE u \in Issuing /\ job'[u] = job[u]
        OBVIOUS
    <3>1. u # w /\ stage[u] # "idle" BY <2>2, <2>3
    <3>2. job[u] \in Requests /\ sent[job[u]] \in Message BY <3>1 DEF Assigned
    <3> QED BY <2>1, <2>2, <3>1, <3>2 DEF Asked
  <2>5. Live(d)' = Live(d) BY <1>8 DEF Deliver, Live
  <2> QED BY <1>0, <2>4, <2>5
<1>9. CASE Restart
  <2>1. Issuing' = {} BY <1>9 DEF Restart
  <2>2. Live(d)' = Live(d) BY <1>9 DEF Restart, Live
  <2> QED BY <1>0, <2>1, <2>2
<1>10. CASE UNCHANGED signedVars
       BY <1>10 DEF signedVars, Late, Live, Asked
<1> QED BY <1>2, <1>3, <1>4, <1>5, <1>6, <1>7, <1>8, <1>9, <1>10 DEF SignedNext

\* Only a revocation revokes.
LEMMA RevokedByRevoke ==
  ASSUME SignedInv, [SignedNext]_signedVars, NEW d \in Devices,
         status[d] # "revoked", status'[d] = "revoked"
  PROVE  \E w \in Writers : Revoke(w) /\ Asked(w).target = d
<1> USE DEF tables
<1>1. ASSUME NEW w \in Writers, Revoke(w), Asked(w).target # d PROVE status'[d] = status[d]
      BY <1>1 DEF Revoke, SignedInv, TablesOK
<1>2. ASSUME NEW w \in Writers,
             \/ Check(w) \/ Nonce(w) \/ Act(w) \/ ReadToken(w) \/ ReadOwner(w)
             \/ CreateAccess(w) \/ CreateRefresh(w) \/ JoinDevice(w) \/ JudgeExpiry(w)
             \/ ReadHash(w) \/ AppendRecord(w)
      PROVE  status' = status
      BY <1>2 DEF Check, Nonce, Act, ReadToken, ReadOwner, CreateAccess, CreateRefresh,
                  JoinDevice, JudgeExpiry, ReadHash, AppendRecord
<1>3. ASSUME NEW w \in Writers, NEW r \in Requests,
             NEW m \in Messages \cup ({sent[r]} \ {NoMessage}), Deliver(w, r, m)
      PROVE  status' = status
      BY <1>3 DEF Deliver
<1>4. Restart \/ UNCHANGED signedVars => status' = status BY DEF Restart, signedVars
<1> QED BY <1>1, <1>2, <1>3, <1>4 DEF SignedNext

\* The tokens that outlive the revocation of their device are fewer than the workers
\* (refresh_token, revoke_device).
THEOREM SignedLateTokensAreFew == SignedSpec => []LateTokensAreFew
<1>1. SignedInit => FewAreLate
      BY DEF SignedInit, FewAreLate
<1>2. SignedInv /\ FewAreLate /\ [SignedNext]_signedVars => FewAreLate'
  <2> SUFFICES ASSUME SignedInv, FewAreLate, [SignedNext]_signedVars,
                      NEW d \in Devices, status'[d] = "revoked"
               PROVE  IsFiniteSet(Late(d)') /\ Cardinality(Late(d)') < Cardinality(Writers)
      BY DEF FewAreLate
  <2>1. CASE \E w \in Writers : Revoke(w) /\ Asked(w).target = d
        BY <2>1, RevokeLeavesFew
  <2>2. CASE ~\E w \in Writers : Revoke(w) /\ Asked(w).target = d
    <3>1. status[d] = "revoked" BY <2>2, RevokedByRevoke
    <3>2. Late(d)' \subseteq Late(d) BY <2>2, <3>1, LateDrains
    <3>3. /\ IsFiniteSet(Late(d)') /\ Cardinality(Late(d)') <= Cardinality(Late(d))
          /\ Cardinality(Late(d)') \in Nat /\ Cardinality(Late(d)) \in Nat
          BY <3>1, <3>2, FS_Subset, FS_CardinalityType DEF FewAreLate
    <3>4. Cardinality(Late(d)) < Cardinality(Writers) BY <3>1 DEF FewAreLate
    <3>5. Cardinality(Writers) \in Nat BY SignedAssumption, FS_CardinalityType
    <3> QED BY <3>3, <3>4, <3>5
  <2> QED BY <2>1, <2>2
<1>3. FewAreLate => LateTokensAreFew
  <2> SUFFICES ASSUME FewAreLate, NEW d \in Devices, status[d] = "revoked"
               PROVE  Cardinality({t.key : t \in Live(d)}) < Cardinality(Writers)
      BY DEF LateTokensAreFew
  <2> DEFINE keys == {t.key : t \in Live(d)}
  <2>1. keys \subseteq Late(d) BY DEF Late
  <2>2. /\ Cardinality(keys) <= Cardinality(Late(d))
        /\ Cardinality(keys) \in Nat /\ Cardinality(Late(d)) \in Nat
        BY <2>1, FS_Subset, FS_CardinalityType DEF FewAreLate
  <2>3. Cardinality(Late(d)) < Cardinality(Writers) BY DEF FewAreLate
  <2>4. Cardinality(Writers) \in Nat BY SignedAssumption, FS_CardinalityType
  <2> QED BY <2>2, <2>3, <2>4
<1> QED BY <1>1, <1>2, <1>3, SignedInvariant, PTL DEF SignedSpec
=============================================================================
