------------------------- MODULE RuntimeClientProofs -------------------------
(* Theorems about the abstract approval engine of Clearance, and about the runtime     *)
(* client that works through it, for any number of calls, approvals and deciders, any  *)
(* lifetime and any number of attempts.                                                *)
EXTENDS RuntimeClient, FiniteSetTheorems, TLAPS

LEMMA ClearanceInv == Spec => []Inv
<1> USE OutcomesAssumption DEF Inv
<1>1. Init => Inv
      BY DEF Init, TypeOK, DecidersNeedARequest
<1>2. Inv /\ [Next]_vars => Inv'
  <2> SUFFICES ASSUME Inv, [Next]_vars PROVE Inv'
      OBVIOUS
  <2>1. ASSUME NEW c \in Clearances, Request(c) PROVE Inv'
        BY <2>1 DEF Request, TypeOK, DecidersNeedARequest
  <2>2. ASSUME NEW d \in Deciders, NEW C \in SUBSET Clearances, Admit(d, C) PROVE Inv'
    <3>1. TypeOK' BY <2>2 DEF Admit, TypeOK
    <3>2. DecidersNeedARequest' BY <2>2 DEF Admit, TypeOK, DecidersNeedARequest
    <3> QED BY <3>1, <3>2
  <2>3. CASE Withdraw
        BY <2>3 DEF Withdraw, TypeOK, DecidersNeedARequest
  <2>4. ASSUME NEW c \in Clearances, NEW d \in Deciders, NEW o \in Outcomes, Settle(c, d, o)
        PROVE  Inv'
        BY <2>4 DEF Settle, TypeOK, DecidersNeedARequest
  <2>5. CASE UNCHANGED vars
        BY <2>5 DEF vars, TypeOK, DecidersNeedARequest
  <2> QED BY <2>1, <2>2, <2>3, <2>4, <2>5 DEF Next
<1> QED BY <1>1, <1>2, PTL DEF Spec

\* The abstract engine stays well typed.
THEOREM ClearanceTyped == Spec => []TypeOK
<1>1. Inv => TypeOK BY DEF Inv
<1> QED BY <1>1, ClearanceInv, PTL

\* What one step may do to a settled clearance.
LEMMA SettledStep ==
  ASSUME TypeOK, [Next]_vars, NEW c \in Clearances, outcome[c] \in Outcomes
  PROVE  /\ outcome'[c] \in Outcomes
         /\ deciding'[c] \subseteq deciding[c]
         /\ outcome'[c] # outcome[c] => deciding'[c] # deciding[c]
<1> USE OutcomesAssumption
<1>1. ASSUME NEW b \in Clearances, Request(b) PROVE b # c BY <1>1 DEF Request
<1>2. ASSUME NEW b \in Clearances, Request(b)
      PROVE  outcome'[c] = outcome[c] /\ deciding'[c] = deciding[c]
      BY <1>1, <1>2 DEF Request, TypeOK
<1>3. ASSUME NEW d \in Deciders, NEW C \in SUBSET Clearances, Admit(d, C)
      PROVE  outcome'[c] = outcome[c] /\ deciding'[c] = deciding[c]
      BY <1>3 DEF Admit
<1>4. ASSUME NEW b \in Clearances, NEW d \in Deciders, NEW o \in Outcomes, Settle(b, d, o)
      PROVE  /\ outcome'[c] \in Outcomes
             /\ deciding'[c] \subseteq deciding[c]
             /\ outcome'[c] # outcome[c] => deciding'[c] # deciding[c]
      BY <1>4 DEF Settle, TypeOK
<1> QED BY <1>2, <1>3, <1>4 DEF Next, vars, Withdraw

\* The deciders of a settled clearance only drain, and every overwrite uses one up: at
\* most as many overwrites as there were threads holding a pending copy.
THEOREM ClearanceDrains == Spec => WindowDrains
<1>1. TypeOK /\ [Next]_vars => [\A c \in Clearances : outcome[c] \in Outcomes =>
                                  /\ outcome'[c] \in Outcomes
                                  /\ deciding'[c] \subseteq deciding[c]
                                  /\ outcome'[c] # outcome[c] => deciding'[c] # deciding[c]]_vars
      BY SettledStep
<1> QED BY <1>1, ClearanceTyped, PTL DEF Spec, WindowDrains

\* A settled clearance without deciders is final.
THEOREM ClearanceFinal == Spec => DrainedIsFinal
<1>1. TypeOK /\ [Next]_vars => [\A c \in Clearances :
                                  (outcome[c] \in Outcomes /\ deciding[c] = {}) =>
                                     /\ outcome'[c] = outcome[c]
                                     /\ deciding'[c] = {}]_vars
  <2> SUFFICES ASSUME TypeOK, [Next]_vars, NEW c \in Clearances,
                      outcome[c] \in Outcomes, deciding[c] = {}
               PROVE  outcome'[c] = outcome[c] /\ deciding'[c] = {}
      OBVIOUS
  <2> QED BY SettledStep
<1> QED BY <1>1, ClearanceTyped, PTL DEF Spec, DrainedIsFinal

-----------------------------------------------------------------------------
(* The runtime client.                                                     *)

\* An attempt is sent once and creates one approval at most, which its answer names.
AttemptsAreSpent ==
  /\ \A k \in Calls : pc[k] = "idle" => attempt[k] = 0
  /\ \A f \in flights : f[2] <= attempt[f[1]]
  /\ \A p \in replies : /\ p[2] <= attempt[p[1]]
                        /\ <<p[1], p[2]>> \notin flights
                        /\ for[p[3]] = p[1]
  /\ \A p, q \in replies : (p[1] = q[1] /\ p[2] = q[2]) => p[3] = q[3]

\* An approval that exists was created for a call, by one of its attempts.
CreatedByAttempt ==
  \A c \in Clearances :
    IF outcome[c] = "absent" THEN for[c] = Nobody
    ELSE \E n \in 1..RetryAttempts : <<for[c], n, c>> \in replies

\* What a call waits for was created for it and does not outlive a patient wait.
FollowsItsOwn ==
  \A k \in Calls : pc[k] \in {"wait", "list", "judge", "timedout", "cancel", "returned"} =>
    /\ followed[k] \in Clearances /\ for[followed[k]] = k
    /\ pc[k] # "returned" /\ k \in patient => life[followed[k]] <= left[k]
    /\ pc[k] \in {"timedout", "cancel"} => left[k] = 0

\* A verdict that was fetched is the outcome, or what the outcome was.
SawItsOutcome ==
  \A k \in Calls : seen[k].state \in Outcomes =>
    /\ pc[k] \notin {"idle", "post"} /\ followed[k] \in Clearances
    /\ seen[k].state = outcome[followed[k]] \/ followed[k] \in overwritten

ClientInv == /\ ClientTypeOK /\ AttemptsAreSpent /\ CreatedByAttempt
             /\ FollowsItsOwn /\ SawItsOutcome

-----------------------------------------------------------------------------
(* The gateway. *)

LEMMA ClientStepIsClearanceStep == [ClientNext]_clientVars => [Next]_vars
<1> SUFFICES ASSUME [ClientNext]_clientVars PROVE [Next]_vars
    OBVIOUS
<1>1. ASSUME NEW f \in flights, NEW c \in Clearances, Arrive(f[1], f[2], c) PROVE Next
      BY <1>1 DEF Arrive, Next
<1>2. ASSUME NEW d \in Deciders, NEW C \in SUBSET Clearances, Read(d, C) PROVE Next
      BY <1>2 DEF Read, Next
<1>3. CASE LetGo BY <1>3 DEF LetGo, Next
<1>4. ASSUME NEW c \in Clearances, NEW d \in Deciders, NEW o \in Outcomes, Decide(c, d, o)
      PROVE  Next
      BY <1>4 DEF Decide, Next
<1>5. ASSUME NEW c \in Clearances, NEW type \in ResponseTypes, Respond(c, type)
      PROVE  UNCHANGED vars
      BY <1>5 DEF Respond
<1>6. ASSUME NEW k \in Calls,
             \/ Start(k) \/ AttemptFails(k) \/ Refused(k) \/ Poll(k) \/ ListResponses(k) \/ PollFails(k)
             \/ Judge(k) \/ WaitAgain(k) \/ Cancel(k) \/ \E c \in Clearances : Answered(k, c)
      PROVE  UNCHANGED vars
      BY <1>6 DEF Start, AttemptFails, Refused, Poll, ListResponses, PollFails, Judge, WaitAgain,
                  Cancel, Answered
<1>7. CASE Tick BY <1>7 DEF Tick
<1>8. CASE UNCHANGED clientVars BY <1>8 DEF clientVars
<1> QED BY <1>1, <1>2, <1>3, <1>4, <1>5, <1>6, <1>7, <1>8 DEF ClientNext

\* However the runtime asks, retries and gives up, the gateway keeps to Clearance.
THEOREM ClientImplementsClearance == ClientSpec => Spec
<1>1. ClientInit => Init BY DEF ClientInit
<1> QED BY <1>1, ClientStepIsClearanceStep, PTL DEF ClientSpec, Spec

-----------------------------------------------------------------------------
(* The invariant. *)

LEMMA ClientInitInv == ClientInit => ClientInv
<1> SUFFICES ASSUME ClientInit PROVE ClientInv
    OBVIOUS
<1> USE ClientAssumption, OutcomesAssumption DEF ClientInit, Init
<1>1. ClientTypeOK BY DEF ClientTypeOK, Unread
<1>2. AttemptsAreSpent /\ CreatedByAttempt BY DEF AttemptsAreSpent, CreatedByAttempt
<1>3. FollowsItsOwn /\ SawItsOutcome BY DEF FollowsItsOwn, SawItsOutcome, Unread
<1> QED BY <1>1, <1>2, <1>3 DEF ClientInv

LEMMA ArriveKeeps ==
  ASSUME Inv, ClientInv, NEW f \in flights, NEW c \in Clearances, Arrive(f[1], f[2], c)
  PROVE  ClientInv'
<1> USE ClientAssumption, OutcomesAssumption DEF ClientInv, Arrive, Request, Inv, TypeOK
<1>0. PICK k \in Calls, n \in 1..RetryAttempts : f = <<k, n>>
      BY DEF ClientTypeOK
<1>1. /\ <<k, n>> \in flights /\ flights' = flights \ {<<k, n>>}
      /\ replies' = replies \cup {<<k, n, c>>} /\ for' = [for EXCEPT ![c] = k]
      BY <1>0
<1>2. ClientTypeOK'
  <2>1. flights' \subseteq Calls \X (1..RetryAttempts) BY <1>1 DEF ClientTypeOK
  <2>2. replies' \subseteq Calls \X (1..RetryAttempts) \X Clearances
        BY <1>0, <1>1 DEF ClientTypeOK
  <2>3. /\ for' \in [Clearances -> Calls \cup {Nobody}]
        /\ life' \in [Clearances -> 0..ExpiresIn]
        BY <1>1 DEF ClientTypeOK
  <2> QED BY <2>1, <2>2, <2>3 DEF ClientTypeOK
<1>3. for[c] = Nobody /\ \A j \in Calls : j # Nobody
      BY DEF CreatedByAttempt, Nobody
<1>4. AttemptsAreSpent'
  <2>1. \A p \in replies : p[3] # c
        BY <1>3 DEF AttemptsAreSpent, ClientTypeOK
  <2>2. \A p \in replies' : /\ p[2] <= attempt[p[1]]
                            /\ <<p[1], p[2]>> \notin flights'
                            /\ for'[p[3]] = p[1]
    <3>1. ASSUME NEW p \in replies
          PROVE  p[2] <= attempt[p[1]] /\ <<p[1], p[2]>> \notin flights /\ for'[p[3]] = p[1]
      <4>1. p[3] \in Clearances \ {c} BY <2>1 DEF ClientTypeOK
      <4> QED BY <1>1, <4>1 DEF AttemptsAreSpent, ClientTypeOK
    <3>2. /\ n <= attempt[k] /\ <<k, n>> \notin flights'
          /\ for'[c] = k
          BY <1>1 DEF AttemptsAreSpent, ClientTypeOK
    <3> SUFFICES ASSUME NEW p \in replies'
                 PROVE  p[2] <= attempt[p[1]] /\ <<p[1], p[2]>> \notin flights' /\ for'[p[3]] = p[1]
        OBVIOUS
    <3>3. CASE p \in replies BY <1>1, <3>1, <3>3
    <3>4. CASE p = <<k, n, c>>
      <4>1. p[1] = k /\ p[2] = n /\ p[3] = c BY <3>4
      <4> QED BY <4>1, <3>2
    <3> QED BY <1>1, <3>3, <3>4
  <2>3. \A p \in replies : ~(p[1] = k /\ p[2] = n)
        BY <1>1 DEF AttemptsAreSpent
  <2>4. \A p, q \in replies' : (p[1] = q[1] /\ p[2] = q[2]) => p[3] = q[3]
        BY <1>1, <2>3 DEF AttemptsAreSpent
  <2> QED BY <1>1, <2>2, <2>4 DEF AttemptsAreSpent
<1>5. CreatedByAttempt' BY <1>1, <1>3 DEF CreatedByAttempt, ClientTypeOK
<1>6. FollowsItsOwn' BY <1>1, <1>3 DEF FollowsItsOwn, ClientTypeOK
<1>7. SawItsOutcome'
  <2> SUFFICES ASSUME NEW j \in Calls, seen[j].state \in Outcomes
               PROVE  /\ pc[j] \notin {"idle", "post"} /\ followed[j] \in Clearances
                      /\ seen[j].state = outcome'[followed[j]] \/ followed[j] \in overwritten
      BY DEF SawItsOutcome
  <2>1. outcome'[followed[j]] = outcome[followed[j]] \/ outcome[followed[j]] = "absent"
        BY DEF SawItsOutcome
  <2> QED BY <2>1 DEF SawItsOutcome
<1> QED BY <1>2, <1>4, <1>5, <1>6, <1>7

LEMMA DeciderKeeps ==
  ASSUME Inv, ClientInv,
         \/ \E d \in Deciders, C \in SUBSET Clearances : Read(d, C)
         \/ LetGo
  PROVE  ClientInv'
<1> USE DEF ClientInv, client
<1>1. /\ UNCHANGED <<outcome, for, life, responses, overwritten, client>>
      /\ inTime' \in [Clearances -> SUBSET Deciders]
  <2>1. ASSUME NEW d \in Deciders, NEW C \in SUBSET Clearances, Read(d, C)
        PROVE  /\ UNCHANGED <<outcome, for, life, responses, overwritten, client>>
               /\ inTime' \in [Clearances -> SUBSET Deciders]
        BY <2>1 DEF Read, Admit, ClientTypeOK
  <2>2. ASSUME LetGo
        PROVE  /\ UNCHANGED <<outcome, for, life, responses, overwritten, client>>
               /\ inTime' \in [Clearances -> SUBSET Deciders]
        BY <2>2 DEF LetGo, Withdraw, ClientTypeOK
  <2> QED BY <2>1, <2>2
<1>2. ClientTypeOK' BY <1>1 DEF ClientTypeOK
<1>3. AttemptsAreSpent' /\ CreatedByAttempt' BY <1>1 DEF AttemptsAreSpent, CreatedByAttempt
<1>4. FollowsItsOwn' /\ SawItsOutcome' BY <1>1 DEF FollowsItsOwn, SawItsOutcome
<1> QED BY <1>2, <1>3, <1>4

LEMMA DecideKeeps ==
  ASSUME Inv, ClientInv, NEW c \in Clearances, NEW d \in Deciders, NEW o \in Outcomes,
         Decide(c, d, o)
  PROVE  ClientInv'
<1> USE OutcomesAssumption DEF ClientInv, Decide, Settle, Inv, TypeOK, client
<1>1. ClientTypeOK' BY DEF ClientTypeOK
<1>2. outcome[c] # "absent" BY DEF DecidersNeedARequest
<1>3. AttemptsAreSpent' /\ CreatedByAttempt'
      BY <1>2 DEF AttemptsAreSpent, CreatedByAttempt
<1>4. FollowsItsOwn' BY DEF FollowsItsOwn
<1>5. SawItsOutcome' BY DEF SawItsOutcome
<1> QED BY <1>1, <1>3, <1>4, <1>5

LEMMA RespondKeeps ==
  ASSUME Inv, ClientInv, NEW c \in Clearances, NEW type \in ResponseTypes, Respond(c, type)
  PROVE  ClientInv'
<1> USE DEF ClientInv, Respond, client, vars
<1>1. ClientTypeOK'
  <2>1. responses' \in [Clearances -> Seq(ResponseTypes)] BY DEF ClientTypeOK
  <2> QED BY <2>1 DEF ClientTypeOK
<1>2. AttemptsAreSpent' /\ CreatedByAttempt' BY DEF AttemptsAreSpent, CreatedByAttempt
<1>3. FollowsItsOwn' /\ SawItsOutcome' BY DEF FollowsItsOwn, SawItsOutcome
<1> QED BY <1>1, <1>2, <1>3

\* A new attempt has a number that nothing on its way carries yet.
LEMMA SendKeeps ==
  ASSUME Inv, ClientInv, NEW k \in Calls, Start(k) \/ AttemptFails(k)
  PROVE  ClientInv'
<1> USE ClientAssumption DEF ClientInv, vars, gateway
<1>1. /\ UNCHANGED <<vars, gateway, replies, followed, left, patient, seen, waits>>
      /\ \/ pc' = [pc EXCEPT ![k] = "failed"] /\ UNCHANGED <<attempt, flights>>
         \/ Send(k, attempt[k] + 1) /\ attempt[k] + 1 \in 1..RetryAttempts
      BY DEF Start, AttemptFails, MayRepeat, AttemptsAreSpent, ClientTypeOK
<1>2. /\ pc[k] \in {"idle", "post"}
      /\ UNCHANGED <<outcome, for, life, overwritten, replies, followed, left, patient, seen>>
      BY <1>1 DEF Start, AttemptFails
<1>3. \A j \in Calls : /\ j # k => pc'[j] = pc[j]
                       /\ j = k => pc'[j] = "post" \/ pc'[j] = "failed"
      BY <1>1 DEF Send, ClientTypeOK
<1>4. ClientTypeOK'
  <2>0. pc' \in [Calls -> {"idle", "post", "wait", "list", "judge", "cancel"} \cup Ended]
        BY <1>1 DEF Send, ClientTypeOK, Ended
  <2>1. CASE Send(k, attempt[k] + 1) /\ attempt[k] + 1 \in 1..RetryAttempts
    <3>1. flights' \subseteq Calls \X (1..RetryAttempts) /\ attempt' \in [Calls -> 0..RetryAttempts]
          BY <2>1 DEF Send, ClientTypeOK
    <3> QED BY <1>1, <2>0, <3>1 DEF ClientTypeOK
  <2>2. CASE UNCHANGED <<attempt, flights>> BY <1>1, <2>0, <2>2 DEF ClientTypeOK
  <2> QED BY <1>1, <2>1, <2>2
<1>5. AttemptsAreSpent'
  <2>1. CASE Send(k, attempt[k] + 1)
    <3> DEFINE n == attempt[k] + 1
    <3>1. /\ n \in Nat /\ attempt'[k] = n
          /\ \A j \in Calls : attempt[j] \in Nat /\ attempt'[j] \in Nat /\ attempt[j] <= attempt'[j]
          /\ flights' \subseteq flights \cup {<<k, n>>}
          BY <2>1 DEF Send, ClientTypeOK
    <3>2. \A f \in flights' : f[2] <= attempt'[f[1]]
      <4>1. \A f \in flights : f[2] <= attempt'[f[1]]
            BY <3>1 DEF AttemptsAreSpent, ClientTypeOK
      <4> QED BY <3>1, <4>1
    <3>3. ASSUME NEW p \in replies
          PROVE  p[2] <= attempt'[p[1]] /\ <<p[1], p[2]>> \notin flights' /\ for[p[3]] = p[1]
      <4>1. p[1] \in Calls /\ p[2] \in Nat BY DEF ClientTypeOK
      <4>2. p[2] <= attempt[p[1]] /\ <<p[1], p[2]>> \notin flights BY DEF AttemptsAreSpent
      <4>3. <<p[1], p[2]>> # <<k, n>> BY <3>1, <4>1, <4>2
      <4> QED BY <3>1, <4>1, <4>2, <4>3 DEF AttemptsAreSpent
    <3>4. \A j \in Calls : pc'[j] = "idle" => attempt'[j] = 0
          BY <1>3, <2>1 DEF Send, AttemptsAreSpent, ClientTypeOK
    <3> QED BY <1>2, <3>2, <3>3, <3>4 DEF AttemptsAreSpent
  <2>2. CASE UNCHANGED <<attempt, flights>>
    <3>1. \A j \in Calls : pc'[j] = "idle" => attempt'[j] = 0
          BY <1>3, <2>2 DEF AttemptsAreSpent
    <3> QED BY <1>2, <2>2, <3>1 DEF AttemptsAreSpent
  <2> QED BY <1>1, <2>1, <2>2
<1>6. CreatedByAttempt' BY <1>1 DEF CreatedByAttempt
<1>7. FollowsItsOwn' BY <1>2, <1>3 DEF FollowsItsOwn
<1>8. SawItsOutcome' BY <1>2, <1>3 DEF SawItsOutcome
<1> QED BY <1>4, <1>5, <1>6, <1>7, <1>8

LEMMA RefusedKeeps == ASSUME Inv, ClientInv, NEW k \in Calls, Refused(k) PROVE ClientInv'
<1> USE DEF ClientInv, Refused, vars, gateway
<1>1. flights' \subseteq flights OBVIOUS
<1>2. ClientTypeOK' BY <1>1 DEF ClientTypeOK, Ended
<1>3. AttemptsAreSpent' /\ CreatedByAttempt'
      BY <1>1 DEF AttemptsAreSpent, CreatedByAttempt, ClientTypeOK
<1>4. FollowsItsOwn' /\ SawItsOutcome' BY DEF FollowsItsOwn, SawItsOutcome, ClientTypeOK
<1> QED BY <1>2, <1>3, <1>4

\* The answer names an approval whose lifetime began before the wait.
LEMMA BeginKeeps ==
  ASSUME Inv, ClientInv, NEW k \in Calls,
         (\E c \in Clearances : Answered(k, c)) \/ WaitAgain(k)
  PROVE  ClientInv'
<1> USE OutcomesAssumption, ClientAssumption DEF ClientInv, vars, gateway
<1>1. PICK c \in Clearances, t \in Nat, whole \in BOOLEAN :
         /\ BeginWait(k, c, t, whole) /\ for[c] = k
         /\ whole => t >= ExpiresIn
         /\ seen[k].state \in Outcomes => c = followed[k]
  <2>1. ASSUME NEW c \in Clearances, Answered(k, c)
        PROVE  \E t \in Nat, whole \in BOOLEAN :
                 /\ BeginWait(k, c, t, whole) /\ for[c] = k
                 /\ whole => t >= ExpiresIn
                 /\ seen[k].state \notin Outcomes
    <3>1. for[c] = k /\ seen[k].state \notin Outcomes
          BY <2>1 DEF Answered, AttemptsAreSpent, SawItsOutcome
    <3>2. PICK t \in Timeouts : BeginWait(k, c, Timeout(t), t = 0 \/ t >= ExpiresIn)
          BY <2>1 DEF Answered
    <3>3. Timeout(t) \in Nat /\ (t = 0 \/ t >= ExpiresIn => Timeout(t) >= ExpiresIn)
          BY DEF Timeout
    <3> QED BY <3>1, <3>2, <3>3
  <2>2. ASSUME WaitAgain(k)
        PROVE  \E t \in Nat, whole \in BOOLEAN :
                 /\ BeginWait(k, followed[k], t, whole)
                 /\ whole => t >= ExpiresIn
    <3>1. PICK t \in Timeouts : BeginWait(k, followed[k], t, t >= ExpiresIn)
          BY <2>2 DEF WaitAgain
    <3>2. t \in Nat /\ (t >= ExpiresIn) \in BOOLEAN OBVIOUS
    <3> QED BY <3>1, <3>2
  <2>3. WaitAgain(k) => followed[k] \in Clearances /\ for[followed[k]] = k
        BY DEF WaitAgain, FollowsItsOwn
  <2> QED BY <2>1, <2>2, <2>3
<1>2. UNCHANGED <<vars, gateway, attempt, flights, replies, seen>>
      BY DEF Answered, WaitAgain
<1>3. ClientTypeOK' BY <1>1, <1>2 DEF BeginWait, ClientTypeOK
<1>4. AttemptsAreSpent' /\ CreatedByAttempt'
      BY <1>1, <1>2 DEF BeginWait, AttemptsAreSpent, CreatedByAttempt, ClientTypeOK
<1>5. FollowsItsOwn'
  <2>1. life[c] <= ExpiresIn /\ life[c] \in Nat BY DEF ClientTypeOK
  <2>2. \A j \in Calls : j # k => (j \in patient' <=> j \in patient)
        BY <1>1 DEF BeginWait
  <2>3. k \in patient' => life[c] <= t BY <1>1, <2>1 DEF BeginWait
  <2> QED BY <1>1, <1>2, <2>2, <2>3 DEF BeginWait, FollowsItsOwn, ClientTypeOK
<1>6. SawItsOutcome' BY <1>1, <1>2 DEF BeginWait, SawItsOutcome, ClientTypeOK
<1> QED BY <1>3, <1>4, <1>5, <1>6

LEMMA PollKeeps ==
  ASSUME Inv, ClientInv, NEW k \in Calls, Poll(k) \/ ListResponses(k)
  PROVE  ClientInv'
<1> USE DEF ClientInv, Poll, ListResponses, vars, gateway, Inv, TypeOK
<1>1. followed[k] \in Clearances /\ for[followed[k]] = k BY DEF FollowsItsOwn
<1>2. PICK result \in [state : {"absent", "pending"} \cup Outcomes, responses : Seq(ResponseTypes)] :
         /\ seen' = [seen EXCEPT ![k] = result]
         /\ result.state \in {outcome[followed[k]], seen[k].state}
  <2>1. CASE Poll(k)
    <3> DEFINE result == [state |-> outcome[followed[k]], responses |-> <<>>]
    <3>1. outcome[followed[k]] \in {"absent", "pending"} \cup Outcomes BY <1>1
    <3>2. result \in [state : {"absent", "pending"} \cup Outcomes, responses : Seq(ResponseTypes)]
          BY <3>1
    <3>3. seen' = [seen EXCEPT ![k] = result] BY <2>1
    <3> QED BY <3>2, <3>3
  <2>2. CASE ListResponses(k)
    <3> DEFINE result == [state |-> seen[k].state, responses |-> responses[followed[k]]]
    <3>1. result \in [state : {"absent", "pending"} \cup Outcomes, responses : Seq(ResponseTypes)]
          BY <1>1 DEF ClientTypeOK
    <3> QED BY <2>2, <3>1
  <2> QED BY <2>1, <2>2
<1>3. /\ pc' \in [Calls -> {"idle", "post", "wait", "list", "judge", "cancel"} \cup Ended]
      /\ pc[k] \in {"wait", "list", "cancel"} /\ pc'[k] \in {"list", "judge"}
      /\ \A j \in Calls : j # k => pc'[j] = pc[j]
      /\ UNCHANGED <<vars, gateway, attempt, flights, replies, followed, left, patient, waits>>
      BY DEF ClientTypeOK
<1> HIDE DEF Poll, ListResponses
<1>4. ClientTypeOK' BY <1>2, <1>3 DEF ClientTypeOK
<1>5. AttemptsAreSpent' /\ CreatedByAttempt'
      BY <1>3 DEF AttemptsAreSpent, CreatedByAttempt, ClientTypeOK
<1>6. FollowsItsOwn' BY <1>3 DEF FollowsItsOwn, ClientTypeOK
<1>7. SawItsOutcome'
  <2> SUFFICES ASSUME NEW j \in Calls, seen'[j].state \in Outcomes
               PROVE  /\ pc'[j] \notin {"idle", "post"} /\ followed[j] \in Clearances
                      /\ seen'[j].state = outcome[followed[j]] \/ followed[j] \in overwritten
      BY <1>3 DEF SawItsOutcome
  <2>1. CASE j # k
    <3>1. seen'[j] = seen[j] BY <1>2, <2>1 DEF ClientTypeOK
    <3> QED BY <1>3, <2>1, <3>1 DEF SawItsOutcome
  <2>2. CASE j = k
    <3>1. PICK x \in {outcome[followed[k]], seen[k].state} : seen'[k].state = x
          BY <1>2 DEF ClientTypeOK
    <3> QED BY <1>1, <1>3, <2>2, <3>1 DEF SawItsOutcome
  <2> QED BY <2>1, <2>2
<1> QED BY <1>4, <1>5, <1>6, <1>7

LEMMA JudgeKeeps ==
  ASSUME Inv, ClientInv, NEW k \in Calls, PollFails(k) \/ Judge(k) \/ Cancel(k)
  PROVE  ClientInv'
<1> USE DEF ClientInv, PollFails, Judge, Cancel, vars, gateway
<1>1. ClientTypeOK' BY DEF ClientTypeOK, Ended
<1>2. AttemptsAreSpent' /\ CreatedByAttempt'
      BY DEF AttemptsAreSpent, CreatedByAttempt, ClientTypeOK
<1>3. FollowsItsOwn' BY DEF FollowsItsOwn, ClientTypeOK
<1>4. SawItsOutcome' BY DEF SawItsOutcome, ClientTypeOK
<1> QED BY <1>1, <1>2, <1>3, <1>4

LEMMA TickKeeps == ASSUME Inv, ClientInv, Tick PROVE ClientInv'
<1> USE ClientAssumption DEF ClientInv, Tick, vars
<1>1. ClientTypeOK'
  <2>1. /\ life' \in [Clearances -> 0..ExpiresIn] /\ left' \in [Calls -> Nat]
        BY DEF ClientTypeOK, Less
  <2> QED BY <2>1 DEF ClientTypeOK
<1>2. AttemptsAreSpent' /\ CreatedByAttempt' BY DEF AttemptsAreSpent, CreatedByAttempt
<1>3. FollowsItsOwn'
  <2>1. ASSUME NEW k \in Calls, followed[k] \in Clearances
        PROVE  /\ life[followed[k]] <= left[k] => life'[followed[k]] <= left'[k]
               /\ left[k] = 0 => left'[k] = 0
        BY <2>1 DEF ClientTypeOK, Less
  <2> QED BY <2>1 DEF FollowsItsOwn
<1>4. SawItsOutcome' BY DEF SawItsOutcome
<1> QED BY <1>1, <1>2, <1>3, <1>4

LEMMA ClientInvariant == ClientSpec => [](Inv /\ ClientInv)
<1>1. Inv /\ ClientInv /\ [ClientNext]_clientVars => ClientInv'
  <2> SUFFICES ASSUME Inv, ClientInv, [ClientNext]_clientVars PROVE ClientInv'
      OBVIOUS
  <2>1. CASE UNCHANGED clientVars
    <3> USE <2>1 DEF clientVars, vars, gateway, client, ClientInv
    <3>1. ClientTypeOK' BY DEF ClientTypeOK
    <3>2. AttemptsAreSpent' /\ CreatedByAttempt' BY DEF AttemptsAreSpent, CreatedByAttempt
    <3>3. FollowsItsOwn' /\ SawItsOutcome' BY DEF FollowsItsOwn, SawItsOutcome
    <3> QED BY <3>1, <3>2, <3>3
  <2> QED BY <2>1, ArriveKeeps, DeciderKeeps, DecideKeeps, RespondKeeps, SendKeeps,
             RefusedKeeps, BeginKeeps, PollKeeps, JudgeKeeps, TickKeeps DEF ClientNext
<1> QED BY <1>1, ClientInitInv, ClientImplementsClearance, ClearanceInv, PTL DEF ClientSpec

-----------------------------------------------------------------------------
(* The properties. *)

\* Type correctness, for any number of calls, approvals, deciders and attempts.
THEOREM ClientTyped == ClientSpec => []ClientTypeOK
<1>1. Inv /\ ClientInv => ClientTypeOK BY DEF ClientInv
<1> QED BY <1>1, ClientInvariant, PTL

\* A call leaves at most retry_attempts approvals (_request).
THEOREM ClientLeavesFewDuplicates == ClientSpec => []FewDuplicates
<1>1. Inv /\ ClientInv => FewDuplicates
  <2> SUFFICES ASSUME ClientInv, NEW k \in Calls
               PROVE  Cardinality({c \in Clearances : for[c] = k}) <= RetryAttempts
      BY DEF FewDuplicates
  <2> USE ClientAssumption DEF ClientInv
  <2> DEFINE made == {c \in Clearances : for[c] = k}
             used == {n \in 1..RetryAttempts : \E c \in made : <<k, n, c>> \in replies}
             f == [n \in used |-> CHOOSE c \in made : <<k, n, c>> \in replies]
  <2>1. \A c \in made : \E n \in used : <<k, n, c>> \in replies
        BY DEF CreatedByAttempt, Nobody
  <2>2. ASSUME NEW n \in used, NEW c \in made, <<k, n, c>> \in replies PROVE f[n] = c
    <3>1. f[n] \in made /\ <<k, n, f[n]>> \in replies BY <2>2
    <3> QED BY <2>2, <3>1 DEF AttemptsAreSpent
  <2>3. f \in Surjection(used, made)
    <3>1. \A n \in used : f[n] \in made OBVIOUS
    <3>2. \A c \in made : \E n \in used : f[n] = c BY <2>1, <2>2
    <3> QED BY <3>1, <3>2 DEF Surjection
  <2>4. /\ IsFiniteSet(1..RetryAttempts) /\ Cardinality(1..RetryAttempts) = RetryAttempts
        BY FS_Interval
  <2>5. IsFiniteSet(used) /\ Cardinality(used) <= RetryAttempts
    <3>1. used \subseteq 1..RetryAttempts OBVIOUS
    <3> QED BY <2>4, <3>1, FS_Subset
  <2>6. IsFiniteSet(made) /\ Cardinality(made) <= Cardinality(used)
        BY <2>3, <2>5, FS_Surjection
  <2>7. Cardinality(made) \in Nat /\ Cardinality(used) \in Nat
        BY <2>5, <2>6, FS_CardinalityType
  <2> QED BY <2>5, <2>6, <2>7
<1> QED BY <1>1, ClientInvariant, PTL

\* What a wait returns is the outcome of an approval of its own call (_wait).
THEOREM ClientVerdictStands == ClientSpec => []VerdictStands
<1>1. Inv /\ ClientInv => VerdictStands
      BY DEF ClientInv, FollowsItsOwn, SawItsOutcome, VerdictStands
<1> QED BY <1>1, ClientInvariant, PTL

\* Once a runtime that meant to wait for the lifetime of its approval has given up, no
\* further decision about it arrives in time, however the clocks and the calls interleave.
THEOREM ClientGivenUpIsOver == ClientSpec => GivenUpIsOver
<1>1. Inv /\ ClientInv /\ [ClientNext]_clientVars =>
        [\A k \in patient : pc[k] \in {"timedout", "cancel"} =>
           inTime'[followed[k]] \subseteq inTime[followed[k]]]_clientVars
  <2> SUFFICES ASSUME ClientInv, ClientNext, NEW k \in patient, pc[k] \in {"timedout", "cancel"}
               PROVE  inTime'[followed[k]] \subseteq inTime[followed[k]]
      OBVIOUS
  <2> USE DEF ClientInv
  <2>1. followed[k] \in Clearances /\ ~(life[followed[k]] > 0)
    <3>1. /\ followed[k] \in Clearances /\ life[followed[k]] <= left[k] /\ left[k] = 0
          BY DEF FollowsItsOwn, ClientTypeOK
    <3>2. life[followed[k]] \in Nat BY <3>1, ClientAssumption DEF ClientTypeOK
    <3> QED BY <3>1, <3>2
  <2>2. ASSUME NEW d \in Deciders, NEW C \in SUBSET Clearances, Read(d, C)
        PROVE  inTime'[followed[k]] = inTime[followed[k]]
        BY <2>1, <2>2 DEF Read
  <2>3. CASE LetGo BY <2>1, <2>3 DEF LetGo
  <2>4. ASSUME NEW c \in Clearances, NEW d \in Deciders, NEW o \in Outcomes, Decide(c, d, o)
        PROVE  inTime'[followed[k]] \subseteq inTime[followed[k]]
        BY <2>1, <2>4 DEF Decide, ClientTypeOK
  <2>5. ASSUME NEW f \in flights, NEW c \in Clearances, Arrive(f[1], f[2], c)
        PROVE  inTime' = inTime
        BY <2>5 DEF Arrive
  <2>6. ASSUME NEW c \in Clearances, NEW type \in ResponseTypes, Respond(c, type)
        PROVE  inTime' = inTime
        BY <2>6 DEF Respond
  <2>7. ASSUME NEW j \in Calls,
               \/ Start(j) \/ AttemptFails(j) \/ Refused(j) \/ Poll(j) \/ ListResponses(j) \/ PollFails(j)
               \/ Judge(j) \/ WaitAgain(j) \/ Cancel(j) \/ \E c \in Clearances : Answered(j, c)
        PROVE  inTime' = inTime
        BY <2>7 DEF Start, AttemptFails, Refused, Poll, ListResponses, PollFails, Judge, WaitAgain,
                    Cancel, Answered, gateway
  <2>8. CASE Tick BY <2>8 DEF Tick
  <2> QED BY <2>2, <2>3, <2>4, <2>5, <2>6, <2>7, <2>8 DEF ClientNext
<1> QED BY <1>1, ClientInvariant, PTL DEF ClientSpec, GivenUpIsOver
=============================================================================
