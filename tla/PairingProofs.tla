---------------------------- MODULE PairingProofs ----------------------------
(***************************************************************************)
(* Theorems about Pairing, for any number of threads, pairings, devices    *)
(* and restarts.                                                           *)
(***************************************************************************)
EXTENDS Pairing, FiniteSetTheorems, TLAPS

\* Where a thread that goes on to complete its pairing may be.
Holding    == {"judge", "expire", "check", "device", "access", "refresh", "complete"}
Completing == {"check", "device", "access", "refresh", "complete"}
Registered == {"access", "refresh", "complete", "audit", "event"}

\* A busy thread serves a pairing that exists, and began in the past.
HasTarget(w) ==
  /\ pc[w] = "idle" => job[w] = NoJob
  /\ pc[w] # "idle" => /\ job[w].id \in Pairings
                       /\ pairings[job[w].id].status # "absent"
                       /\ job[w].begun <= clock

\* Between its SELECT and its UPDATE a thread holds the pairing for pending.
SeenFollowsPc(w) ==
  /\ pc[w] \in Holding    => job[w].seen = {job[w].id}
  /\ pc[w] \notin Holding => job[w].seen = {}

\* Only the two calls about a pairing read it and judge its deadline.
OpFollowsPc(w) == pc[w] \in {"read", "judge"} => job[w].op \in {"get", "complete"}

\* A thread past the deadline check is completing, and its call came in time.
IsTimely(w) == pc[w] \in Completing => /\ job[w].op = "complete"
                                       /\ job[w].begun < pairings[job[w].id].expiresAt

\* The device of a thread is its pairing's, with the tokens made so far.
HasDevice(w) ==
  /\ pc[w] \in Registered => /\ job[w].device \in Devices
                             /\ owner[job[w].device] = job[w].id
  /\ pc[w] \in Registered \ {"access"} => <<job[w].device, "access">> \in tokens
  /\ pc[w] \in {"complete", "audit", "event"} => <<job[w].device, "refresh">> \in tokens
  /\ pc[w] = "event" => <<"device_registered", job[w].device>> \in audit

LocalOK(w) == /\ HasTarget(w) /\ SeenFollowsPc(w) /\ OpFollowsPc(w)
              /\ IsTimely(w) /\ HasDevice(w)

Inv == /\ TypeOK
       /\ \A w \in Workers : LocalOK(w)
       /\ CompletedHasDevice /\ AnsweredIsAudited

-----------------------------------------------------------------------------
(* Typing and frames *)

LEMMA NoJobTyped == NoJob \in Job
BY ConstantsAssumption DEF NoJob, Job

\* A step of w's own leaves the other threads alone and makes its new job the next one.
LEMMA GotoStep ==
  ASSUME TypeOK, NEW w \in Workers, NEW label \in Labels, NEW j \in Job, Goto(w, label, j)
  PROVE  /\ pc' \in [Workers -> Labels] /\ job' \in [Workers -> Job]
         /\ pc'[w] = label /\ job'[w] = j
         /\ \A v \in Workers : v # w => pc'[v] = pc[v] /\ job'[v] = job[v]
BY DEF TypeOK, Goto

\* What every step does to the tables and the clock: they only move forward, and a
\* device stays with the pairing that registered it.
Forward ==
  /\ clock <= clock'
  /\ tokens \subseteq tokens' /\ audit \subseteq audit'
  /\ \A d \in Devices : owner[d] # None => owner'[d] = owner[d]
  /\ \A p \in Pairings : pairings[p].status # "absent" =>
       pairings'[p].status # "absent" /\ pairings'[p].expiresAt = pairings[p].expiresAt

\* A thread that does not step keeps its invariant while the tables move forward.
LEMMA OthersKeepLocalOK ==
  ASSUME TypeOK, TypeOK', Forward, NEW v \in Workers, LocalOK(v),
         pc'[v] = pc[v], job'[v] = job[v]
  PROVE  LocalOK(v)'
<1>0. clock \in Nat /\ clock' \in Nat /\ job[v] \in Job /\ job[v].begun \in Nat
      BY ConstantsAssumption DEF TypeOK, Job
<1>1. HasTarget(v)' BY <1>0 DEF Forward, LocalOK, HasTarget
<1>2. SeenFollowsPc(v)' /\ OpFollowsPc(v)' BY DEF LocalOK, SeenFollowsPc, OpFollowsPc
<1>3. IsTimely(v)' BY DEF Forward, LocalOK, HasTarget, IsTimely, Completing
<1>4. HasDevice(v)'
  <2>1. pc[v] \in Registered => /\ job[v].device \in Devices
                                /\ owner[job[v].device] = job[v].id
                                /\ job[v].id \in Pairings
        BY DEF LocalOK, HasTarget, HasDevice, Registered
  <2>2. pc[v] \in Registered => owner'[job[v].device] = job[v].id
        BY <2>1, ConstantsAssumption DEF Forward
  <2> QED BY <2>1, <2>2 DEF Forward, LocalOK, HasDevice
<1> QED BY <1>1, <1>2, <1>3, <1>4 DEF LocalOK

\* A step of one thread keeps the invariant if the tables move forward, what it
\* completes has its device, and what it answers is audited.
LEMMA OneThreadSteps ==
  ASSUME Inv, TypeOK', Forward, NEW w \in Workers, LocalOK(w)',
         \A v \in Workers : v # w => pc'[v] = pc[v] /\ job'[v] = job[v],
         \A p \in Pairings : pairings'[p].status = "completed" =>
           \/ pairings[p].status = "completed"
           \/ \E d \in DevicesOf(p) : Usable(d),
         \A d \in answered' : \/ d \in answered
                              \/ owner[d] # None /\ Usable(d)
                                   /\ <<"device_registered", d>> \in audit
  PROVE  Inv'
<1>1. \A v \in Workers : LocalOK(v)' BY OthersKeepLocalOK DEF Inv
<1>2. \A d \in Devices : Usable(d) => Usable(d)' BY DEF Forward, Usable
<1>3. \A p \in Pairings : DevicesOf(p) \subseteq DevicesOf(p)'
      BY ConstantsAssumption DEF Forward, DevicesOf
<1>4. CompletedHasDevice'
  <2> SUFFICES ASSUME NEW p \in Pairings, pairings'[p].status = "completed"
               PROVE  \E d \in DevicesOf(p)' : Usable(d)'
      BY DEF CompletedHasDevice
  <2>1. PICK d \in DevicesOf(p) : Usable(d) BY DEF Inv, CompletedHasDevice
  <2>2. d \in Devices BY DEF DevicesOf
  <2> QED BY <1>2, <1>3, <2>1, <2>2
<1>5. AnsweredIsAudited'
  <2> SUFFICES ASSUME NEW d \in answered'
               PROVE  /\ owner'[d] # None /\ Usable(d)'
                      /\ <<"device_registered", d>> \in audit'
      BY DEF AnsweredIsAudited
  <2>1. d \in Devices BY DEF TypeOK
  <2>2. owner[d] # None /\ Usable(d) /\ <<"device_registered", d>> \in audit
        BY DEF Inv, AnsweredIsAudited
  <2> QED BY <1>2, <2>1, <2>2 DEF Forward
<1> QED BY <1>1, <1>4, <1>5 DEF Inv

\* A step that touches no table but the audit log, and answers nobody.
LEMMA QuietStep ==
  ASSUME Inv, NEW w \in Workers, NEW label \in Labels, NEW j \in Job, Goto(w, label, j),
         UNCHANGED <<pairings, owner, tokens, events, answered, clock, crashes>>,
         audit \subseteq audit', TypeOK => audit' \subseteq
            ({"pairing_started", "pairing_rejected"} \X Pairings)
               \cup ({"device_registered"} \X Devices),
         LocalOK(w)'
  PROVE  Inv'
<1>1. TypeOK BY DEF Inv
<1>2. TypeOK' BY <1>1, GotoStep DEF TypeOK
<1>3. Forward BY <1>1, ConstantsAssumption DEF TypeOK, Forward
<1> QED BY <1>1, <1>2, <1>3, GotoStep, OneThreadSteps

\* A busy thread's locals.
LEMMA BusyJob ==
  ASSUME Inv, NEW w \in Workers, pc[w] # "idle"
  PROVE  /\ LocalOK(w) /\ job[w] \in Job /\ job[w].id \in Pairings
         /\ pairings[job[w].id].status # "absent"
         /\ job[w].begun <= clock /\ job[w].begun \in Nat /\ clock \in Nat
         /\ pairings[job[w].id].expiresAt \in Nat
<1>1. LocalOK(w) /\ job[w] \in Job /\ job[w].id \in Pairings BY DEF Inv, LocalOK, HasTarget, TypeOK
<1>2. pairings[job[w].id].expiresAt \in Deadlines \cup {0} BY <1>1 DEF Inv, TypeOK
<1>3. Deadlines \cup {0} \subseteq Nat BY ConstantsAssumption
<1>4. job[w].begun \in Nat /\ clock \in Nat
      BY <1>1, ConstantsAssumption DEF Inv, TypeOK, Job
<1> QED BY <1>1, <1>2, <1>3, <1>4 DEF LocalOK, HasTarget

\* An idle thread owes nothing.
LEMMA IdleOK ==
  ASSUME NEW w \in Workers, pc'[w] = "idle", job'[w] = NoJob
  PROVE  LocalOK(w)'
BY DEF LocalOK, HasTarget, SeenFollowsPc, OpFollowsPc, IsTimely, HasDevice, Holding, Completing,
       Registered, NoJob

-----------------------------------------------------------------------------
(* One lemma per action or kind of action: it keeps the invariant *)

LEMMA StartStep ==
  ASSUME Inv, NEW w \in Workers, NEW p \in Pairings, NEW t \in Deadlines, Start(w, p, t)
  PROVE  Inv'
<1> DEFINE j == [NoJob EXCEPT !.op = "start", !.id = p, !.begun = clock]
<1>1. TypeOK BY DEF Inv
<1>2. j \in Job /\ j.id = p /\ j.seen = {} /\ j.begun = clock
      BY <1>1, NoJobTyped DEF TypeOK, Job, NoJob
<1>3. Goto(w, "auditStart", j) /\ "auditStart" \in Labels BY DEF Start, Labels
<1>4. /\ pairings' = [pairings EXCEPT ![p] = [status |-> "pending", expiresAt |-> t]]
      /\ pairings[p].status = "absent"
      /\ UNCHANGED <<owner, tokens, audit, events, answered, clock, crashes>>
      BY DEF Start
<1>5. TypeOK' BY <1>1, <1>2, <1>3, <1>4, GotoStep DEF TypeOK, Statuses
<1>6. Forward BY <1>1, <1>4, ConstantsAssumption DEF TypeOK, Forward
<1>7. LocalOK(w)'
  <2>1. pc'[w] = "auditStart" /\ job'[w] = j BY <1>1, <1>2, <1>3, GotoStep
  <2>2. pairings'[p].status = "pending" BY <1>1, <1>4 DEF TypeOK
  <2>3. clock \in Nat BY <1>1, ConstantsAssumption DEF TypeOK
  <2> QED BY <1>2, <1>4, <2>1, <2>2, <2>3
       DEF LocalOK, HasTarget, SeenFollowsPc, OpFollowsPc, IsTimely, HasDevice, Holding, Completing,
           Registered
<1>8. \A q \in Pairings : pairings'[q].status = "completed" => pairings[q].status = "completed"
      BY <1>1, <1>4 DEF TypeOK
<1> QED BY <1>1, <1>2, <1>3, <1>4, <1>5, <1>6, <1>7, <1>8, GotoStep, OneThreadSteps

LEMMA BeginKeeps ==
  ASSUME Inv, NEW w \in Workers, NEW op \in {"get", "complete"}, NEW p \in Pairings,
         NEW right \in BOOLEAN, Begin(w, op, p, right)
  PROVE  Inv'
<1> DEFINE j == [NoJob EXCEPT !.op = op, !.id = p, !.right = right, !.begun = clock]
<1>1. TypeOK BY DEF Inv
<1>2. j \in Job /\ j.id = p /\ j.seen = {} /\ j.begun = clock /\ j.op = op
      BY <1>1, NoJobTyped DEF TypeOK, Job, NoJob
<1>3. Goto(w, "read", j) /\ "read" \in Labels BY DEF Begin, Labels
<1>4. UNCHANGED <<tables, answered, clock, crashes>> /\ pairings[p].status # "absent"
      BY DEF Begin
<1>5. pc'[w] = "read" /\ job'[w] = j BY <1>1, <1>2, <1>3, GotoStep
<1>6. clock \in Nat BY <1>1, ConstantsAssumption DEF TypeOK
<1>7. LocalOK(w)'
      BY <1>2, <1>4, <1>5, <1>6
      DEF LocalOK, HasTarget, SeenFollowsPc, OpFollowsPc, IsTimely, HasDevice, Holding, Completing,
          Registered, tables
<1> QED BY <1>2, <1>3, <1>4, <1>7, QuietStep DEF tables, TypeOK

\* Returning, with at most an audit record about the pairing left behind.
LEMMA ReturnStep ==
  ASSUME Inv, NEW w \in Workers, Return(w),
         UNCHANGED <<pairings, owner, tokens, events, answered, clock, crashes>>,
         audit' = audit \/ (\E what \in {"pairing_started", "pairing_rejected"} :
                              audit' = audit \cup {<<what, job[w].id>>}),
         pc[w] # "idle"
  PROVE  Inv'
<1>1. Goto(w, "idle", NoJob) /\ NoJob \in Job /\ "idle" \in Labels
      BY NoJobTyped DEF Return, Labels
<1>2. LocalOK(w)' BY <1>1, GotoStep, IdleOK DEF Inv
<1>3. job[w].id \in Pairings BY BusyJob
<1> QED BY <1>1, <1>2, <1>3, QuietStep DEF TypeOK

LEMMA ReadStep == ASSUME Inv, NEW w \in Workers, Read(w) PROVE Inv'
<1>1. /\ pc[w] = "read"
      /\ UNCHANGED <<pairings, owner, tokens, audit, events, answered, clock, crashes>>
      BY DEF Read, tables
<1>2. CASE pairings[job[w].id].status = "pending"
  <2> DEFINE j == [job[w] EXCEPT !.seen = {job[w].id}]
  <2>1. Goto(w, "judge", j) /\ "judge" \in Labels BY <1>2 DEF Read, Labels
  <2>2. /\ j \in Job /\ j.id = job[w].id /\ j.seen = {job[w].id}
        /\ j.begun = job[w].begun /\ j.op = job[w].op
        BY <1>1, BusyJob DEF Job
  <2>3. pc'[w] = "judge" /\ job'[w] = j BY <2>1, <2>2, GotoStep DEF Inv
  <2>4. LocalOK(w)'
        BY <1>1, <2>2, <2>3, BusyJob
        DEF LocalOK, HasTarget, SeenFollowsPc, OpFollowsPc, IsTimely, HasDevice, Holding, Completing,
            Registered
  <2> QED BY <1>1, <2>1, <2>2, <2>4, QuietStep DEF TypeOK
<1>3. CASE pairings[job[w].id].status # "pending"
      BY <1>1, <1>3, ReturnStep DEF Read
<1> QED BY <1>2, <1>3

LEMMA JudgeStep == ASSUME Inv, NEW w \in Workers, Judge(w) PROVE Inv'
<1>1. /\ pc[w] = "judge"
      /\ UNCHANGED <<pairings, owner, tokens, audit, events, answered, clock, crashes>>
      BY DEF Judge, tables
<1>2. job[w].seen = {job[w].id} BY <1>1, BusyJob DEF LocalOK, SeenFollowsPc, Holding
<1>3. CASE Expired(job[w].id)
  <2>1. Goto(w, "expire", job[w]) /\ "expire" \in Labels BY <1>1, <1>3 DEF Judge, Labels
  <2>2. pc'[w] = "expire" /\ job'[w] = job[w] BY <1>1, <2>1, GotoStep, BusyJob DEF Inv
  <2>3. LocalOK(w)'
        BY <1>1, <1>2, <2>2, BusyJob
        DEF LocalOK, HasTarget, SeenFollowsPc, OpFollowsPc, IsTimely, HasDevice, Holding, Completing,
            Registered
  <2> QED BY <1>1, <2>1, <2>3, BusyJob, QuietStep DEF TypeOK
<1>4. CASE ~Expired(job[w].id) /\ job[w].op = "complete"
  <2>1. Goto(w, "check", job[w]) /\ "check" \in Labels BY <1>1, <1>4 DEF Judge, Labels
  <2>2. pc'[w] = "check" /\ job'[w] = job[w] BY <1>1, <2>1, GotoStep, BusyJob DEF Inv
  <2>3. job[w].begun < pairings[job[w].id].expiresAt
        BY <1>1, <1>4, BusyJob DEF Expired
  <2>4. LocalOK(w)'
        BY <1>1, <1>2, <1>4, <2>2, <2>3, BusyJob
        DEF LocalOK, HasTarget, SeenFollowsPc, OpFollowsPc, IsTimely, HasDevice, Holding, Completing,
            Registered
  <2> QED BY <1>1, <2>1, <2>4, BusyJob, QuietStep DEF TypeOK
<1>5. CASE ~Expired(job[w].id) /\ job[w].op # "complete"
  <2>1. job[w].op = "get" BY <1>1, <1>5, BusyJob DEF LocalOK, OpFollowsPc
  <2>2. Return(w) BY <1>1, <1>5, <2>1 DEF Judge
  <2> QED BY <1>1, <2>2, ReturnStep
<1> QED BY <1>3, <1>4, <1>5

\* UPDATE pairing_sessions SET status = ? keeps the table typed.
LEMMA StatusTyped ==
  ASSUME TypeOK, NEW p \in Pairings, NEW status \in Statuses
  PROVE  [pairings EXCEPT ![p].status = status]
           \in [Pairings -> [status : Statuses, expiresAt : Deadlines \cup {0}]]
BY DEF TypeOK

LEMMA ExpireStep == ASSUME Inv, NEW w \in Workers, Expire(w) PROVE Inv'
<1>1. /\ pc[w] = "expire" /\ Goto(w, "idle", NoJob)
      /\ pairings' = [pairings EXCEPT ![job[w].id].status = "expired"]
      /\ UNCHANGED <<owner, tokens, audit, events, answered, clock, crashes>>
      BY DEF Expire, Return
<1>2. TypeOK /\ job[w].id \in Pairings BY <1>1, BusyJob DEF Inv
<1>3. NoJob \in Job /\ "idle" \in Labels BY NoJobTyped DEF Labels
<1>4. TypeOK'
  <2>1. pairings' \in [Pairings -> [status : Statuses, expiresAt : Deadlines \cup {0}]]
        BY <1>1, <1>2, StatusTyped DEF Statuses, Over
  <2> QED BY <1>1, <1>2, <1>3, <2>1, GotoStep DEF TypeOK
<1>5. Forward BY <1>1, <1>2, ConstantsAssumption DEF TypeOK, Forward
<1>6. \A p \in Pairings : pairings'[p].status = "completed" => pairings[p].status = "completed"
      BY <1>1, <1>2 DEF TypeOK
<1>7. LocalOK(w)' BY <1>1, <1>2, <1>3, GotoStep, IdleOK
<1> QED BY <1>1, <1>2, <1>3, <1>4, <1>5, <1>6, <1>7, GotoStep, OneThreadSteps

LEMMA CheckStep == ASSUME Inv, NEW w \in Workers, Check(w) PROVE Inv'
<1>1. /\ pc[w] = "check"
      /\ UNCHANGED <<pairings, owner, tokens, audit, events, answered, clock, crashes>>
      BY DEF Check, tables
<1>2. /\ job[w].seen = {job[w].id} /\ job[w].op = "complete"
      /\ job[w].begun < pairings[job[w].id].expiresAt
      BY <1>1, BusyJob DEF LocalOK, SeenFollowsPc, IsTimely, Holding, Completing
<1>3. CASE job[w].right
  <2>1. Goto(w, "device", job[w]) /\ "device" \in Labels BY <1>3 DEF Check, Labels
  <2>2. pc'[w] = "device" /\ job'[w] = job[w] BY <1>1, <2>1, GotoStep, BusyJob DEF Inv
  <2>3. LocalOK(w)'
        BY <1>1, <1>2, <2>2, BusyJob
        DEF LocalOK, HasTarget, SeenFollowsPc, OpFollowsPc, IsTimely, HasDevice, Holding,
            Completing, Registered
  <2> QED BY <1>1, <2>1, <2>3, BusyJob, QuietStep DEF TypeOK
<1>4. CASE ~job[w].right
  <2> DEFINE j == [job[w] EXCEPT !.seen = {}]
  <2>1. Goto(w, "reject", j) /\ "reject" \in Labels BY <1>4 DEF Check, Labels
  <2>2. j \in Job /\ j.id = job[w].id /\ j.seen = {} /\ j.begun = job[w].begun
        BY <1>1, BusyJob DEF Job
  <2>3. pc'[w] = "reject" /\ job'[w] = j BY <2>1, <2>2, GotoStep DEF Inv
  <2>4. LocalOK(w)'
        BY <1>1, <2>2, <2>3, BusyJob
        DEF LocalOK, HasTarget, SeenFollowsPc, OpFollowsPc, IsTimely, HasDevice, Holding,
            Completing, Registered
  <2> QED BY <1>1, <2>1, <2>2, <2>4, QuietStep DEF TypeOK
<1> QED BY <1>3, <1>4

LEMMA CreateDeviceStep ==
  ASSUME Inv, NEW w \in Workers, NEW d \in Devices, CreateDevice(w, d)
  PROVE  Inv'
<1> DEFINE j == [job[w] EXCEPT !.device = d]
<1>1. /\ pc[w] = "device" /\ Goto(w, "access", j) /\ "access" \in Labels
      /\ owner[d] = None /\ owner' = [owner EXCEPT ![d] = job[w].id]
      /\ UNCHANGED <<pairings, tokens, audit, events, answered, clock, crashes>>
      BY DEF CreateDevice, Labels
<1>2. TypeOK /\ job[w] \in Job /\ job[w].id \in Pairings BY <1>1, BusyJob DEF Inv
<1>3. /\ j \in Job /\ j.id = job[w].id /\ j.seen = job[w].seen /\ j.device = d
      /\ j.begun = job[w].begun /\ j.op = job[w].op
      BY <1>2 DEF Job
<1>4. TypeOK' BY <1>1, <1>2, <1>3, GotoStep DEF TypeOK
<1>5. Forward BY <1>1, <1>2, ConstantsAssumption DEF TypeOK, Forward
<1>6. pc'[w] = "access" /\ job'[w] = j BY <1>1, <1>2, <1>3, GotoStep
<1>7. owner'[d] = job[w].id BY <1>1, <1>2 DEF TypeOK
<1>8. /\ job[w].seen = {job[w].id} /\ job[w].op = "complete"
      /\ job[w].begun < pairings[job[w].id].expiresAt
      /\ pairings[job[w].id].status # "absent" /\ job[w].begun <= clock
      BY <1>1, BusyJob DEF LocalOK, SeenFollowsPc, IsTimely, Holding, Completing
<1>9. UNCHANGED <<pairings, tokens, audit, clock>> BY <1>1
<1>10. LocalOK(w)'
      BY <1>2, <1>3, <1>6, <1>7, <1>8, <1>9
      DEF LocalOK, HasTarget, SeenFollowsPc, OpFollowsPc, IsTimely, HasDevice, Holding,
            Completing, Registered
<1> QED BY <1>1, <1>2, <1>3, <1>4, <1>5, <1>10, GotoStep, OneThreadSteps

LEMMA CreateTokenStep ==
  ASSUME Inv, NEW w \in Workers,
         NEW kind \in Kinds, NEW next \in {"refresh", "complete"}, CreateToken(w, kind, next),
         kind = "access" <=> next = "refresh"
  PROVE  Inv'
<1> USE DEF Kinds
<1>1. /\ pc[w] = kind /\ pc[w] # "idle" /\ Goto(w, next, job[w]) /\ next \in Labels
      /\ tokens' = tokens \cup {<<job[w].device, kind>>}
      /\ UNCHANGED <<pairings, owner, audit, events, answered, clock, crashes>>
      BY DEF CreateToken, Labels
<1>2. TypeOK /\ job[w] \in Job BY <1>1, BusyJob DEF Inv
<1>3. job[w].device \in Devices /\ owner[job[w].device] = job[w].id
      BY <1>1, BusyJob DEF LocalOK, HasDevice, Registered
<1>4. TypeOK' BY <1>1, <1>2, <1>3, GotoStep DEF TypeOK
<1>5. Forward BY <1>1, <1>2, ConstantsAssumption DEF TypeOK, Forward
<1>6. pc'[w] = next /\ job'[w] = job[w] BY <1>1, <1>2, GotoStep
<1>7. LocalOK(w)'
      BY <1>1, <1>3, <1>6, BusyJob
      DEF LocalOK, HasTarget, SeenFollowsPc, OpFollowsPc, IsTimely, HasDevice, Holding,
            Completing, Registered
<1> QED BY <1>1, <1>2, <1>4, <1>5, <1>7, GotoStep, OneThreadSteps

LEMMA CompleteStep == ASSUME Inv, NEW w \in Workers, Complete(w) PROVE Inv'
<1> DEFINE j == [job[w] EXCEPT !.seen = {}]
<1>1. /\ pc[w] = "complete" /\ Goto(w, "audit", j) /\ "audit" \in Labels
      /\ pairings' = [pairings EXCEPT ![job[w].id].status = "completed"]
      /\ UNCHANGED <<owner, tokens, audit, events, answered, clock, crashes>>
      BY DEF Complete, Labels
<1>2. TypeOK /\ job[w] \in Job /\ job[w].id \in Pairings BY <1>1, BusyJob DEF Inv
<1>3. /\ j \in Job /\ j.id = job[w].id /\ j.seen = {} /\ j.device = job[w].device
      /\ j.begun = job[w].begun /\ j.op = job[w].op
      BY <1>2 DEF Job
<1>4. /\ job[w].device \in Devices /\ owner[job[w].device] = job[w].id
      /\ <<job[w].device, "access">> \in tokens /\ <<job[w].device, "refresh">> \in tokens
      BY <1>1, BusyJob DEF LocalOK, HasDevice, Registered
<1>5. TypeOK'
  <2>1. pairings' \in [Pairings -> [status : Statuses, expiresAt : Deadlines \cup {0}]]
        BY <1>1, <1>2, StatusTyped DEF Statuses, Over
  <2> QED BY <1>1, <1>2, <1>3, <2>1, GotoStep DEF TypeOK
<1>6. Forward BY <1>1, <1>2, ConstantsAssumption DEF TypeOK, Forward
<1>7. job[w].device \in DevicesOf(job[w].id) /\ Usable(job[w].device)
      BY <1>4 DEF DevicesOf, Usable, Kinds
<1>8. \A p \in Pairings : pairings'[p].status = "completed" =>
        pairings[p].status = "completed" \/ \E d \in DevicesOf(p) : Usable(d)
  <2> SUFFICES ASSUME NEW p \in Pairings, pairings'[p].status = "completed"
               PROVE  pairings[p].status = "completed" \/ \E d \in DevicesOf(p) : Usable(d)
      OBVIOUS
  <2>1. CASE p = job[w].id BY <1>7, <2>1
  <2>2. CASE p # job[w].id BY <1>1, <1>2, <2>2 DEF TypeOK
  <2> QED BY <2>1, <2>2
<1>9. LocalOK(w)'
  <2>1. pc'[w] = "audit" /\ job'[w] = j BY <1>1, <1>2, <1>3, GotoStep
  <2>2. pairings'[job[w].id].status # "absent" BY <1>1, <1>2 DEF TypeOK
  <2> QED BY <1>1, <1>2, <1>3, <1>4, <2>1, <2>2, BusyJob
       DEF LocalOK, HasTarget, SeenFollowsPc, OpFollowsPc, IsTimely, HasDevice, Holding,
            Completing, Registered
<1> QED BY <1>1, <1>2, <1>3, <1>5, <1>6, <1>8, <1>9, GotoStep, OneThreadSteps

LEMMA AuditDeviceStep == ASSUME Inv, NEW w \in Workers, AuditDevice(w) PROVE Inv'
<1>1. /\ pc[w] = "audit" /\ Goto(w, "event", job[w]) /\ "event" \in Labels
      /\ audit' = audit \cup {<<"device_registered", job[w].device>>}
      /\ UNCHANGED <<pairings, owner, tokens, events, answered, clock, crashes>>
      BY DEF AuditDevice, Labels
<1>2. job[w].device \in Devices BY <1>1, BusyJob DEF LocalOK, HasDevice, Registered
<1>3. pc'[w] = "event" /\ job'[w] = job[w] BY <1>1, BusyJob, GotoStep DEF Inv
<1>4. LocalOK(w)'
      BY <1>1, <1>3, BusyJob
      DEF LocalOK, HasTarget, SeenFollowsPc, OpFollowsPc, IsTimely, HasDevice, Holding,
            Completing, Registered
<1> QED BY <1>1, <1>2, <1>4, BusyJob, QuietStep DEF TypeOK

LEMMA AnnounceStep == ASSUME Inv, NEW w \in Workers, Announce(w) PROVE Inv'
<1> DEFINE d == job[w].device
<1>1. /\ pc[w] = "event" /\ Goto(w, "idle", NoJob)
      /\ events' = events \cup {d} /\ answered' = answered \cup {d}
      /\ UNCHANGED <<pairings, owner, tokens, audit, clock, crashes>>
      BY DEF Announce, Return
<1>2. TypeOK BY DEF Inv
<1>3. /\ d \in Devices /\ owner[d] = job[w].id /\ job[w].id \in Pairings
      /\ <<d, "access">> \in tokens /\ <<d, "refresh">> \in tokens
      /\ <<"device_registered", d>> \in audit
      BY <1>1, BusyJob DEF LocalOK, HasDevice, Registered
<1>4. NoJob \in Job /\ "idle" \in Labels BY NoJobTyped DEF Labels
<1>5. TypeOK' BY <1>1, <1>2, <1>3, <1>4, GotoStep DEF TypeOK
<1>6. Forward BY <1>1, <1>2, ConstantsAssumption DEF TypeOK, Forward
<1>7. owner[d] # None /\ Usable(d) BY <1>3, ConstantsAssumption DEF Usable, Kinds
<1>8. LocalOK(w)' BY <1>1, <1>2, <1>4, GotoStep, IdleOK
<1> QED BY <1>1, <1>2, <1>3, <1>4, <1>5, <1>6, <1>7, <1>8, GotoStep, OneThreadSteps

LEMMA TickStep == ASSUME Inv, Tick PROVE Inv'
<1>1. TypeOK /\ clock \in Nat /\ clock' = clock + 1 /\ clock' \in 0..MaxTime
      BY ConstantsAssumption DEF Inv, TypeOK, Tick
<1>2. UNCHANGED <<pairings, owner, tokens, audit, events, answered, pc, job, crashes>>
      BY DEF Tick, tables
<1>3. TypeOK' BY <1>1, <1>2 DEF TypeOK
<1>4. Forward BY <1>1, <1>2 DEF Forward
<1>5. \A v \in Workers : LocalOK(v)' BY <1>2, <1>1, <1>3, <1>4, OthersKeepLocalOK DEF Inv
<1> QED BY <1>2, <1>3, <1>5
    DEF Inv, CompletedHasDevice, AnsweredIsAudited, DevicesOf, Usable

LEMMA CrashStep == ASSUME Inv, Crash PROVE Inv'
<1>1. UNCHANGED <<pairings, owner, tokens, audit, events, answered, clock>>
      BY DEF Crash, tables
<1>2. TypeOK'
      BY <1>1, NoJobTyped, ConstantsAssumption DEF Inv, TypeOK, Crash, Labels
<1>3. \A v \in Workers : LocalOK(v)' BY IdleOK DEF Crash
<1> QED BY <1>1, <1>2, <1>3
    DEF Inv, CompletedHasDevice, AnsweredIsAudited, DevicesOf, Usable

LEMMA InitInv == Init => Inv
<1> SUFFICES ASSUME Init PROVE Inv
    OBVIOUS
<1>1. TypeOK BY NoJobTyped, ConstantsAssumption DEF Init, TypeOK, Statuses, Labels
<1>2. \A w \in Workers : LocalOK(w)
      BY DEF Init, LocalOK, HasTarget, SeenFollowsPc, OpFollowsPc, IsTimely, HasDevice,
             Holding, Completing, Registered, NoJob
<1> QED BY <1>1, <1>2 DEF Init, Inv, CompletedHasDevice, AnsweredIsAudited

LEMMA NextInv == Inv /\ [Next]_vars => Inv'
<1> SUFFICES ASSUME Inv, [Next]_vars PROVE Inv'
    OBVIOUS
<1>1. ASSUME NEW w \in Workers, NEW p \in Pairings, NEW t \in Deadlines, Start(w, p, t)
      PROVE  Inv'
      BY <1>1, StartStep
<1>2. ASSUME NEW w \in Workers, NEW p \in Pairings, Begin(w, "get", p, FALSE) PROVE Inv'
      BY <1>2, BeginKeeps
<1>3. ASSUME NEW w \in Workers, NEW p \in Pairings, NEW right \in BOOLEAN,
             Begin(w, "complete", p, right)
      PROVE  Inv'
      BY <1>3, BeginKeeps
<1>4. ASSUME NEW w \in Workers, AuditStart(w) \/ Reject(w) PROVE Inv'
      BY <1>4, ReturnStep DEF AuditStart, Reject
<1>5. ASSUME NEW w \in Workers,
             \/ Read(w) \/ Judge(w) \/ Expire(w) \/ Check(w)
             \/ Complete(w) \/ AuditDevice(w) \/ Announce(w)
      PROVE  Inv'
      BY <1>5, ReadStep, JudgeStep, ExpireStep, CheckStep, CompleteStep, AuditDeviceStep,
         AnnounceStep
<1>6. ASSUME NEW w \in Workers, NEW d \in Devices, CreateDevice(w, d) PROVE Inv'
      BY <1>6, CreateDeviceStep
<1>7. ASSUME NEW w \in Workers,
             CreateToken(w, "access", "refresh") \/ CreateToken(w, "refresh", "complete")
      PROVE  Inv'
      BY <1>7, CreateTokenStep DEF Kinds
<1>8. CASE UNCHANGED vars
  <2>1. /\ UNCHANGED <<pairings, owner, tokens, audit, events, answered, clock>>
        /\ UNCHANGED <<pc, job, crashes>>
        BY <1>8 DEF vars, tables
  <2>2. TypeOK' BY <2>1 DEF Inv, TypeOK
  <2>3. \A w \in Workers : LocalOK(w)'
        BY <2>1 DEF Inv, LocalOK, HasTarget, SeenFollowsPc, OpFollowsPc, IsTimely, HasDevice
  <2> QED BY <2>1, <2>2, <2>3
       DEF Inv, CompletedHasDevice, AnsweredIsAudited, DevicesOf, Usable
<1> QED BY <1>1, <1>2, <1>3, <1>4, <1>5, <1>6, <1>7, <1>8, TickStep, CrashStep DEF Next

-----------------------------------------------------------------------------
(* What follows for every behaviour *)

\* The pairing tables and every thread's locals stay well typed.
THEOREM PairingTyped == Spec => []TypeOK
<1>1. Inv => TypeOK BY DEF Inv
<1> QED BY <1>1, InitInv, NextInv, PTL DEF Spec

\* A completed pairing has led to a device with both of its tokens, wherever the
\* server may have restarted.
THEOREM PairingCompletedHasDevice == Spec => []CompletedHasDevice
<1>1. Inv => CompletedHasDevice BY DEF Inv
<1> QED BY <1>1, InitInv, NextInv, PTL DEF Spec

\* A phone is only given the tokens of an audited device of one pairing.
THEOREM PairingAnsweredIsAudited == Spec => []AnsweredIsAudited
<1>1. Inv => AnsweredIsAudited BY DEF Inv
<1> QED BY <1>1, InitInv, NextInv, PTL DEF Spec

\* An answer that arrives at or after the deadline gets no device.
THEOREM PairingLateAnswerGetsNoDevice == Spec => LateAnswerGetsNoDevice
<1>1. Inv /\ [Next]_vars =>
        [\A w \in Workers : (pc[w] = "device" /\ pc'[w] = "access")
           => job[w].begun < pairings[job[w].id].expiresAt]_vars
      BY DEF Inv, LocalOK, IsTimely, Completing
<1> QED BY <1>1, InitInv, NextInv, PTL DEF Spec, LateAnswerGetsNoDevice

-----------------------------------------------------------------------------
(* Pairing implements Clearance *)

\* The abstract variables.
Outcome == [p \in Pairings |-> pairings[p].status]
Holders == [p \in Pairings |-> {w \in Workers : p \in job[w].seen}]

\* A step that writes no status and lets no thread see more is a withdrawal.
LEMMA LetGo ==
  ASSUME Inv, UNCHANGED pairings,
         \A w \in Workers : job'[w].seen \subseteq job[w].seen
  PROVE  Session!Withdraw
<1>1. Holders' \in [Pairings -> SUBSET Workers] BY DEF Holders
<1>2. \A p \in Pairings : Holders'[p] \subseteq Holders[p] BY DEF Holders
<1>3. Outcome' = Outcome BY DEF Outcome
<1> QED BY <1>1, <1>2, <1>3 DEF Session!Withdraw, Outcome, Holders

\* A step of one thread changes one job.
LEMMA OneJob ==
  ASSUME Inv, NEW w \in Workers, NEW label, NEW j, Goto(w, label, j)
  PROVE  job'[w] = j /\ \A v \in Workers : v # w => job'[v] = job[v]
BY DEF Goto, Inv, TypeOK

LEMMA MovingLetsGo ==
  ASSUME Inv, NEW w \in Workers, NEW label, NEW j, Goto(w, label, j), UNCHANGED pairings,
         j.seen \subseteq job[w].seen
  PROVE  Session!Withdraw
<1>1. \A v \in Workers : job'[v].seen \subseteq job[v].seen BY OneJob
<1> QED BY <1>1, LetGo

LEMMA StartImplements ==
  ASSUME Inv, NEW w \in Workers, NEW p \in Pairings, NEW t \in Deadlines, Start(w, p, t)
  PROVE  Session!Request(p)
<1> DEFINE j == [NoJob EXCEPT !.op = "start", !.id = p, !.begun = clock]
<1>1. pc[w] = "idle" /\ Goto(w, "auditStart", j) BY DEF Start
<1>2. job[w].seen = {} /\ j.seen = {} BY <1>1 DEF Inv, LocalOK, HasTarget, NoJob
<1>3. \A v \in Workers : job'[v].seen = job[v].seen BY <1>1, <1>2, OneJob
<1>4. Holders' = Holders BY <1>3 DEF Holders
<1>5. /\ pairings[p].status = "absent" /\ pairings'[p].status = "pending"
      /\ \A q \in Pairings : q # p => pairings'[q] = pairings[q]
      BY DEF Start, Inv, TypeOK
<1>6. Outcome[p] = "absent" /\ Outcome' = [Outcome EXCEPT ![p] = "pending"]
      BY <1>5 DEF Outcome
<1> QED BY <1>4, <1>6 DEF Session!Request, Outcome, Holders

LEMMA ReadImplements ==
  ASSUME Inv, NEW w \in Workers, Read(w)
  PROVE  Session!Withdraw \/ \E C \in SUBSET Pairings : Session!Admit(w, C)
<1>1. pc[w] = "read" /\ UNCHANGED pairings BY DEF Read, tables
<1>2. job[w] \in Job /\ job[w].id \in Pairings /\ job[w].seen = {}
      BY <1>1, BusyJob DEF LocalOK, SeenFollowsPc, Holding
<1> PICK p \in Pairings : p = job[w].id BY <1>2
<1>3. CASE pairings[p].status = "pending"
  <2> DEFINE j == [job[w] EXCEPT !.seen = {p}]
  <2>1. Goto(w, "judge", j) BY <1>3 DEF Read
  <2>2. j.seen = {p} BY <1>2 DEF Job
  <2>3. job'[w].seen = {p} /\ \A v \in Workers : v # w => job'[v] = job[v]
        BY <2>1, <2>2, OneJob
  <2>4. \A c \in {p} : Outcome[c] = "pending" BY <1>2, <1>3 DEF Outcome
  <2>5. Outcome' = Outcome BY <1>1 DEF Outcome
  <2>6. Holders' = [c \in Pairings |-> Holders[c] \cup (IF c \in {p} THEN {w} ELSE {})]
    <3>1. \A c \in Pairings : {v \in Workers : c \in job'[v].seen} =
            {v \in Workers : c \in job[v].seen} \cup (IF c \in {p} THEN {w} ELSE {})
          BY <1>2, <2>3
    <3> QED BY <3>1 DEF Holders
  <2>7. Session!Admit(w, {p}) BY <2>4, <2>5, <2>6 DEF Session!Admit, Outcome, Holders
  <2> QED BY <2>7
<1>4. CASE pairings[p].status # "pending"
  <2>1. Goto(w, "idle", NoJob) BY <1>4 DEF Read, Return
  <2> QED BY <1>1, <2>1, MovingLetsGo DEF NoJob
<1> QED BY <1>3, <1>4

\* Either UPDATE of the status is by a thread that holds the pairing for pending.
LEMMA SettleImplements ==
  ASSUME Inv, NEW w \in Workers, pc[w] \in Holding, NEW o \in Over, NEW label, NEW j,
         Goto(w, label, j), j.seen = {},
         pairings'[job[w].id].status = o,
         \A q \in Pairings : q # job[w].id => pairings'[q] = pairings[q]
  PROVE  \E p \in Pairings, s \in Over : Session!Settle(p, w, s)
<1> PICK p \in Pairings : p = job[w].id BY BusyJob DEF Holding
<1>1. job[w].seen = {p} BY BusyJob DEF Holding, LocalOK, SeenFollowsPc
<1>2. job'[w].seen = {} /\ \A v \in Workers : v # w => job'[v] = job[v] BY OneJob
<1>3. /\ pairings'[p].status = o
      /\ \A q \in Pairings : q # p => pairings'[q] = pairings[q]
      OBVIOUS
<1>4. w \in Holders[p] BY <1>1 DEF Holders
<1>5. Outcome' = [Outcome EXCEPT ![p] = o] BY <1>1, <1>3 DEF Outcome
<1>6. Holders' = [Holders EXCEPT ![p] = @ \ {w}]
  <2>1. \A q \in Pairings : {v \in Workers : q \in job'[v].seen} =
          IF q = p THEN {v \in Workers : q \in job[v].seen} \ {w}
                   ELSE {v \in Workers : q \in job[v].seen}
        BY <1>1, <1>2
  <2>2. \A q \in Pairings : Holders'[q] = IF q = p THEN Holders[q] \ {w} ELSE Holders[q]
        BY <2>1 DEF Holders
  <2>3. /\ Holders = [q \in Pairings |-> Holders[q]]
        /\ Holders' = [q \in Pairings |-> Holders'[q]]
        BY DEF Holders
  <2> HIDE DEF Holders
  <2>4. [Holders EXCEPT ![p] = @ \ {w}] =
          [q \in Pairings |-> IF q = p THEN Holders[q] \ {w} ELSE Holders[q]]
        BY <2>3
  <2> QED BY <2>2, <2>3, <2>4
<1> QED BY <1>1, <1>4, <1>5, <1>6 DEF Session!Settle, Outcome, Holders

LEMMA StepImplements == Inv /\ [Next]_vars => [Session!Next]_(Session!vars)
<1> SUFFICES ASSUME Inv, [Next]_vars PROVE Session!Next
    OBVIOUS
<1> USE DEF Session!Next
<1>1. ASSUME NEW w \in Workers, NEW p \in Pairings, NEW t \in Deadlines, Start(w, p, t)
      PROVE  Session!Next
      BY <1>1, StartImplements
<1>2. ASSUME NEW w \in Workers, NEW op, NEW p \in Pairings, NEW right, Begin(w, op, p, right)
      PROVE  Session!Next
  <2> DEFINE j == [NoJob EXCEPT !.op = op, !.id = p, !.right = right, !.begun = clock]
  <2>1. Goto(w, "read", j) /\ UNCHANGED pairings BY <1>2 DEF Begin, tables
  <2>2. j.seen = {} BY DEF NoJob
  <2> QED BY <2>1, <2>2, MovingLetsGo
<1>3. ASSUME NEW w \in Workers, Return(w), UNCHANGED pairings PROVE Session!Next
      BY <1>3, MovingLetsGo DEF Return, NoJob
<1>4. ASSUME NEW w \in Workers, NEW label, Goto(w, label, job[w]), UNCHANGED pairings
      PROVE  Session!Next
      BY <1>4, MovingLetsGo
<1>5. ASSUME NEW w \in Workers, AuditStart(w) \/ Reject(w) PROVE Session!Next
      BY <1>3, <1>5 DEF AuditStart, Reject
<1>6. ASSUME NEW w \in Workers, Read(w) PROVE Session!Next
      BY <1>6, ReadImplements
<1>7. ASSUME NEW w \in Workers, Judge(w) PROVE Session!Next
  <2>1. pc[w] = "judge" /\ UNCHANGED pairings BY <1>7 DEF Judge, tables
  <2>2. job[w].op \in {"get", "complete"} BY <2>1, BusyJob DEF LocalOK, OpFollowsPc
  <2>3. Return(w) \/ \E label : Goto(w, label, job[w]) BY <1>7, <2>2 DEF Judge
  <2> QED BY <2>1, <2>3, <1>3, <1>4
<1>8. ASSUME NEW w \in Workers, Expire(w) PROVE Session!Next
  <2>1. /\ pc[w] \in Holding /\ Goto(w, "idle", NoJob) /\ "expired" \in Over
        /\ pairings' = [pairings EXCEPT ![job[w].id].status = "expired"]
        BY <1>8 DEF Expire, Return, Holding, Over
  <2>2. /\ pairings'[job[w].id].status = "expired"
        /\ \A q \in Pairings : q # job[w].id => pairings'[q] = pairings[q]
        BY <2>1, BusyJob DEF Inv, TypeOK, Holding
  <2> QED BY <2>1, <2>2, SettleImplements DEF NoJob
<1>9. ASSUME NEW w \in Workers, Check(w) PROVE Session!Next
  <2>1. pc[w] = "check" /\ UNCHANGED pairings BY <1>9 DEF Check, tables
  <2>2. [job[w] EXCEPT !.seen = {}].seen = {} BY <2>1, BusyJob DEF Job
  <2> QED BY <1>9, <2>1, <2>2, <1>4, MovingLetsGo DEF Check
<1>10. ASSUME NEW w \in Workers, NEW d \in Devices, CreateDevice(w, d) PROVE Session!Next
  <2>1. pc[w] = "device" /\ UNCHANGED pairings BY <1>10 DEF CreateDevice
  <2>2. [job[w] EXCEPT !.device = d].seen = job[w].seen BY <2>1, BusyJob DEF Job
  <2> QED BY <1>10, <2>1, <2>2, MovingLetsGo DEF CreateDevice
<1>11. ASSUME NEW w \in Workers, NEW kind, NEW next, CreateToken(w, kind, next)
       PROVE  Session!Next
       BY <1>11, <1>4 DEF CreateToken
<1>12. ASSUME NEW w \in Workers, Complete(w) PROVE Session!Next
  <2> DEFINE j == [job[w] EXCEPT !.seen = {}]
  <2>1. /\ pc[w] = "complete" /\ Goto(w, "audit", j)
        /\ pairings' = [pairings EXCEPT ![job[w].id].status = "completed"]
        BY <1>12 DEF Complete
  <2>2. j.seen = {} BY <2>1, BusyJob DEF Job
  <2>3. pc[w] \in Holding /\ "completed" \in Over BY <2>1 DEF Holding, Over
  <2>4. /\ pairings'[job[w].id].status = "completed"
        /\ \A q \in Pairings : q # job[w].id => pairings'[q] = pairings[q]
        BY <2>1, BusyJob DEF Inv, TypeOK, Holding
  <2> QED BY <2>1, <2>2, <2>3, <2>4, SettleImplements
<1>13. ASSUME NEW w \in Workers, AuditDevice(w) PROVE Session!Next
       BY <1>13, <1>4 DEF AuditDevice
<1>14. ASSUME NEW w \in Workers, Announce(w) PROVE Session!Next
       BY <1>14, <1>3 DEF Announce
<1>15. ASSUME UNCHANGED <<pairings, job>> PROVE Session!Next
       BY <1>15, LetGo
<1>16. CASE Tick \/ UNCHANGED vars
       BY <1>15, <1>16 DEF Tick, vars, tables
<1>17. CASE Crash
  <2>1. UNCHANGED pairings /\ \A v \in Workers : job'[v].seen \subseteq job[v].seen
        BY <1>17 DEF Crash, tables, NoJob
  <2> QED BY <2>1, LetGo
<1> QED BY <1>1, <1>2, <1>5, <1>6, <1>7, <1>8, <1>9, <1>10, <1>11, <1>12, <1>13, <1>14,
     <1>16, <1>17 DEF Next

\* Pairing implements Clearance: only threads that read a pairing as pending write its
\* status, and nobody joins them once it is over.
THEOREM PairingImplementsClearance == Spec => ImplementsClearance
<1>1. Init => Session!Init BY DEF Init, Session!Init, NoJob
<1> QED BY <1>1, InitInv, NextInv, StepImplements, PTL
    DEF Spec, ImplementsClearance, Session!Spec

-----------------------------------------------------------------------------
(* How many devices a pairing registers                                    *)

N == Cardinality(Workers)

\* The threads that have registered a device for the pairing and not completed it yet,
\* and those that may still register one.
Makers(p) == {w \in Workers : pc[w] \in {"access", "refresh", "complete"} /\ job[w].id = p}
Able(p)   == {w \in Workers : pc[w] \in {"judge", "check", "device"} /\ job[w].id = p}

\* As long as a pairing is pending, a thread has made one device since the last restart at
\* most; when it is over, only those that are able to may add one each.
CountedFor(p) ==
  /\ IsFiniteSet(DevicesOf(p))
  /\ pairings[p].status \notin Over =>
       Cardinality(DevicesOf(p)) <= N * crashes + Cardinality(Makers(p))
  /\ pairings[p].status \in Over =>
       Cardinality(DevicesOf(p)) + Cardinality(Able(p)) <= N * crashes + N

Counted == \A p \in Pairings : CountedFor(p)

\* The threads are finitely many, and none of them counts twice.
LEMMA ThreadCounts ==
  /\ N \in Nat
  /\ \A S \in SUBSET Workers : IsFiniteSet(S) /\ Cardinality(S) \in Nat /\ Cardinality(S) <= N
  /\ \A S, T \in SUBSET Workers :
       /\ S \subseteq T => Cardinality(S) <= Cardinality(T)
       /\ S \cap T = {} => Cardinality(S) + Cardinality(T) <= N
<1>1. IsFiniteSet(Workers) BY ConstantsAssumption
<1>2. N \in Nat BY <1>1, FS_CardinalityType DEF N
<1>3. ASSUME NEW S \in SUBSET Workers
      PROVE  IsFiniteSet(S) /\ Cardinality(S) \in Nat /\ Cardinality(S) <= N
      BY <1>1, FS_Subset, FS_CardinalityType DEF N
<1>4. ASSUME NEW S \in SUBSET Workers, NEW T \in SUBSET Workers, S \subseteq T
      PROVE  Cardinality(S) <= Cardinality(T)
      BY <1>3, <1>4, FS_Subset
<1>5. ASSUME NEW S \in SUBSET Workers, NEW T \in SUBSET Workers, S \cap T = {}
      PROVE  Cardinality(S) + Cardinality(T) <= N
  <2>1. Cardinality(S \cup T) = Cardinality(S) + Cardinality(T) - Cardinality(S \cap T)
        BY <1>3, FS_Union
  <2>2. Cardinality(S \cap T) = 0 BY <1>5, FS_EmptySet
  <2>3. Cardinality(S \cup T) <= N /\ S \cup T \in SUBSET Workers BY <1>3
  <2> QED BY <1>3, <2>1, <2>2, <2>3
<1> QED BY <1>2, <1>3, <1>4, <1>5

\* The numbers that the count is about.
LEMMA CountTyped ==
  ASSUME TypeOK, NEW p \in Pairings, CountedFor(p)
  PROVE  /\ Cardinality(DevicesOf(p)) \in Nat /\ N * crashes \in Nat /\ N \in Nat
         /\ Cardinality(Makers(p)) \in Nat /\ Cardinality(Able(p)) \in Nat
         /\ Makers(p) \subseteq Workers /\ Able(p) \subseteq Workers
         /\ Makers(p) \cap Able(p) = {}
<1>1. Makers(p) \subseteq Workers /\ Able(p) \subseteq Workers /\ Makers(p) \cap Able(p) = {}
      BY DEF Makers, Able
<1>2. Cardinality(DevicesOf(p)) \in Nat BY FS_CardinalityType DEF CountedFor
<1>3. crashes \in Nat /\ N \in Nat BY ThreadCounts, ConstantsAssumption DEF TypeOK
<1>4. N * crashes \in Nat BY <1>3
<1> QED BY <1>1, <1>2, <1>3, <1>4, ThreadCounts

\* A step that registers nothing: nobody becomes able to while the pairing is over, and
\* nobody forgets his device while it is not.
LEMMA CountStays ==
  ASSUME TypeOK, NEW p \in Pairings, CountedFor(p), UNCHANGED <<owner, crashes>>,
         pairings[p].status \in Over => pairings'[p].status \in Over,
         pairings[p].status \in Over => Able(p)' \subseteq Able(p),
         pairings'[p].status \notin Over => Makers(p) \subseteq Makers(p)',
         pairings[p].status \notin Over /\ pairings'[p].status \in Over =>
           Makers(p) \cap Able(p)' = {}
  PROVE  CountedFor(p)'
<1>1. DevicesOf(p)' = DevicesOf(p) BY DEF DevicesOf
<1>2. /\ Makers(p) \subseteq Workers /\ Able(p) \subseteq Workers
      /\ Makers(p)' \subseteq Workers /\ Able(p)' \subseteq Workers
      BY DEF Makers, Able
<1>3. Cardinality(Makers(p)') \in Nat /\ Cardinality(Able(p)') \in Nat BY <1>2, ThreadCounts
<1>4. CASE pairings'[p].status \notin Over
  <2>1. Cardinality(Makers(p)) <= Cardinality(Makers(p)') BY <1>2, <1>4, ThreadCounts
  <2>2. Cardinality(DevicesOf(p)) <= N * crashes + Cardinality(Makers(p)) BY <1>4 DEF CountedFor
  <2>3. Cardinality(DevicesOf(p)) <= N * crashes + Cardinality(Makers(p)')
        BY <1>3, <2>1, <2>2, CountTyped
  <2> QED BY <1>1, <1>4, <2>3 DEF CountedFor, N
<1>5. CASE pairings'[p].status \in Over
  <2>1. Cardinality(DevicesOf(p)) + Cardinality(Able(p)') <= N * crashes + N
    <3>1. CASE pairings[p].status \in Over
      <4>1. Cardinality(Able(p)') <= Cardinality(Able(p)) BY <1>2, <3>1, ThreadCounts
      <4>2. Cardinality(DevicesOf(p)) + Cardinality(Able(p)) <= N * crashes + N
            BY <3>1 DEF CountedFor
      <4> QED BY <1>3, <4>1, <4>2, CountTyped
    <3>2. CASE pairings[p].status \notin Over
      <4>1. Cardinality(Makers(p)) + Cardinality(Able(p)') <= N BY <1>2, <1>5, <3>2, ThreadCounts
      <4>2. Cardinality(DevicesOf(p)) <= N * crashes + Cardinality(Makers(p))
            BY <3>2 DEF CountedFor
      <4> QED BY <1>3, <4>1, <4>2, CountTyped
    <3> QED BY <3>1, <3>2
  <2> QED BY <1>1, <1>5, <2>1 DEF CountedFor, N
<1> QED BY <1>4, <1>5

\* A thread's own step: what it does to the count is in its labels before and after.
LEMMA CountThread ==
  ASSUME Inv, Counted, NEW w \in Workers, NEW label \in Labels, NEW j, Goto(w, label, j),
         UNCHANGED <<owner, crashes>>, j.id = job[w].id \/ label \notin
           {"judge", "check", "device", "access", "refresh", "complete"},
         \A p \in Pairings : pairings[p].status \in Over => pairings'[p].status \in Over,
         label \in {"judge", "check", "device"} =>
           \/ pc[w] \in {"judge", "check", "device"}
           \/ pairings[job[w].id].status \notin Over,
         label \in {"access", "refresh", "complete"} \/ pc[w] \notin {"access", "refresh", "complete"}
           \/ pairings'[job[w].id].status \in Over,
         pc[w] \in {"access", "refresh", "complete"} => label \notin {"judge", "check", "device"}
  PROVE  Counted'
<1> SUFFICES ASSUME NEW p \in Pairings PROVE CountedFor(p)' BY DEF Counted
<1>1. /\ TypeOK /\ CountedFor(p) /\ pc \in [Workers -> Labels] /\ job \in [Workers -> Job]
      /\ pc'[w] = label /\ job'[w] = j
      /\ \A v \in Workers \ {w} : pc'[v] = pc[v] /\ job'[v] = job[v]
      BY DEF Inv, TypeOK, Counted, Goto
<1>2. pairings[p].status \in Over => Able(p)' \subseteq Able(p)
      BY <1>1 DEF Able
<1>3. pairings'[p].status \notin Over => Makers(p) \subseteq Makers(p)'
      BY <1>1 DEF Makers
<1>4. Makers(p) \cap Able(p)' = {}
      BY <1>1 DEF Makers, Able
<1> QED BY <1>1, <1>2, <1>3, <1>4, CountStays

LEMMA CountDevice ==
  ASSUME Inv, Counted, NEW w \in Workers, NEW d \in Devices, CreateDevice(w, d)
  PROVE  Counted'
<1> DEFINE j == [job[w] EXCEPT !.device = d]
<1>1. /\ pc[w] = "device" /\ owner[d] = None /\ owner' = [owner EXCEPT ![d] = job[w].id]
      /\ Goto(w, "access", j) /\ UNCHANGED <<pairings, crashes>>
      BY DEF CreateDevice
<1>2. TypeOK /\ job[w].id \in Pairings /\ job[w] \in Job BY <1>1, BusyJob DEF Inv
<1>3. j.id = job[w].id BY <1>2 DEF Job
<1>4. /\ pc'[w] = "access" /\ job'[w].id = job[w].id
      /\ \A v \in Workers \ {w} : pc'[v] = pc[v] /\ job'[v] = job[v]
      BY <1>1, <1>2, <1>3 DEF Goto, TypeOK
<1> SUFFICES ASSUME NEW p \in Pairings PROVE CountedFor(p)' BY DEF Counted
<1>5. CountedFor(p) BY DEF Counted
<1>6. CASE p # job[w].id
  <2>1. DevicesOf(p)' = DevicesOf(p) BY <1>1, <1>2, <1>6, ConstantsAssumption DEF DevicesOf, TypeOK
  <2>2. Makers(p)' = Makers(p) /\ Able(p)' = Able(p) BY <1>4, <1>6 DEF Makers, Able
  <2> QED BY <1>1, <1>5, <2>1, <2>2 DEF CountedFor, N
<1>7. CASE p = job[w].id
  <2>1. DevicesOf(p)' = DevicesOf(p) \cup {d} /\ d \notin DevicesOf(p)
        BY <1>1, <1>2, <1>7, ConstantsAssumption DEF DevicesOf, TypeOK
  <2>2. Makers(p)' = Makers(p) \cup {w} /\ w \notin Makers(p)
        BY <1>1, <1>4, <1>7 DEF Makers
  <2>3. Able(p)' = Able(p) \ {w} /\ w \in Able(p)
        BY <1>1, <1>4, <1>7 DEF Able
  <2>4. IsFiniteSet(DevicesOf(p)') /\ Cardinality(DevicesOf(p)') = Cardinality(DevicesOf(p)) + 1
        BY <1>5, <2>1, FS_AddElement DEF CountedFor
  <2>5. IsFiniteSet(Makers(p)) /\ IsFiniteSet(Able(p)) BY <1>2, <1>5, CountTyped, ThreadCounts
  <2>6. Cardinality(Makers(p)') = Cardinality(Makers(p)) + 1 BY <2>2, <2>5, FS_AddElement
  <2>7. Cardinality(Able(p)') = Cardinality(Able(p)) - 1 BY <2>3, <2>5, FS_RemoveElement
  <2>8. pairings[p].status \notin Over =>
          Cardinality(DevicesOf(p)') <= N * crashes + Cardinality(Makers(p)')
        BY <1>2, <1>5, <2>4, <2>6, CountTyped DEF CountedFor
  <2>9. pairings[p].status \in Over =>
          Cardinality(DevicesOf(p)') + Cardinality(Able(p)') <= N * crashes + N
        BY <1>2, <1>5, <2>4, <2>7, CountTyped DEF CountedFor
  <2> QED BY <1>1, <2>4, <2>8, <2>9 DEF CountedFor, N
<1> QED BY <1>6, <1>7

LEMMA CountCrash == ASSUME Inv, Counted, Crash PROVE Counted'
<1>1. /\ crashes' = crashes + 1 /\ pc' = [w \in Workers |-> "idle"] /\ UNCHANGED <<owner, pairings>>
      BY DEF Crash, tables
<1> SUFFICES ASSUME NEW p \in Pairings PROVE CountedFor(p)' BY DEF Counted
<1>2. DevicesOf(p)' = DevicesOf(p) /\ Makers(p)' = {} /\ Able(p)' = {}
      BY <1>1 DEF DevicesOf, Makers, Able
<1>3. Cardinality(Makers(p)') = 0 /\ Cardinality(Able(p)') = 0 BY <1>2, FS_EmptySet
<1>4. TypeOK /\ CountedFor(p) /\ crashes \in Nat BY ConstantsAssumption DEF Inv, TypeOK, Counted
<1>5. Cardinality(Makers(p)) <= N BY <1>4, CountTyped, ThreadCounts
<1>6. Cardinality(DevicesOf(p)) <= N * crashes + N
      BY <1>4, <1>5, CountTyped DEF CountedFor
<1>7. N * crashes' = N * crashes + N BY <1>1, <1>4, CountTyped
<1>8. /\ Cardinality(DevicesOf(p)) <= N * crashes' + Cardinality(Makers(p)')
      /\ Cardinality(DevicesOf(p)) + Cardinality(Able(p)') <= N * crashes' + N
      BY <1>3, <1>4, <1>6, <1>7, CountTyped
<1> QED BY <1>1, <1>2, <1>4, <1>8 DEF CountedFor, N

\* A thread goes on, and the pairings are as they were.
LEMMA CountMove ==
  ASSUME Inv, Counted, NEW w \in Workers, NEW label \in Labels, NEW j, Goto(w, label, j),
         UNCHANGED <<owner, crashes, pairings>>, j.id = job[w].id \/ label \notin
           {"judge", "check", "device", "access", "refresh", "complete"},
         label \in {"judge", "check", "device"} =>
           \/ pc[w] \in {"judge", "check", "device"}
           \/ pairings[job[w].id].status \notin Over,
         label \in {"access", "refresh", "complete"} \/ pc[w] \notin {"access", "refresh", "complete"},
         pc[w] \in {"access", "refresh", "complete"} => label \notin {"judge", "check", "device"}
  PROVE  Counted'
BY CountThread

LEMMA CountReturn ==
  ASSUME Inv, Counted, NEW w \in Workers, Return(w), UNCHANGED <<owner, crashes, pairings>>,
         pc[w] \notin {"access", "refresh", "complete"}
  PROVE  Counted'
<1>1. Goto(w, "idle", NoJob) /\ "idle" \in Labels BY DEF Return, Labels
<1> QED BY <1>1, CountMove

LEMMA CountStart ==
  ASSUME Inv, Counted, NEW w \in Workers, NEW p \in Pairings, NEW t \in Deadlines, Start(w, p, t)
  PROVE  Counted'
<1> DEFINE j == [NoJob EXCEPT !.op = "start", !.id = p, !.begun = clock]
<1>1. /\ pc[w] = "idle" /\ Goto(w, "auditStart", j) /\ UNCHANGED <<owner, crashes>>
      /\ pairings[p].status = "absent" /\ "auditStart" \in Labels
      /\ pairings' = [pairings EXCEPT ![p] = [status |-> "pending", expiresAt |-> t]]
      BY DEF Start, Labels
<1>2. \A q \in Pairings : pairings[q].status \in Over => pairings'[q].status \in Over
      BY <1>1 DEF Inv, TypeOK, Over
<1> HIDE DEF j
<1> QED BY <1>1, <1>2, CountThread

LEMMA CountSettle ==
  ASSUME Inv, Counted, NEW w \in Workers, NEW status \in Over,
         pairings' = [pairings EXCEPT ![job[w].id].status = status], pc[w] # "idle",
         NEW label \in {"idle", "audit"}, NEW j, Goto(w, label, j), UNCHANGED <<owner, crashes>>
  PROVE  Counted'
<1>1. /\ pairings'[job[w].id].status \in Over
      /\ \A q \in Pairings : pairings[q].status \in Over => pairings'[q].status \in Over
      BY BusyJob DEF Inv, TypeOK
<1>2. label \in Labels BY DEF Labels
<1> QED BY <1>1, <1>2, CountThread

LEMMA CountNext == ASSUME Inv, Counted, [Next]_vars PROVE Counted'
<1>1. ASSUME NEW w \in Workers, NEW p \in Pairings, NEW t \in Deadlines, Start(w, p, t)
      PROVE  Counted'
      BY <1>1, CountStart
<1>2. ASSUME NEW w \in Workers, NEW op, NEW p \in Pairings, NEW right, Begin(w, op, p, right)
      PROVE  Counted'
  <2> DEFINE j == [NoJob EXCEPT !.op = op, !.id = p, !.right = right, !.begun = clock]
  <2>1. /\ pc[w] = "idle" /\ Goto(w, "read", j) /\ UNCHANGED <<owner, crashes, pairings>>
        /\ "read" \in Labels
        BY <1>2 DEF Begin, tables, Labels
  <2> HIDE DEF j
  <2> QED BY <2>1, CountMove
<1>3. ASSUME NEW w \in Workers, AuditStart(w) \/ Reject(w) \/ Announce(w) PROVE Counted'
      BY <1>3, CountReturn DEF AuditStart, Reject, Announce
<1>4. ASSUME NEW w \in Workers, Read(w) PROVE Counted'
  <2>1. pc[w] = "read" /\ UNCHANGED <<owner, crashes, pairings>> BY <1>4 DEF Read, tables
  <2>2. CASE pairings[job[w].id].status = "pending"
    <3> DEFINE j == [job[w] EXCEPT !.seen = {job[w].id}]
    <3>1. Goto(w, "judge", j) BY <1>4, <2>2 DEF Read
    <3>2. j.id = job[w].id BY <2>1, BusyJob DEF Job
    <3>3. "judge" \in Labels /\ pairings[job[w].id].status \notin Over BY <2>2 DEF Labels, Over
    <3> HIDE DEF j
    <3> QED BY <2>1, <3>1, <3>2, <3>3, CountMove
  <2>3. CASE pairings[job[w].id].status # "pending"
        BY <1>4, <2>1, <2>3, CountReturn DEF Read
  <2> QED BY <2>2, <2>3
<1>5. ASSUME NEW w \in Workers, Judge(w) PROVE Counted'
  <2>1. pc[w] = "judge" /\ UNCHANGED <<owner, crashes, pairings>> BY <1>5 DEF Judge, tables
  <2>2. job[w].op \in {"get", "complete"} BY <2>1, BusyJob DEF LocalOK, OpFollowsPc
  <2>3. Return(w) \/ \E label \in {"expire", "check"} : Goto(w, label, job[w])
        BY <1>5, <2>2 DEF Judge
  <2>4. {"expire", "check"} \subseteq Labels BY DEF Labels
  <2> QED BY <2>1, <2>3, <2>4, CountReturn, CountMove
<1>6. ASSUME NEW w \in Workers, Expire(w) PROVE Counted'
  <2>1. /\ pc[w] # "idle" /\ Goto(w, "idle", NoJob) /\ "expired" \in Over
        /\ pairings' = [pairings EXCEPT ![job[w].id].status = "expired"]
        /\ UNCHANGED <<owner, crashes>>
        BY <1>6 DEF Expire, Return, Over
  <2> QED BY <2>1, CountSettle
<1>7. ASSUME NEW w \in Workers, Check(w) PROVE Counted'
  <2>1. /\ pc[w] = "check" /\ UNCHANGED <<owner, crashes, pairings>>
        /\ "device" \in Labels /\ "reject" \in Labels
        BY <1>7 DEF Check, tables, Labels
  <2>2. Goto(w, "device", job[w]) \/ \E j : Goto(w, "reject", j) BY <1>7 DEF Check
  <2> QED BY <2>1, <2>2, CountMove
<1>8. ASSUME NEW w \in Workers,
             CreateToken(w, "access", "refresh") \/ CreateToken(w, "refresh", "complete")
      PROVE  Counted'
  <2>1. /\ pc[w] \in {"access", "refresh"} /\ UNCHANGED <<owner, crashes, pairings>>
        /\ Goto(w, "refresh", job[w]) \/ Goto(w, "complete", job[w])
        /\ "refresh" \in Labels /\ "complete" \in Labels
        BY <1>8 DEF CreateToken, Labels
  <2> QED BY <2>1, CountMove
<1>9. ASSUME NEW w \in Workers, Complete(w) PROVE Counted'
  <2>1. /\ pc[w] # "idle" /\ \E j : Goto(w, "audit", j)
        /\ "completed" \in Over /\ UNCHANGED <<owner, crashes>>
        /\ pairings' = [pairings EXCEPT ![job[w].id].status = "completed"]
        BY <1>9 DEF Complete, Over
  <2> QED BY <2>1, CountSettle
<1>10. ASSUME NEW w \in Workers, AuditDevice(w) PROVE Counted'
  <2>1. /\ pc[w] = "audit" /\ Goto(w, "event", job[w]) /\ UNCHANGED <<owner, crashes, pairings>>
        /\ "event" \in Labels
        BY <1>10 DEF AuditDevice, Labels
  <2> QED BY <2>1, CountMove
<1>11. CASE Tick \/ UNCHANGED vars
  <2>1. UNCHANGED <<owner, crashes, pairings, pc, job>> BY <1>11 DEF Tick, vars, tables
  <2>2. \A p \in Pairings : /\ Makers(p)' = Makers(p) /\ Able(p)' = Able(p)
                            /\ DevicesOf(p)' = DevicesOf(p)
        BY <2>1 DEF Makers, Able, DevicesOf
  <2> QED BY <2>1, <2>2 DEF Counted, CountedFor, N
<1> QED BY <1>1, <1>2, <1>3, <1>4, <1>5, <1>6, <1>7, <1>8, <1>9, <1>10, <1>11,
           CountDevice, CountCrash DEF Next

LEMMA CountInit == Init => Counted
<1> SUFFICES ASSUME Init, NEW p \in Pairings PROVE CountedFor(p) BY DEF Counted
<1>1. DevicesOf(p) = {} /\ Makers(p) = {} /\ pairings[p].status = "absent" /\ crashes = 0
      BY ConstantsAssumption DEF Init, DevicesOf, Makers
<1>2. IsFiniteSet(DevicesOf(p)) /\ Cardinality(DevicesOf(p)) = 0 /\ Cardinality(Makers(p)) = 0
      BY <1>1, FS_EmptySet
<1>3. N * crashes = 0 BY <1>1, ThreadCounts
<1> QED BY <1>1, <1>2, <1>3 DEF CountedFor, Over

\* A pairing registers one device at most for each thread of the pool, and one more each
\* after a restart: the threads that read it as pending before it was over (complete_pairing).
THEOREM PairingOneDevicePerThread == Spec => []OneDevicePerThread
<1>1. Inv /\ Counted => OneDevicePerThread
  <2> SUFFICES ASSUME Inv, Counted, NEW p \in Pairings
               PROVE  Cardinality(DevicesOf(p)) <= N * (1 + crashes)
      BY DEF OneDevicePerThread, N
  <2>1. CountedFor(p) /\ TypeOK /\ crashes \in Nat BY ConstantsAssumption DEF Counted, Inv, TypeOK
  <2>2. Cardinality(Makers(p)) <= N BY <2>1, CountTyped, ThreadCounts
  <2>3. Cardinality(DevicesOf(p)) <= N * crashes + N
        BY <2>1, <2>2, CountTyped DEF CountedFor
  <2>4. N * (1 + crashes) = N * crashes + N BY <2>1, CountTyped
  <2> QED BY <2>3, <2>4
<1> QED BY <1>1, InitInv, NextInv, CountInit, CountNext, PTL DEF Spec
=============================================================================
