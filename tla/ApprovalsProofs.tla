--------------------------- MODULE ApprovalsProofs ---------------------------
(***************************************************************************)
(* Theorems about the approval engine, for any number of workers,          *)
(* approvals and devices, any deadlines and any bounds.                    *)
(***************************************************************************)
EXTENDS ApprovalsInductive, TLAPS

-----------------------------------------------------------------------------
(* Typing *)

LEMMA NoJobTyped == NoJob \in Job
BY ConstantsAssumption DEF NoJob, Job, Ops, States, Terminal, Actors

\* A step of w's own leaves the other workers alone and makes its new job the next one.
LEMMA GotoStep ==
  ASSUME TypeOK, NEW w \in Workers, NEW label \in Labels, NEW j \in Job, Goto(w, label, j)
  PROVE  /\ pc' \in [Workers -> Labels] /\ job' \in [Workers -> Job]
         /\ pc'[w] = label /\ job'[w] = j
         /\ \A v \in Workers : v # w => pc'[v] = pc[v] /\ job'[v] = job[v]
BY DEF TypeOK, Goto

LEMMA BeginStep ==
  ASSUME TypeOK, NEW w \in Workers, NEW label \in Labels, NEW j \in Job, Begin(w, label, j)
  PROVE  /\ pc[w] = "idle"
         /\ pc' \in [Workers -> Labels] /\ job' \in [Workers -> Job]
         /\ pc'[w] = label /\ job'[w] = [j EXCEPT !.cur = j.id, !.begun = clock]
         /\ \A v \in Workers : v # w => pc'[v] = pc[v] /\ job'[v] = job[v]
<1> DEFINE k == [j EXCEPT !.cur = j.id, !.begun = clock]
<1>1. k \in Job BY DEF TypeOK, Job
<1>2. pc[w] = "idle" /\ Goto(w, label, k) BY DEF Begin
<1> QED BY <1>1, <1>2, GotoStep

LEMMA DeadlineTyped ==
  ASSUME TypeOK, NEW a \in Approvals
  PROVE  approvals[a].expiresAt \in Nat
<1>1. approvals[a] \in Row BY DEF TypeOK
<1>2. approvals[a].expiresAt \in Deadlines \cup {0} BY <1>1 DEF Row
<1>3. Deadlines \subseteq Nat BY ConstantsAssumption
<1>4. Deadlines \cup {0} \subseteq Nat BY <1>3
<1> QED BY <1>2, <1>4

-----------------------------------------------------------------------------
(* Frames *)

\* What every step does to the tables and the clock: they only move forward.
Forward ==
  /\ clock <= clock'
  /\ audit \subseteq audit'
  /\ \A a \in Approvals : Exists(a) =>
       /\ approvals'[a].state # "absent"
       /\ approvals'[a].expiresAt = approvals[a].expiresAt
       /\ approvals'[a].state = "pending" => approvals[a].state = "pending"

\* A thread that does not step keeps its invariant while the tables move forward.
LEMMA OthersKeepLocalOK ==
  ASSUME TypeOK, TypeOK', Forward, NEW v \in Workers, LocalOK(v),
         pc'[v] = pc[v], job'[v] = job[v]
  PROVE  LocalOK(v)'
<1> DEFINE j == job[v]
<1>0. clock \in Nat /\ clock' \in Nat /\ j \in Job /\ j.begun \in Nat
      BY ConstantsAssumption DEF TypeOK, Job
<1>1. HasTarget(v)' BY <1>0 DEF Forward, LocalOK, HasTarget, Exists
<1>2. OpFollowsPc(v)' /\ SeenFollowsPc(v)' /\ DecisionIsSound(v)'
      BY DEF LocalOK, OpFollowsPc, SeenFollowsPc, DecisionIsSound, Sound
<1>3. \A a, s : Resolution(a, s) \subseteq Resolution(a, s)'
      BY DEF Forward, Resolution
<1>4. ResponseDecides(v)' /\ HasAudited(v)'
      BY <1>3 DEF LocalOK, ResponseDecides, HasAudited, OutcomeOf
<1>5. IsTimely(v)' BY DEF Forward, LocalOK, HasTarget, OpFollowsPc, IsTimely, Exists
<1>6. CoversTarget(v)' BY DEF Forward, LocalOK, HasTarget, CoversTarget, Exists
<1> QED BY <1>1, <1>2, <1>4, <1>5, <1>6 DEF LocalOK

\* A step of w that resolves, audits and publishes nothing keeps the tables consistent.
LEMMA QuietStep ==
  ASSUME TypeOK, TypeOK', Inductive, NEW w \in Workers, LocalOK(w)', pc[w] # "audit",
         \A v \in Workers : v # w => pc'[v] = pc[v] /\ job'[v] = job[v],
         UNCHANGED <<approvals, clock, crashes>>,
         audit \subseteq audit', \A r \in audit' \ audit : r.what = "refused",
         \A e \in events' \ events : e.what # "resolved"
  PROVE  Inductive'
<1>1. Forward BY ConstantsAssumption DEF Forward, Exists, TypeOK
<1>2. \A v \in Workers : LocalOK(v)'
      BY <1>1, OthersKeepLocalOK DEF Inductive
<1>3. \A a, s : Resolution(a, s)' = Resolution(a, s)
      BY DEF Resolution
<1>4. RowIsOneDecision' BY DEF Inductive, RowIsOneDecision
<1>5. AuditedOrInFlight' BY <1>3 DEF Inductive, AuditedOrInFlight, Settled
<1>6. PublishedIsAudited' BY <1>3 DEF Inductive, PublishedIsAudited
<1>7. AuditedResponseWasDecided'
      BY <1>3 DEF Inductive, AuditedResponseWasDecided, OutcomeOf
<1> QED BY <1>2, <1>4, <1>5, <1>6, <1>7 DEF Inductive

-----------------------------------------------------------------------------
(* One lemma per action: it keeps TypeOK and Inductive *)

Inv == TypeOK /\ Inductive

LEMMA CreateStep ==
  ASSUME Inv, NEW w \in Workers, NEW a \in Approvals, NEW t \in Deadlines,
         NEW label \in {"audit", "park"}, CreateApproval(w, a, t, label),
         calls' \in 0..MaxCalls
  PROVE  Inv'
<1> USE ConstantsAssumption
<1> DEFINE j == [NoJob EXCEPT !.op = "request", !.id = a, !.out = "pending", !.by = Runtime]
<1>0. label \in Labels BY DEF Labels
<1>1. j \in Job BY NoJobTyped DEF Job, Ops, States, Actors
<1>2. /\ pc[w] = "idle" /\ pc'[w] = label /\ job'[w] = [j EXCEPT !.cur = j.id, !.begun = clock]
      /\ pc' \in [Workers -> Labels] /\ job' \in [Workers -> Job]
      /\ \A v \in Workers : v # w => pc'[v] = pc[v] /\ job'[v] = job[v]
  <2>1. TypeOK /\ Begin(w, label, j) BY DEF CreateApproval, Inv
  <2> QED BY <1>0, <1>1, <2>1, BeginStep
<1>3. /\ approvals[a].state = "absent"
      /\ approvals' = [approvals EXCEPT ![a] = [@ EXCEPT !.state = "pending", !.expiresAt = t]]
      /\ UNCHANGED <<waiting, proposals, responses, audit, events, told, clock, crashes>>
      BY DEF CreateApproval
<1>4. approvals' \in [Approvals -> Row]
  <2>0. approvals[a] \in Row BY DEF TypeOK, Inv
  <2>1. [approvals[a] EXCEPT !.state = "pending", !.expiresAt = t] \in Row
        BY <2>0 DEF Row, States
  <2> QED BY <1>3, <2>1 DEF TypeOK, Inv
<1>5. TypeOK' BY <1>2, <1>3, <1>4 DEF TypeOK, Inv
<1>6. \A b \in Approvals : b # a => approvals'[b] = approvals[b]
      BY <1>3 DEF TypeOK, Inv
<1>7. /\ approvals'[a].state = "pending" /\ approvals'[a].expiresAt = t
      /\ approvals'[a].scope = approvals[a].scope /\ approvals'[a].actor = approvals[a].actor
      BY <1>3 DEF TypeOK, Row, Inv
<1>8. Forward BY <1>3, <1>6, <1>7 DEF Forward, Exists, TypeOK, Inv
<1>9. LocalOK(w)'
  <2>1. /\ job'[w].op = "request" /\ job'[w].id = a /\ job'[w].cur = a /\ job'[w].out = "pending"
        /\ job'[w].begun = clock /\ job'[w].seen = {}
        BY <1>2 DEF NoJob
  <2>2. HasTarget(w)' BY <2>1, <1>2, <1>3, <1>7 DEF HasTarget, Exists, TypeOK, Inv
  <2> QED BY <2>1, <2>2, <1>2
       DEF LocalOK, OpFollowsPc, SeenFollowsPc, DecisionIsSound, ResponseDecides,
           HasAudited, IsTimely, CoversTarget
<1>10. \A v \in Workers : LocalOK(v)'
       BY <1>2, <1>5, <1>8, <1>9, OthersKeepLocalOK DEF Inv, Inductive
<1>11. RowIsOneDecision' BY <1>3, <1>6, <1>7 DEF Inv, Inductive, RowIsOneDecision
<1>12. \A b, s : Resolution(b, s)' = Resolution(b, s) BY <1>3 DEF Resolution
<1>13. AuditedOrInFlight'
  <2> SUFFICES ASSUME crashes' = 0, NEW b \in Approvals, Settled(b)'
               PROVE  \/ Resolution(b, approvals'[b].state) # {}
                      \/ \E v \in Workers : /\ pc'[v] = "audit" /\ job'[v].cur = b
                                            /\ job'[v].out = approvals'[b].state
      BY <1>12 DEF AuditedOrInFlight
  <2>1. b # a /\ approvals'[b] = approvals[b] /\ Settled(b) /\ crashes = 0
        BY <1>3, <1>6, <1>7 DEF Settled, Terminal
  <2> QED BY <2>1, <1>2 DEF Inv, Inductive, AuditedOrInFlight
<1>14. PublishedIsAudited' /\ AuditedResponseWasDecided'
       BY <1>3, <1>12 DEF Inv, Inductive, PublishedIsAudited, AuditedResponseWasDecided, OutcomeOf
<1> QED BY <1>5, <1>10, <1>11, <1>13, <1>14 DEF Inv, Inductive

LEMMA DecideStep ==
  ASSUME Inv, NEW w \in Workers, NEW a \in Approvals, NEW d \in Devices,
         NEW decision \in Decisions, BeginDecide(w, d, a, decision[1], decision[2]),
         calls' \in 0..MaxCalls
  PROVE  Inv'
<1> USE ConstantsAssumption
<1> DEFINE j == [NoJob EXCEPT !.op = "decide", !.id = a, !.out = decision[1],
                              !.scope = decision[2], !.by = d]
<1>1. /\ decision[1] \in Terminal /\ decision[2] \in Scopes \cup {None}
      /\ decision[1] \in {"approved", "denied"} => decision[2] \in Scopes
      /\ decision[1] \in {"expired", "cancelled"} => decision[2] = None
      BY DEF Terminal
<1>2. j \in Job BY NoJobTyped, <1>1 DEF Job, Ops, Actors, States
<1>3. /\ pc[w] = "idle" /\ pc'[w] = "read" /\ job'[w] = [j EXCEPT !.cur = j.id, !.begun = clock]
      /\ pc' \in [Workers -> Labels] /\ job' \in [Workers -> Job]
      /\ \A v \in Workers : v # w => pc'[v] = pc[v] /\ job'[v] = job[v]
      BY <1>2, BeginStep DEF BeginDecide, Labels, Inv
<1>4. Exists(a) /\ d \in Approvers /\ UNCHANGED <<tables, told, clock, crashes>>
      BY DEF BeginDecide
<1>5. TypeOK' BY <1>3, <1>4 DEF TypeOK, tables, Inv
<1>6. LocalOK(w)'
  <2>1. /\ job'[w].op = "decide" /\ job'[w].id = a /\ job'[w].cur = a /\ job'[w].begun = clock
        /\ job'[w].seen = {} /\ job'[w].out = decision[1] /\ job'[w].scope = decision[2]
        /\ job'[w].by = d
        BY <1>3 DEF NoJob
  <2>2. HasTarget(w)' BY <2>1, <1>3, <1>4 DEF HasTarget, Exists, TypeOK, Inv, tables
  <2>3. DecisionIsSound(w)' BY <2>1, <1>1, <1>3, <1>4 DEF DecisionIsSound, Sound
  <2> QED BY <2>1, <2>2, <2>3, <1>3
       DEF LocalOK, OpFollowsPc, SeenFollowsPc, ResponseDecides, HasAudited, IsTimely, CoversTarget
<1> QED BY <1>3, <1>4, <1>5, <1>6, QuietStep DEF Inv, tables

LEMMA RefuseStep ==
  ASSUME Inv, NEW w \in Workers, NEW a \in Approvals, NEW d \in Devices,
         RefuseDevice(w, d, a), calls' \in 0..MaxCalls
  PROVE  Inv'
<1> USE ConstantsAssumption
<1>1. TypeOK' BY DEF RefuseDevice, TypeOK, Record, States, Actors, Inv
<1>2. Forward BY DEF RefuseDevice, Forward, Exists, TypeOK, Inv
<1>3. LocalOK(w)' BY <1>1, <1>2, OthersKeepLocalOK DEF Inv, Inductive, RefuseDevice
<1> QED BY <1>1, <1>3, QuietStep DEF RefuseDevice, Inv

LEMMA RespondStep ==
  ASSUME Inv, NEW w \in Workers, NEW a \in Approvals, NEW d \in Devices,
         NEW type \in ResponseTypes, BeginRespond(w, d, a, type), calls' \in 0..MaxCalls
  PROVE  Inv'
<1> USE ConstantsAssumption
<1> DEFINE j == [NoJob EXCEPT !.op = "respond", !.id = a, !.out = OutcomeOf(type),
                              !.scope = ScopeOf(type), !.by = d, !.type = type]
           label == IF type = "propose_policy" THEN "propose" ELSE "record"
<1>1. /\ OutcomeOf(type) \in States /\ ScopeOf(type) \in Scopes \cup {None}
      /\ type \in Decisive => OutcomeOf(type) \in {"approved", "denied"} /\ ScopeOf(type) \in Scopes
      BY DEF OutcomeOf, ScopeOf, States, Terminal, Scopes, Decisive
<1>2. j \in Job BY NoJobTyped, <1>1 DEF Job, Ops, Actors
<1>3. /\ label \in Labels /\ label \in {"propose", "record"} BY DEF Labels
<1>4. /\ pc[w] = "idle" /\ pc'[w] = label /\ job'[w] = [j EXCEPT !.cur = j.id, !.begun = clock]
      /\ pc' \in [Workers -> Labels] /\ job' \in [Workers -> Job]
      /\ \A v \in Workers : v # w => pc'[v] = pc[v] /\ job'[v] = job[v]
      BY <1>2, <1>3, BeginStep DEF BeginRespond, Inv
<1>5. Exists(a) /\ d \in Approvers /\ UNCHANGED <<tables, told, clock, crashes>>
      BY DEF BeginRespond
<1>6. TypeOK' BY <1>4, <1>5 DEF TypeOK, tables, Inv
<1>7. LocalOK(w)'
  <2>1. /\ job'[w].op = "respond" /\ job'[w].id = a /\ job'[w].cur = a /\ job'[w].begun = clock
        /\ job'[w].seen = {} /\ job'[w].out = OutcomeOf(type) /\ job'[w].scope = ScopeOf(type)
        /\ job'[w].by = d /\ job'[w].type = type
        BY <1>4 DEF NoJob
  <2>2. HasTarget(w)' BY <2>1, <1>3, <1>4, <1>5 DEF HasTarget, Exists, TypeOK, Inv, tables
  <2>3. DecisionIsSound(w)' BY <2>1, <1>1, <1>3, <1>4, <1>5 DEF DecisionIsSound, Sound, Terminal
  <2>4. ResponseDecides(w)' BY <2>1, <1>3, <1>4 DEF ResponseDecides, OutcomeOf
  <2> QED BY <2>1, <2>2, <2>3, <2>4, <1>3, <1>4
       DEF LocalOK, OpFollowsPc, SeenFollowsPc, HasAudited, IsTimely, CoversTarget
<1> QED BY <1>4, <1>5, <1>6, <1>7, QuietStep DEF Inv, tables

LEMMA CancelStep ==
  ASSUME Inv, NEW w \in Workers, NEW a \in Approvals, BeginCancel(w, a), calls' \in 0..MaxCalls
  PROVE  Inv'
<1> USE ConstantsAssumption
<1> DEFINE j == [NoJob EXCEPT !.op = "cancel", !.id = a, !.out = "cancelled", !.by = Runtime]
<1>1. j \in Job BY NoJobTyped DEF Job, Ops, Actors, States, Terminal
<1>2. /\ pc[w] = "idle" /\ pc'[w] = "read" /\ job'[w] = [j EXCEPT !.cur = j.id, !.begun = clock]
      /\ pc' \in [Workers -> Labels] /\ job' \in [Workers -> Job]
      /\ \A v \in Workers : v # w => pc'[v] = pc[v] /\ job'[v] = job[v]
      BY <1>1, BeginStep DEF BeginCancel, Labels, Inv
<1>3. Exists(a) /\ UNCHANGED <<tables, told, clock, crashes>> BY DEF BeginCancel
<1>4. TypeOK' BY <1>2, <1>3 DEF TypeOK, tables, Inv
<1>5. LocalOK(w)'
  <2>1. /\ job'[w].op = "cancel" /\ job'[w].id = a /\ job'[w].cur = a /\ job'[w].begun = clock
        /\ job'[w].seen = {} /\ job'[w].out = "cancelled" /\ job'[w].scope = None
        BY <1>2 DEF NoJob
  <2>2. HasTarget(w)' BY <2>1, <1>2, <1>3 DEF HasTarget, Exists, TypeOK, Inv, tables
  <2> QED BY <2>1, <2>2, <1>2
       DEF LocalOK, OpFollowsPc, SeenFollowsPc, DecisionIsSound, Sound, Terminal,
           ResponseDecides, HasAudited, IsTimely, CoversTarget
<1> QED BY <1>2, <1>3, <1>4, <1>5, QuietStep DEF Inv, tables

LEMMA PollStep ==
  ASSUME Inv, NEW w \in Workers, NEW a \in Approvals, Poll(w, a)
  PROVE  Inv'
<1> USE ConstantsAssumption
<1> DEFINE j == [NoJob EXCEPT !.op = "poll", !.id = a]
<1>1. j \in Job BY NoJobTyped DEF Job, Ops
<1>2. /\ pc[w] = "idle" /\ pc'[w] = "list" /\ job'[w] = [j EXCEPT !.cur = j.id, !.begun = clock]
      /\ pc' \in [Workers -> Labels] /\ job' \in [Workers -> Job]
      /\ \A v \in Workers : v # w => pc'[v] = pc[v] /\ job'[v] = job[v]
      BY <1>1, BeginStep DEF Poll, BeginPoll, Labels, Inv
<1>3. Exists(a) /\ UNCHANGED <<tables, told, clock, calls, crashes>> BY DEF Poll, BeginPoll
<1>4. TypeOK' BY <1>2, <1>3 DEF TypeOK, tables, Inv
<1>5. LocalOK(w)'
  <2>1. /\ job'[w].op = "poll" /\ job'[w].id = a /\ job'[w].cur = a /\ job'[w].begun = clock
        /\ job'[w].seen = {}
        BY <1>2 DEF NoJob
  <2>2. HasTarget(w)' BY <2>1, <1>2, <1>3 DEF HasTarget, Exists, TypeOK, Inv, tables
  <2> QED BY <2>1, <2>2, <1>2
       DEF LocalOK, OpFollowsPc, SeenFollowsPc, DecisionIsSound,
           ResponseDecides, HasAudited, IsTimely, CoversTarget
<1> QED BY <1>2, <1>3, <1>4, <1>5, QuietStep DEF Inv, tables

\* What a busy worker's local invariant says of its job.
LEMMA BusyJob ==
  ASSUME Inv, NEW w \in Workers, pc[w] # "idle"
  PROVE  /\ job[w] \in Job /\ LocalOK(w)
         /\ job[w].id \in Approvals /\ Exists(job[w].id)
         /\ job[w].cur \in Approvals
         /\ clock \in Nat /\ job[w].begun \in Nat /\ job[w].begun <= clock
         /\ job[w].op # "poll" => job[w].cur = job[w].id
BY ConstantsAssumption DEF Inv, Inductive, LocalOK, HasTarget, TypeOK, Job

\* Returning to the pool leaves nothing behind.
LEMMA ReturnStep ==
  ASSUME TypeOK, NEW w \in Workers, Return(w)
  PROVE  /\ pc' \in [Workers -> Labels] /\ job' \in [Workers -> Job]
         /\ pc'[w] = "idle" /\ job'[w] = NoJob /\ LocalOK(w)'
         /\ \A v \in Workers : v # w => pc'[v] = pc[v] /\ job'[v] = job[v]
<1>1. /\ pc' \in [Workers -> Labels] /\ job' \in [Workers -> Job]
      /\ pc'[w] = "idle" /\ job'[w] = NoJob
      /\ \A v \in Workers : v # w => pc'[v] = pc[v] /\ job'[v] = job[v]
      BY NoJobTyped, GotoStep DEF Return, Labels
<1>2. LocalOK(w)'
      BY <1>1 DEF NoJob, LocalOK, HasTarget, OpFollowsPc, SeenFollowsPc, DecisionIsSound,
                  ResponseDecides, HasAudited, IsTimely, CoversTarget
<1> QED BY <1>1, <1>2

LEMMA ParkStep ==
  ASSUME Inv, NEW w \in Workers, Park(w), UNCHANGED calls PROVE Inv'
<1>1. pc[w] = "park" /\ Goto(w, "announce", job[w]) BY DEF Park
<1>2. /\ pc'[w] = "announce" /\ job'[w] = job[w]
      /\ pc' \in [Workers -> Labels] /\ job' \in [Workers -> Job]
      /\ \A v \in Workers : v # w => pc'[v] = pc[v] /\ job'[v] = job[v]
      BY <1>1, BusyJob, GotoStep DEF Labels, Inv
<1>3. TypeOK' BY <1>1, <1>2, BusyJob DEF Park, TypeOK, Inv
<1>4. LocalOK(w)'
      BY <1>1, <1>2, BusyJob DEF Park, LocalOK, HasTarget, Exists, OpFollowsPc, SeenFollowsPc,
         DecisionIsSound, ResponseDecides, HasAudited, IsTimely, CoversTarget
<1> QED BY <1>1, <1>2, <1>3, <1>4, QuietStep DEF Park, Inv

LEMMA AnnounceStep ==
  ASSUME Inv, NEW w \in Workers, Announce(w), UNCHANGED calls PROVE Inv'
<1>1. pc[w] = "announce" /\ Goto(w, "audit", job[w]) BY DEF Announce
<1>2. /\ pc'[w] = "audit" /\ job'[w] = job[w]
      /\ pc' \in [Workers -> Labels] /\ job' \in [Workers -> Job]
      /\ \A v \in Workers : v # w => pc'[v] = pc[v] /\ job'[v] = job[v]
      BY <1>1, BusyJob, GotoStep DEF Labels, Inv
<1>3. TypeOK' BY <1>1, <1>2, BusyJob DEF Announce, TypeOK, Inv, Event, States
<1>4. LocalOK(w)'
      BY <1>1, <1>2, BusyJob DEF Announce, LocalOK, HasTarget, Exists, OpFollowsPc,
         SeenFollowsPc, DecisionIsSound, ResponseDecides, HasAudited, IsTimely, CoversTarget
<1> QED BY <1>1, <1>2, <1>3, <1>4, QuietStep DEF Announce, Inv

LEMMA ProposeStep ==
  ASSUME Inv, NEW w \in Workers, Propose(w), UNCHANGED calls PROVE Inv'
<1>1. pc[w] = "propose" /\ Goto(w, "record", job[w]) BY DEF Propose
<1>2. /\ pc'[w] = "record" /\ job'[w] = job[w]
      /\ pc' \in [Workers -> Labels] /\ job' \in [Workers -> Job]
      /\ \A v \in Workers : v # w => pc'[v] = pc[v] /\ job'[v] = job[v]
      BY <1>1, BusyJob, GotoStep DEF Labels, Inv
<1>3. job[w].by \in Devices
      BY <1>1, BusyJob DEF LocalOK, OpFollowsPc, ResponseDecides
<1>4. TypeOK' BY <1>1, <1>2, <1>3, BusyJob DEF Propose, TypeOK, Inv
<1>5. LocalOK(w)'
      BY <1>1, <1>2, BusyJob DEF Propose, LocalOK, HasTarget, Exists, OpFollowsPc,
         SeenFollowsPc, DecisionIsSound, ResponseDecides, HasAudited, IsTimely, CoversTarget,
         OutcomeOf
<1> QED BY <1>1, <1>2, <1>4, <1>5, QuietStep DEF Propose, Inv

LEMMA RecordStep ==
  ASSUME Inv, NEW w \in Workers, RecordResponse(w), UNCHANGED calls PROVE Inv'
<1> DEFINE label == IF job[w].type \in Decisive THEN "read" ELSE "auditResponse"
<1>1. pc[w] = "record" /\ Goto(w, label, job[w]) BY DEF RecordResponse
<1>2. label \in Labels BY DEF Labels
<1>3. /\ pc'[w] = label /\ job'[w] = job[w]
      /\ pc' \in [Workers -> Labels] /\ job' \in [Workers -> Job]
      /\ \A v \in Workers : v # w => pc'[v] = pc[v] /\ job'[v] = job[v]
      BY <1>1, <1>2, BusyJob, GotoStep DEF Inv
<1>4. /\ job[w].op = "respond" /\ job[w].type \in ResponseTypes /\ job[w].by \in Devices
      /\ job[w].out = OutcomeOf(job[w].type) /\ job[w].seen = {}
      /\ job[w].type \in Decisive => Sound(job[w])
      BY <1>1, BusyJob DEF LocalOK, OpFollowsPc, ResponseDecides, SeenFollowsPc, DecisionIsSound
<1>5. TypeOK' BY <1>1, <1>3, <1>4, BusyJob DEF RecordResponse, TypeOK, Inv
<1>6. HasTarget(w)' BY <1>1, <1>3, BusyJob DEF RecordResponse, HasTarget, Exists
<1>7. DecisionIsSound(w)' BY <1>3, <1>4 DEF DecisionIsSound, Sound
<1>8. ResponseDecides(w)' BY <1>3, <1>4 DEF ResponseDecides, OutcomeOf
<1>9. LocalOK(w)'
      BY <1>3, <1>4, <1>6, <1>7, <1>8 DEF LocalOK, OpFollowsPc, SeenFollowsPc, HasAudited,
         IsTimely, CoversTarget
<1> QED BY <1>1, <1>3, <1>5, <1>9, QuietStep DEF RecordResponse, Inv

LEMMA ReadStep ==
  ASSUME Inv, NEW w \in Workers, Read(w), UNCHANGED calls PROVE Inv'
<1> DEFINE j == job[w]
<1>1. pc[w] = "read" /\ UNCHANGED <<tables, told, clock, crashes>> BY DEF Read
<1>2. /\ j.op \in {"decide", "respond", "cancel"} /\ Sound(j) /\ j.seen = {}
      /\ j.op = "respond" => /\ j.type \in ResponseTypes /\ j.by \in Devices
                             /\ j.out = OutcomeOf(j.type)
      BY <1>1, BusyJob DEF LocalOK, OpFollowsPc, DecisionIsSound, SeenFollowsPc, ResponseDecides
<1>3. CASE j.id \in Pending
  <2> DEFINE k == [j EXCEPT !.seen = {j.id}]
             label == IF j.op = "cancel" THEN "write" ELSE "judge"
  <2>1. Goto(w, label, k) /\ label \in Labels BY <1>3 DEF Read, Labels
  <2>2. k \in Job BY <1>1, BusyJob DEF Job
  <2>3. /\ pc'[w] = label /\ job'[w] = k
        /\ pc' \in [Workers -> Labels] /\ job' \in [Workers -> Job]
        /\ \A v \in Workers : v # w => pc'[v] = pc[v] /\ job'[v] = job[v]
        BY <2>1, <2>2, GotoStep DEF Inv
  <2>4. /\ k.op = j.op /\ k.id = j.id /\ k.cur = j.cur /\ k.out = j.out /\ k.scope = j.scope
        /\ k.by = j.by /\ k.type = j.type /\ k.begun = j.begun /\ k.seen = {j.cur}
        BY <1>1, <1>2, BusyJob DEF Job
  <2>5. TypeOK' BY <1>1, <2>3 DEF TypeOK, tables, Inv
  <2>6. HasTarget(w)' BY <1>1, <2>3, <2>4, BusyJob DEF HasTarget, Exists, tables
  <2>7. DecisionIsSound(w)' BY <1>2, <2>3, <2>4 DEF DecisionIsSound, Sound
  <2>8. ResponseDecides(w)' BY <1>2, <2>3, <2>4 DEF ResponseDecides, OutcomeOf
  <2>9. j.op = "cancel" => j.out \notin {"approved", "denied"}
        BY <1>1, BusyJob DEF LocalOK, OpFollowsPc
  <2>10. LocalOK(w)'
        BY <1>2, <2>3, <2>4, <2>6, <2>7, <2>8, <2>9
        DEF LocalOK, OpFollowsPc, SeenFollowsPc, HasAudited, IsTimely, CoversTarget
  <2> QED BY <1>1, <2>3, <2>5, <2>10, QuietStep DEF Inv, tables
<1>4. CASE j.id \notin Pending /\ j.op = "cancel"
  <2>1. Goto(w, "list", j) BY <1>4 DEF Read
  <2>2. /\ pc'[w] = "list" /\ job'[w] = j
        /\ pc' \in [Workers -> Labels] /\ job' \in [Workers -> Job]
        /\ \A v \in Workers : v # w => pc'[v] = pc[v] /\ job'[v] = job[v]
        BY <1>1, <2>1, BusyJob, GotoStep DEF Inv, Labels
  <2>3. TypeOK' BY <1>1, <2>2 DEF TypeOK, tables, Inv
  <2>4. HasTarget(w)' BY <1>1, <2>2, BusyJob DEF HasTarget, Exists, tables
  <2>5. LocalOK(w)'
        BY <1>2, <1>4, <2>2, <2>4 DEF LocalOK, OpFollowsPc, SeenFollowsPc, DecisionIsSound,
           ResponseDecides, HasAudited, IsTimely, CoversTarget
  <2> QED BY <1>1, <2>2, <2>3, <2>5, QuietStep DEF Inv, tables
<1>5. CASE j.id \notin Pending /\ j.op # "cancel"
  <2>1. Return(w) BY <1>5 DEF Read
  <2>2. TypeOK' BY <1>1, <2>1, ReturnStep DEF TypeOK, tables, Inv
  <2> QED BY <1>1, <2>1, <2>2, ReturnStep, QuietStep DEF Inv, tables
<1> QED BY <1>3, <1>4, <1>5

LEMMA JudgeStep ==
  ASSUME Inv, NEW w \in Workers, Judge(w), UNCHANGED calls PROVE Inv'
<1> DEFINE j == job[w]
           late == j.out \in {"approved", "denied"} /\ Expired(j.id)
           k == IF late THEN AsExpiry(j) ELSE j
<1>1. /\ pc[w] = "judge" /\ Goto(w, "write", k)
      /\ UNCHANGED <<tables, told, clock, crashes>>
      BY DEF Judge
<1>2. /\ j.op \in {"decide", "respond", "cancel"} /\ Sound(j) /\ j.seen = {j.cur}
      /\ j.op = "respond" => /\ j.type \in ResponseTypes /\ j.out = OutcomeOf(j.type)
      BY <1>1, BusyJob DEF LocalOK, OpFollowsPc, DecisionIsSound, SeenFollowsPc, ResponseDecides
<1>3. /\ k \in Job /\ k.op = j.op /\ k.id = j.id /\ k.cur = j.cur
      /\ k.begun = j.begun /\ k.seen = j.seen /\ k.type = j.type
      BY <1>1, BusyJob DEF AsExpiry, Job, States, Terminal, Actors
<1>4. /\ late => k.out = "expired" /\ k.scope = None
      /\ ~late => k = j
      BY <1>1, BusyJob DEF AsExpiry, Job
<1>5. /\ pc'[w] = "write" /\ job'[w] = k
      /\ pc' \in [Workers -> Labels] /\ job' \in [Workers -> Job]
      /\ \A v \in Workers : v # w => pc'[v] = pc[v] /\ job'[v] = job[v]
      BY <1>1, <1>3, GotoStep DEF Inv, Labels
<1>6. TypeOK' BY <1>1, <1>5 DEF TypeOK, tables, Inv
<1>7. HasTarget(w)' BY <1>1, <1>3, <1>5, BusyJob DEF HasTarget, Exists, tables
<1>8. DecisionIsSound(w)' BY <1>2, <1>4, <1>5 DEF DecisionIsSound, Sound, Terminal
<1>9. IsTimely(w)'
  <2> SUFFICES ASSUME k.out \in {"approved", "denied"}
               PROVE  j.begun < approvals[j.cur].expiresAt
      BY <1>1, <1>3, <1>5 DEF IsTimely, tables
  <2>1. ~Expired(j.id) /\ j.cur = j.id BY <1>1, <1>2, <1>4, BusyJob
  <2>2. approvals[j.id].expiresAt \in Nat
        BY <1>1, BusyJob, DeadlineTyped DEF Inv
  <2> QED BY <1>1, <2>1, <2>2, BusyJob DEF Expired
<1>10. ResponseDecides(w)' BY <1>2, <1>3, <1>4, <1>5 DEF ResponseDecides, OutcomeOf
<1>11. LocalOK(w)'
      BY <1>2, <1>3, <1>5, <1>7, <1>8, <1>9, <1>10
      DEF LocalOK, OpFollowsPc, SeenFollowsPc, HasAudited, CoversTarget
<1> QED BY <1>1, <1>5, <1>6, <1>11, QuietStep DEF Inv, tables

LEMMA ListStep ==
  ASSUME Inv, NEW w \in Workers, List(w), UNCHANGED calls PROVE Inv'
<1> DEFINE j == job[w]
           k == [j EXCEPT !.op = "poll", !.seen = Pending]
<1>1. pc[w] = "list" /\ Goto(w, "scan", k) /\ UNCHANGED <<tables, told, clock, crashes>>
      BY DEF List
<1>2. /\ k \in Job /\ k.op = "poll" /\ k.id = j.id /\ k.cur = j.cur
      /\ k.begun = j.begun /\ k.seen = Pending
      BY <1>1, BusyJob DEF Job, Ops, Pending
<1>3. /\ pc'[w] = "scan" /\ job'[w] = k
      /\ pc' \in [Workers -> Labels] /\ job' \in [Workers -> Job]
      /\ \A v \in Workers : v # w => pc'[v] = pc[v] /\ job'[v] = job[v]
      BY <1>1, <1>2, GotoStep DEF Inv, Labels
<1>4. TypeOK' BY <1>1, <1>3 DEF TypeOK, tables, Inv
<1>5. HasTarget(w)' BY <1>1, <1>2, <1>3, BusyJob DEF HasTarget, Exists, tables
<1>6. CoversTarget(w)' BY <1>1, <1>2, <1>3, BusyJob DEF CoversTarget, Pending, tables
<1>7. LocalOK(w)'
      BY <1>2, <1>3, <1>5, <1>6 DEF LocalOK, OpFollowsPc, SeenFollowsPc, DecisionIsSound,
         ResponseDecides, HasAudited, IsTimely
<1> QED BY <1>1, <1>3, <1>4, <1>7, QuietStep DEF Inv, tables

LEMMA ScanStep ==
  ASSUME Inv, NEW w \in Workers, NEW a \in Approvals, Scan(w, a), UNCHANGED calls PROVE Inv'
<1> DEFINE j == job[w]
<1>1. /\ pc[w] = "scan" /\ a \in j.seen /\ UNCHANGED <<tables, told, clock, crashes>>
      BY DEF Scan
<1>2. j.op = "poll" /\ CoversTarget(w) BY <1>1, BusyJob DEF LocalOK, OpFollowsPc
<1>4. CASE Expired(a)
  <2> DEFINE k == AsExpiry([j EXCEPT !.cur = a])
  <2>1. Goto(w, "write", k) BY <1>4 DEF Scan
  <2>2. /\ k \in Job /\ k.op = "poll" /\ k.id = j.id /\ k.cur = a /\ k.out = "expired"
        /\ k.scope = None /\ k.begun = j.begun /\ k.seen = j.seen
        BY <1>1, <1>2, BusyJob DEF AsExpiry, Job, States, Terminal, Actors
  <2>3. /\ pc'[w] = "write" /\ job'[w] = k
        /\ pc' \in [Workers -> Labels] /\ job' \in [Workers -> Job]
        /\ \A v \in Workers : v # w => pc'[v] = pc[v] /\ job'[v] = job[v]
        BY <2>1, <2>2, GotoStep DEF Inv, Labels
  <2>4. TypeOK' BY <1>1, <2>3 DEF TypeOK, tables, Inv
  <2>5. HasTarget(w)' BY <1>1, <2>2, <2>3, BusyJob DEF HasTarget, Exists, tables
  <2>6. CoversTarget(w)' BY <1>1, <1>2, <2>2, <2>3 DEF CoversTarget, tables
  <2>8. LocalOK(w)'
        BY <1>1, <2>2, <2>3, <2>5, <2>6 DEF LocalOK, OpFollowsPc, SeenFollowsPc,
           DecisionIsSound, Sound, Terminal, ResponseDecides, HasAudited, IsTimely
  <2> QED BY <1>1, <2>3, <2>4, <2>8, QuietStep DEF Inv, tables
<1>5. CASE ~Expired(a)
  <2> DEFINE k == [j EXCEPT !.seen = @ \ {a}]
  <2>1. Goto(w, "scan", k) BY <1>5 DEF Scan
  <2>2. /\ k \in Job /\ k.op = "poll" /\ k.id = j.id /\ k.cur = j.cur
        /\ k.begun = j.begun /\ k.seen = j.seen \ {a}
        BY <1>1, <1>2, BusyJob DEF Job
  <2>3. /\ pc'[w] = "scan" /\ job'[w] = k
        /\ pc' \in [Workers -> Labels] /\ job' \in [Workers -> Job]
        /\ \A v \in Workers : v # w => pc'[v] = pc[v] /\ job'[v] = job[v]
        BY <2>1, <2>2, GotoStep DEF Inv, Labels
  <2>4. TypeOK' BY <1>1, <2>3 DEF TypeOK, tables, Inv
  <2>5. HasTarget(w)' BY <1>1, <2>2, <2>3, BusyJob DEF HasTarget, Exists, tables
  <2>6. CoversTarget(w)'
    <3>1. approvals[a].expiresAt \in Nat
          BY DeadlineTyped DEF Inv
    <3>2. j.begun < approvals[a].expiresAt
          BY <1>1, <1>5, <3>1, BusyJob DEF Expired
    <3> QED BY <1>1, <1>2, <2>2, <2>3, <3>2 DEF CoversTarget, tables
  <2>8. LocalOK(w)'
        BY <2>2, <2>3, <2>5, <2>6 DEF LocalOK, OpFollowsPc, SeenFollowsPc,
           DecisionIsSound, ResponseDecides, HasAudited, IsTimely
  <2> QED BY <1>1, <2>3, <2>4, <2>8, QuietStep DEF Inv, tables
<1> QED BY <1>4, <1>5

LEMMA AnswerStep ==
  ASSUME Inv, NEW w \in Workers, Answer(w), UNCHANGED calls PROVE Inv'
<1>1. /\ pc[w] = "scan" /\ Return(w) /\ UNCHANGED <<tables, clock, crashes>>
      /\ told' = [told EXCEPT ![job[w].id] = @ \cup {approvals[job[w].id].state}]
      BY DEF Answer
<1>2. approvals[job[w].id].state \in States
      BY <1>1, BusyJob DEF Inv, TypeOK, Row
<1>3. told' \in [Approvals -> SUBSET States] BY <1>1, <1>2 DEF Inv, TypeOK
<1>4. TypeOK' BY <1>1, <1>3, ReturnStep DEF TypeOK, tables, Inv
<1> QED BY <1>1, <1>4, ReturnStep, QuietStep DEF Inv, tables

LEMMA PublishResponseStep ==
  ASSUME Inv, NEW w \in Workers, PublishResponse(w), UNCHANGED calls PROVE Inv'
<1>1. pc[w] = "eventResponse" /\ Return(w) BY DEF PublishResponse
<1>2. job[w].type \in ResponseTypes BY <1>1, BusyJob DEF LocalOK, OpFollowsPc
<1>3. TypeOK'
      BY <1>1, <1>2, BusyJob, ReturnStep DEF PublishResponse, TypeOK, Event, Inv
<1> QED BY <1>1, <1>3, ReturnStep, QuietStep DEF PublishResponse, Inv

\* The UPDATE settles cur with w's decision, and w is then the one to audit it.
LEMMA WriteStep ==
  ASSUME Inv, NEW w \in Workers, Write(w), UNCHANGED calls PROVE Inv'
<1> DEFINE j == job[w]
           k == [j EXCEPT !.seen = @ \ {j.cur}]
           b == j.cur
           actor == IF j.by \in Devices THEN j.by ELSE None
<1>1. /\ pc[w] = "write" /\ Goto(w, "audit", k)
      /\ approvals' = [approvals EXCEPT ![b] =
                         [@ EXCEPT !.state = j.out, !.scope = j.scope, !.actor = actor]]
      /\ UNCHANGED <<waiting, proposals, responses, audit, events, told, clock, crashes>>
      BY DEF Write
<1>2. /\ b \in Approvals /\ Sound(j) /\ j.op # "request" /\ j \in Job
      /\ j.op # "poll" => j.seen = {b}
      /\ j.op = "respond" => /\ j.type \in ResponseTypes
                             /\ j.out = "expired" \/ j.out = OutcomeOf(j.type)
      BY <1>1, BusyJob DEF LocalOK, OpFollowsPc, DecisionIsSound, SeenFollowsPc, ResponseDecides
<1>3. /\ k \in Job /\ k.op = j.op /\ k.id = j.id /\ k.cur = b /\ k.out = j.out
      /\ k.scope = j.scope /\ k.by = j.by /\ k.type = j.type /\ k.begun = j.begun
      /\ k.seen = j.seen \ {b}
      BY <1>2 DEF Job
<1>4. /\ pc'[w] = "audit" /\ job'[w] = k
      /\ pc' \in [Workers -> Labels] /\ job' \in [Workers -> Job]
      /\ \A v \in Workers : v # w => pc'[v] = pc[v] /\ job'[v] = job[v]
      BY <1>1, <1>3, GotoStep DEF Inv, Labels
<1>5. /\ approvals' \in [Approvals -> Row]
      /\ approvals'[b].state = j.out /\ approvals'[b].scope = j.scope
      /\ approvals'[b].actor = actor /\ approvals'[b].expiresAt = approvals[b].expiresAt
      /\ \A a \in Approvals : a # b => approvals'[a] = approvals[a]
  <2> DEFINE row == [approvals[b] EXCEPT !.state = j.out, !.scope = j.scope, !.actor = actor]
  <2>1. approvals[b] \in Row /\ approvals \in [Approvals -> Row] BY <1>2 DEF Inv, TypeOK
  <2>2. /\ row \in Row /\ row.state = j.out /\ row.scope = j.scope /\ row.actor = actor
        /\ row.expiresAt = approvals[b].expiresAt
        BY <1>2, <2>1 DEF Row, Job
  <2>3. approvals' = [approvals EXCEPT ![b] = row] BY <1>1
  <2> QED BY <1>2, <2>1, <2>2, <2>3
<1>6. TypeOK' BY <1>1, <1>4, <1>5 DEF TypeOK, Inv
<1>7. Forward
      BY <1>1, <1>2, <1>5 DEF Forward, Exists, Sound, Terminal, TypeOK, Inv
<1>8. LocalOK(w)'
  <2>1. HasTarget(w)'
        BY <1>1, <1>2, <1>3, <1>4, <1>7, BusyJob DEF HasTarget, Exists, Forward
  <2>2. DecisionIsSound(w)' BY <1>2, <1>3, <1>4 DEF DecisionIsSound, Sound
  <2>3. CoversTarget(w)'
    <3>1. CASE j.id = b BY <3>1, <1>2, <1>3, <1>4, <1>5 DEF CoversTarget, Sound, Terminal
    <3>2. CASE j.id # b
      <4>1. CoversTarget(w) /\ j.id \in Approvals BY <1>1, BusyJob DEF LocalOK
      <4>2. approvals'[j.id] = approvals[j.id] BY <3>2, <4>1, <1>5
      <4> QED BY <1>1, <1>3, <1>4, <3>2, <4>1, <4>2 DEF CoversTarget
    <3> QED BY <3>1, <3>2
  <2>4. ResponseDecides(w)' BY <1>2, <1>3, <1>4 DEF ResponseDecides, OutcomeOf
  <2> QED BY <1>2, <1>3, <1>4, <2>1, <2>2, <2>3, <2>4
       DEF LocalOK, OpFollowsPc, SeenFollowsPc, HasAudited, IsTimely
<1>9. \A v \in Workers : LocalOK(v)'
      BY <1>4, <1>6, <1>7, <1>8, OthersKeepLocalOK DEF Inv, Inductive
<1>10. RowIsOneDecision'
  <2> SUFFICES ASSUME NEW a \in Approvals
               PROVE  LET row == approvals'[a] IN
                 /\ row.state \in {"approved", "denied"} =>
                      row.actor \in Approvers /\ row.scope \in Scopes
                 /\ row.state \in {"expired", "cancelled"} => row.scope = None
                 /\ row.state \in {"absent", "pending"} => row.scope = None /\ row.actor = None
      BY DEF RowIsOneDecision
  <2>1. CASE a = b
        BY <2>1, <1>2, <1>5, ConstantsAssumption DEF Sound, Terminal
  <2>2. CASE a # b
        BY <2>2, <1>5 DEF Inv, Inductive, RowIsOneDecision
  <2> QED BY <2>1, <2>2
<1>11. \A a, s : Resolution(a, s)' = Resolution(a, s) BY <1>1 DEF Resolution
<1>12. AuditedOrInFlight'
  <2> SUFFICES ASSUME crashes' = 0, NEW a \in Approvals, Settled(a)'
               PROVE  \/ Resolution(a, approvals'[a].state) # {}
                      \/ \E v \in Workers : /\ pc'[v] = "audit" /\ job'[v].cur = a
                                            /\ job'[v].out = approvals'[a].state
      BY <1>11 DEF AuditedOrInFlight
  <2>1. CASE a = b BY <2>1, <1>3, <1>4, <1>5
  <2>2. CASE a # b
    <3>1. approvals'[a] = approvals[a] /\ Settled(a) /\ crashes = 0
          BY <2>2, <1>1, <1>5 DEF Settled
    <3>2. \/ Resolution(a, approvals[a].state) # {}
          \/ \E v \in Workers : /\ pc[v] = "audit" /\ job[v].cur = a
                                /\ job[v].out = approvals[a].state
          BY <3>1 DEF Inv, Inductive, AuditedOrInFlight
    <3> QED BY <3>1, <3>2, <1>1, <1>4
  <2> QED BY <2>1, <2>2
<1>13. PublishedIsAudited' /\ AuditedResponseWasDecided'
       BY <1>1, <1>11 DEF Inv, Inductive, PublishedIsAudited, AuditedResponseWasDecided, OutcomeOf
<1> QED BY <1>6, <1>9, <1>10, <1>12, <1>13 DEF Inv, Inductive

LEMMA AuditStep ==
  ASSUME Inv, NEW w \in Workers, Audit(w), UNCHANGED calls PROVE Inv'
<1> DEFINE j == job[w]
           r == [what |-> IF j.op = "request" THEN "requested" ELSE "resolved",
                 id |-> j.cur, detail |-> j.out, by |-> j.by]
<1>1. /\ pc[w] = "audit" /\ audit' = audit \cup {r} /\ Goto(w, "event", j)
      /\ UNCHANGED <<approvals, waiting, proposals, responses, events, told, clock, crashes>>
      BY DEF Audit
<1>2. /\ j \in Job /\ j.cur \in Approvals
      /\ j.op = "request" => j.out = "pending"
      /\ j.op # "request" => Sound(j)
      BY <1>1, BusyJob DEF LocalOK, OpFollowsPc, DecisionIsSound
<1>3. r \in Record BY <1>2 DEF Record, Job
<1>4. /\ pc'[w] = "event" /\ job'[w] = j
      /\ pc' \in [Workers -> Labels] /\ job' \in [Workers -> Job]
      /\ \A v \in Workers : v # w => pc'[v] = pc[v] /\ job'[v] = job[v]
      BY <1>1, <1>2, GotoStep DEF Inv, Labels
<1>5. TypeOK' BY <1>1, <1>3, <1>4 DEF TypeOK, Inv
<1>6. Forward BY <1>1, ConstantsAssumption DEF Forward, Exists, TypeOK, Inv
<1>7. \A a, s : Resolution(a, s) \subseteq Resolution(a, s)' BY <1>1 DEF Resolution
<1>8. j.op # "request" => \A a, s : (a = j.cur /\ s = j.out) => r \in Resolution(a, s)'
  <2> SUFFICES ASSUME j.op # "request", NEW a, NEW s, a = j.cur, s = j.out
               PROVE  r \in {q \in audit' : q.what = "resolved" /\ q.id = a /\ q.detail = s}
      BY DEF Resolution
  <2> QED BY <1>1
<1>9. LocalOK(w)'
  <2>1. HasTarget(w)' BY <1>1, <1>4, BusyJob DEF HasTarget, Exists
  <2>2. HasAudited(w)'
    <3>1. j.op # "request" => r \in Resolution(job[w].cur, job[w].out)' BY <1>4, <1>8
    <3>2. r.by = job'[w].by BY <1>4
    <3> QED BY <1>4, <3>1, <3>2 DEF HasAudited
  <2>3. ResponseDecides(w)' BY <1>1, <1>4, BusyJob DEF LocalOK, ResponseDecides, OutcomeOf
  <2> QED BY <1>1, <1>2, <1>4, <2>1, <2>2, <2>3, BusyJob
       DEF LocalOK, OpFollowsPc, SeenFollowsPc, DecisionIsSound, Sound, IsTimely, CoversTarget
<1>10. \A v \in Workers : LocalOK(v)'
       BY <1>4, <1>5, <1>6, <1>9, OthersKeepLocalOK DEF Inv, Inductive
<1>11. RowIsOneDecision' BY <1>1 DEF Inv, Inductive, RowIsOneDecision
<1>12. AuditedOrInFlight'
  <2> SUFFICES ASSUME crashes' = 0, NEW a \in Approvals, Settled(a)'
               PROVE  \/ Resolution(a, approvals[a].state)' # {}
                      \/ \E v \in Workers : /\ pc'[v] = "audit" /\ job'[v].cur = a
                                            /\ job'[v].out = approvals[a].state
      BY <1>1 DEF AuditedOrInFlight, Resolution
  <2>1. crashes = 0 /\ Settled(a) BY <1>1 DEF Settled
  <2>2. CASE Resolution(a, approvals[a].state) # {}
    <3>1. Resolution(a, approvals[a].state) \subseteq Resolution(a, approvals[a].state)'
          BY <1>1, <1>7
    <3> QED BY <2>2, <3>1
  <2>3. CASE \E v \in Workers : pc[v] = "audit" /\ job[v].cur = a /\ job[v].out = approvals[a].state
    <3> PICK v \in Workers : pc[v] = "audit" /\ job[v].cur = a /\ job[v].out = approvals[a].state
        BY <2>3
    <3>1. CASE v # w BY <3>1, <1>4
    <3>2. CASE v = w
      <4>1. j.op # "request" /\ j.cur = a /\ j.out = approvals[a].state
            BY <3>2, <1>2, <2>1 DEF Settled, Terminal
      <4>2. approvals'[a].state = j.out BY <4>1, <1>1
      <4>3. r \in Resolution(a, approvals[a].state)' BY <4>1, <4>2, <1>8
      <4> QED BY <4>3
    <3> QED BY <3>1, <3>2
  <2> QED BY <2>1, <2>2, <2>3 DEF Inv, Inductive, AuditedOrInFlight
<1>13. PublishedIsAudited'
  <2> SUFFICES ASSUME NEW e \in events, e.what = "resolved"
               PROVE  Resolution(e.id, e.detail)' # {}
      BY <1>1 DEF PublishedIsAudited, Resolution
  <2> QED BY <1>7 DEF Inv, Inductive, PublishedIsAudited
<1>14. AuditedResponseWasDecided'
  <2> SUFFICES ASSUME NEW q \in audit', q.what = "response", q.detail \in Decisive
               PROVE  \E p \in Resolution(q.id, OutcomeOf(q.detail))' : p.by = q.by
      BY DEF AuditedResponseWasDecided, OutcomeOf, Resolution
  <2>1. q \in audit BY <1>1
  <2> QED BY <2>1, <1>7 DEF Inv, Inductive, AuditedResponseWasDecided
<1> QED BY <1>5, <1>10, <1>11, <1>12, <1>13, <1>14 DEF Inv, Inductive

\* What a step of w that publishes, or audits a response, leaves of the invariant.
LEMMA LateStep ==
  ASSUME Inv, TypeOK', NEW w \in Workers, LocalOK(w)', pc[w] # "audit",
         \A v \in Workers : v # w => pc'[v] = pc[v] /\ job'[v] = job[v],
         UNCHANGED <<approvals, clock, crashes>>,
         audit \subseteq audit', \A r \in audit' \ audit : r.what = "response"
  PROVE  /\ \A v \in Workers : LocalOK(v)'
         /\ RowIsOneDecision' /\ AuditedOrInFlight'
         /\ \A a, s : Resolution(a, s)' = Resolution(a, s)
<1>1. Forward BY ConstantsAssumption DEF Forward, Exists, TypeOK, Inv
<1>2. \A v \in Workers : LocalOK(v)'
      BY <1>1, OthersKeepLocalOK DEF Inv, Inductive
<1>3. \A a, s : Resolution(a, s)' = Resolution(a, s) BY DEF Resolution
<1>4. RowIsOneDecision' BY DEF Inv, Inductive, RowIsOneDecision
<1>5. AuditedOrInFlight' BY <1>3 DEF Inv, Inductive, AuditedOrInFlight, Settled
<1> QED BY <1>2, <1>3, <1>4, <1>5

LEMMA PublishStep ==
  ASSUME Inv, NEW w \in Workers, Publish(w), UNCHANGED calls PROVE Inv'
<1> DEFINE j == job[w]
           e == [what |-> IF j.op = "request" THEN "requested" ELSE "resolved",
                 id |-> j.cur, detail |-> j.out]
<1>1. /\ pc[w] = "event" /\ events' = events \cup {e}
      /\ UNCHANGED <<approvals, waiting, proposals, responses, audit, told, clock, crashes>>
      BY DEF Publish
<1>2. /\ j \in Job /\ j.cur \in Approvals
      /\ j.op = "respond" => /\ j.type \in ResponseTypes
                             /\ j.out = "expired" \/ j.out = OutcomeOf(j.type)
      /\ j.op # "poll" => j.seen = {} /\ j.cur = j.id
      /\ j.op # "request" => \E q \in Resolution(j.cur, j.out) : q.by = j.by
      /\ CoversTarget(w)
      BY <1>1, BusyJob DEF LocalOK, OpFollowsPc, SeenFollowsPc, ResponseDecides, HasAudited
<1>3. e \in Event BY <1>2 DEF Event, Job
<1>4. /\ pc' \in [Workers -> Labels] /\ job' \in [Workers -> Job] /\ LocalOK(w)'
      /\ \A v \in Workers : v # w => pc'[v] = pc[v] /\ job'[v] = job[v]
  <2>1. CASE j.op = "poll"
    <3>1. Goto(w, "scan", j) BY <2>1 DEF Publish
    <3>2. /\ pc' \in [Workers -> Labels] /\ job' \in [Workers -> Job]
          /\ pc'[w] = "scan" /\ job'[w] = j
          /\ \A v \in Workers : v # w => pc'[v] = pc[v] /\ job'[v] = job[v]
          BY <1>2, <3>1, GotoStep DEF Inv, Labels
    <3>3. HasTarget(w)' BY <1>1, <3>2, BusyJob DEF HasTarget, Exists
    <3>4. CoversTarget(w)' BY <1>1, <1>2, <3>2 DEF CoversTarget
    <3>5. LocalOK(w)'
          BY <2>1, <3>2, <3>3, <3>4 DEF LocalOK, OpFollowsPc, SeenFollowsPc, DecisionIsSound,
             ResponseDecides, HasAudited, IsTimely
    <3> QED BY <3>2, <3>5
  <2>2. CASE j.op = "cancel"
    <3>1. Goto(w, "list", j) BY <2>2 DEF Publish
    <3>2. /\ pc' \in [Workers -> Labels] /\ job' \in [Workers -> Job]
          /\ pc'[w] = "list" /\ job'[w] = j
          /\ \A v \in Workers : v # w => pc'[v] = pc[v] /\ job'[v] = job[v]
          BY <1>2, <3>1, GotoStep DEF Inv, Labels
    <3>3. HasTarget(w)' BY <1>1, <3>2, BusyJob DEF HasTarget, Exists
    <3>4. LocalOK(w)'
          BY <1>2, <2>2, <3>2, <3>3 DEF LocalOK, OpFollowsPc, SeenFollowsPc, DecisionIsSound,
             ResponseDecides, HasAudited, IsTimely, CoversTarget
    <3> QED BY <3>2, <3>4
  <2>3. CASE j.op = "respond" /\ j.out # "expired"
    <3>1. Goto(w, "auditResponse", j) BY <2>3 DEF Publish
    <3>2. /\ pc' \in [Workers -> Labels] /\ job' \in [Workers -> Job]
          /\ pc'[w] = "auditResponse" /\ job'[w] = j
          /\ \A v \in Workers : v # w => pc'[v] = pc[v] /\ job'[v] = job[v]
          BY <1>2, <3>1, GotoStep DEF Inv, Labels
    <3>3. HasTarget(w)' BY <1>1, <3>2, BusyJob DEF HasTarget, Exists
    <3>4. j.cur = j.id /\ j.out = OutcomeOf(j.type) /\ j.seen = {} BY <1>2, <2>3
    <3>5. \E q \in Resolution(j.id, OutcomeOf(j.type)) : q.by = j.by BY <1>2, <2>3, <3>4
    <3>6. ResponseDecides(w)' BY <1>1, <3>2, <3>5 DEF ResponseDecides, Resolution, OutcomeOf
    <3>7. LocalOK(w)'
          BY <1>2, <2>3, <3>2, <3>3, <3>4, <3>6 DEF LocalOK, OpFollowsPc, SeenFollowsPc,
             DecisionIsSound, HasAudited, IsTimely, CoversTarget
    <3> QED BY <3>2, <3>7
  <2>4. CASE j.op \notin {"poll", "cancel"} /\ ~(j.op = "respond" /\ j.out # "expired")
    <3>1. Return(w) BY <2>4 DEF Publish
    <3> QED BY <3>1, ReturnStep DEF Inv
  <2> QED BY <2>1, <2>2, <2>3, <2>4
<1>5. TypeOK' BY <1>1, <1>3, <1>4 DEF TypeOK, Inv
<1>6. /\ \A v \in Workers : LocalOK(v)'
      /\ RowIsOneDecision' /\ AuditedOrInFlight'
      /\ \A a, s : Resolution(a, s)' = Resolution(a, s)
      BY <1>1, <1>4, <1>5, LateStep
<1>7. PublishedIsAudited'
  <2> SUFFICES ASSUME NEW f \in events', f.what = "resolved"
               PROVE  Resolution(f.id, f.detail) # {}
      BY <1>6 DEF PublishedIsAudited
  <2>1. CASE f \in events BY <2>1 DEF Inv, Inductive, PublishedIsAudited
  <2>2. CASE f = e BY <2>2, <1>2
  <2> QED BY <2>1, <2>2, <1>1
<1>8. AuditedResponseWasDecided'
      BY <1>1, <1>6 DEF Inv, Inductive, AuditedResponseWasDecided, OutcomeOf
<1> QED BY <1>5, <1>6, <1>7, <1>8 DEF Inv, Inductive

LEMMA AuditResponseStep ==
  ASSUME Inv, NEW w \in Workers, AuditResponse(w), UNCHANGED calls PROVE Inv'
<1> DEFINE j == job[w]
           r == [what |-> "response", id |-> j.id, detail |-> j.type, by |-> j.by]
<1>1. /\ pc[w] = "auditResponse" /\ audit' = audit \cup {r} /\ Goto(w, "eventResponse", j)
      /\ UNCHANGED <<approvals, waiting, proposals, responses, events, told, clock, crashes>>
      BY DEF AuditResponse
<1>2. /\ j \in Job /\ j.id \in Approvals /\ j.op = "respond" /\ j.type \in ResponseTypes
      /\ j.seen = {}
      /\ j.type \in Decisive => \E q \in Resolution(j.id, OutcomeOf(j.type)) : q.by = j.by
      BY <1>1, BusyJob DEF LocalOK, OpFollowsPc, SeenFollowsPc, ResponseDecides
<1>3. r \in Record BY <1>2 DEF Record, Job
<1>4. /\ pc'[w] = "eventResponse" /\ job'[w] = j
      /\ pc' \in [Workers -> Labels] /\ job' \in [Workers -> Job]
      /\ \A v \in Workers : v # w => pc'[v] = pc[v] /\ job'[v] = job[v]
      BY <1>1, <1>2, GotoStep DEF Inv, Labels
<1>5. TypeOK' BY <1>1, <1>3, <1>4 DEF TypeOK, Inv
<1>6. HasTarget(w)' BY <1>1, <1>4, BusyJob DEF HasTarget, Exists
<1>7. LocalOK(w)'
      BY <1>2, <1>4, <1>6 DEF LocalOK, OpFollowsPc, SeenFollowsPc, DecisionIsSound,
         ResponseDecides, HasAudited, IsTimely, CoversTarget
<1>8. /\ \A v \in Workers : LocalOK(v)'
      /\ RowIsOneDecision' /\ AuditedOrInFlight'
      /\ \A a, s : Resolution(a, s)' = Resolution(a, s)
      BY <1>1, <1>4, <1>5, <1>7, LateStep
<1>9. PublishedIsAudited' BY <1>1, <1>8 DEF Inv, Inductive, PublishedIsAudited
<1>10. AuditedResponseWasDecided'
  <2> SUFFICES ASSUME NEW q \in audit', q.what = "response", q.detail \in Decisive
               PROVE  \E p \in Resolution(q.id, OutcomeOf(q.detail)) : p.by = q.by
      BY <1>8 DEF AuditedResponseWasDecided, OutcomeOf
  <2>1. CASE q \in audit BY <2>1 DEF Inv, Inductive, AuditedResponseWasDecided
  <2>2. CASE q = r BY <2>2, <1>2
  <2> QED BY <2>1, <2>2, <1>1
<1> QED BY <1>5, <1>8, <1>9, <1>10 DEF Inv, Inductive

LEMMA TickStep ==
  ASSUME Inv, Tick PROVE Inv'
<1>1. /\ clock' = clock + 1 /\ clock < MaxTime /\ clock \in Nat /\ MaxTime \in Nat
      /\ UNCHANGED <<approvals, waiting, proposals, responses, audit, events>>
      /\ UNCHANGED <<told, pc, job, calls, crashes>>
      BY ConstantsAssumption DEF Tick, tables, Inv, TypeOK
<1>2. TypeOK' BY <1>1 DEF TypeOK, Inv
<1>3. Forward BY <1>1 DEF Forward, Exists
<1>4. \A v \in Workers : LocalOK(v)'
      BY <1>1, <1>2, <1>3, OthersKeepLocalOK DEF Inv, Inductive
<1>5. \A a, s : Resolution(a, s)' = Resolution(a, s) BY <1>1 DEF Resolution
<1>6. RowIsOneDecision' /\ AuditedOrInFlight' /\ PublishedIsAudited'
      BY <1>1, <1>5 DEF Inv, Inductive, RowIsOneDecision, AuditedOrInFlight,
         PublishedIsAudited, Settled
<1>7. AuditedResponseWasDecided'
      BY <1>1, <1>5 DEF Inv, Inductive, AuditedResponseWasDecided, OutcomeOf
<1> QED BY <1>2, <1>4, <1>6, <1>7 DEF Inv, Inductive

LEMMA CrashStep ==
  ASSUME Inv, Crash PROVE Inv'
<1>1. /\ crashes' = crashes + 1 /\ crashes < MaxCrashes /\ crashes \in Nat /\ MaxCrashes \in Nat
      /\ UNCHANGED <<approvals, waiting, proposals, responses, audit, events>>
      /\ UNCHANGED <<told, clock, calls>>
      /\ pc' = [w \in Workers |-> "idle"] /\ job' = [w \in Workers |-> NoJob]
      BY ConstantsAssumption DEF Crash, tables, Inv, TypeOK
<1>2. TypeOK' BY <1>1, NoJobTyped DEF TypeOK, Inv, Labels
<1>3. \A v \in Workers : LocalOK(v)'
      BY <1>1 DEF NoJob, LocalOK, HasTarget, OpFollowsPc, SeenFollowsPc, DecisionIsSound,
                  ResponseDecides, HasAudited, IsTimely, CoversTarget
<1>4. \A a, s : Resolution(a, s)' = Resolution(a, s) BY <1>1 DEF Resolution
<1>5. RowIsOneDecision' /\ PublishedIsAudited'
      BY <1>1, <1>4 DEF Inv, Inductive, RowIsOneDecision, PublishedIsAudited
<1>6. AuditedOrInFlight' BY <1>1 DEF AuditedOrInFlight
<1>7. AuditedResponseWasDecided'
      BY <1>1, <1>4 DEF Inv, Inductive, AuditedResponseWasDecided, OutcomeOf
<1> QED BY <1>2, <1>3, <1>5, <1>6, <1>7 DEF Inv, Inductive

LEMMA StutterStep ==
  ASSUME Inv, UNCHANGED vars PROVE Inv'
<1>1. /\ UNCHANGED <<approvals, waiting, proposals, responses, audit, events>>
      /\ UNCHANGED <<told, clock, pc, job, calls, crashes>>
      BY DEF vars, tables
<1>2. TypeOK' BY <1>1 DEF TypeOK, Inv
<1>3. Forward BY <1>1, ConstantsAssumption DEF Forward, Exists, Inv, TypeOK
<1>4. \A v \in Workers : LocalOK(v)'
      BY <1>1, <1>2, <1>3, OthersKeepLocalOK DEF Inv, Inductive
<1>5. \A a, s : Resolution(a, s)' = Resolution(a, s) BY <1>1 DEF Resolution
<1>6. RowIsOneDecision' /\ AuditedOrInFlight' /\ PublishedIsAudited'
      BY <1>1, <1>5 DEF Inv, Inductive, RowIsOneDecision, AuditedOrInFlight,
         PublishedIsAudited, Settled
<1>7. AuditedResponseWasDecided'
      BY <1>1, <1>5 DEF Inv, Inductive, AuditedResponseWasDecided, OutcomeOf
<1> QED BY <1>2, <1>4, <1>6, <1>7 DEF Inv, Inductive

-----------------------------------------------------------------------------
(* The theorems *)

LEMMA InitInv == Init => Inv
<1> SUFFICES ASSUME Init PROVE Inv
    OBVIOUS
<1> USE ConstantsAssumption
<1>1. TypeOK
  <2>1. [state |-> "absent", scope |-> None, actor |-> None, expiresAt |-> 0] \in Row
        BY DEF Row, States
  <2> QED BY <2>1, NoJobTyped DEF Init, TypeOK, Labels
<1>2. \A w \in Workers : LocalOK(w)
      BY DEF Init, NoJob, LocalOK, HasTarget, OpFollowsPc, SeenFollowsPc, DecisionIsSound,
             ResponseDecides, HasAudited, IsTimely, CoversTarget
<1>3. RowIsOneDecision /\ AuditedOrInFlight /\ PublishedIsAudited /\ AuditedResponseWasDecided
      BY DEF Init, RowIsOneDecision, AuditedOrInFlight, PublishedIsAudited,
             AuditedResponseWasDecided, Settled, Terminal
<1> QED BY <1>1, <1>2, <1>3 DEF Inv, Inductive

LEMMA NextInv == Inv /\ [Next]_vars => Inv'
<1> SUFFICES ASSUME Inv, [Next]_vars PROVE Inv'
    OBVIOUS
<1>1. ASSUME NEW w \in Workers, NEW a \in Approvals, Accept(w, a) PROVE Inv'
  <2>0. calls' \in 0..MaxCalls BY <1>1, ConstantsAssumption DEF Accept, Inv, TypeOK
  <2>1. ASSUME NEW t \in Deadlines, RequestWithDeadline(w, a, t) PROVE Inv'
        BY <2>0, <2>1, CreateStep DEF RequestWithDeadline
  <2>2. ASSUME NEW t \in Deadlines, RequestFromRuntime(w, a, t) PROVE Inv'
        BY <2>0, <2>2, CreateStep DEF RequestFromRuntime
  <2>3. ASSUME NEW d \in Devices, NEW decision \in Decisions,
               BeginDecide(w, d, a, decision[1], decision[2])
        PROVE  Inv'
        BY <2>0, <2>3, DecideStep
  <2>4. ASSUME NEW d \in Devices, RefuseDevice(w, d, a) PROVE Inv'
        BY <2>0, <2>4, RefuseStep
  <2>5. ASSUME NEW d \in Devices, NEW type \in ResponseTypes, BeginRespond(w, d, a, type)
        PROVE  Inv'
        BY <2>0, <2>5, RespondStep
  <2>6. CASE BeginCancel(w, a) BY <2>0, <2>6, CancelStep
  <2> QED BY <1>1, <2>1, <2>2, <2>3, <2>4, <2>5, <2>6 DEF Accept
<1>2. ASSUME NEW w \in Workers, NEW a \in Approvals, Poll(w, a) PROVE Inv'
  BY <1>2, PollStep
<1>3. ASSUME NEW w \in Workers, Continue(w) PROVE Inv'
  BY <1>3, ParkStep, AnnounceStep, ProposeStep, RecordStep, ReadStep, JudgeStep, WriteStep,
     AuditStep, PublishStep, AuditResponseStep, PublishResponseStep, ListStep, ScanStep,
     AnswerStep
  DEF Continue
<1>4. CASE Tick BY <1>4, TickStep
<1>5. CASE Crash BY <1>5, CrashStep
<1>6. CASE UNCHANGED vars BY <1>6, StutterStep
<1> QED BY <1>1, <1>2, <1>3, <1>4, <1>5, <1>6 DEF Next

\* The engine's tables and threads stay well typed.
THEOREM ApprovalsTyped == Spec => []TypeOK
<1>1. Inv => TypeOK BY DEF Inv
<1> QED BY <1>1, InitInv, NextInv, PTL DEF Spec

\* A row is the trace of one decision, however many raced (resolve_approval).
THEOREM ApprovalsRowIsOneDecision == Spec => []RowIsOneDecision
<1>1. Inv => RowIsOneDecision BY DEF Inv, Inductive
<1> QED BY <1>1, InitInv, NextInv, PTL DEF Spec

\* Without a restart, what the row says is audited or about to be.
THEOREM ApprovalsAuditedOrInFlight == Spec => []AuditedOrInFlight
<1>1. Inv => AuditedOrInFlight BY DEF Inv, Inductive
<1> QED BY <1>1, InitInv, NextInv, PTL DEF Spec

\* Nothing is published that is not audited, restarts included.
THEOREM ApprovalsPublishedIsAudited == Spec => []PublishedIsAudited
<1>1. Inv => PublishedIsAudited BY DEF Inv, Inductive
<1> QED BY <1>1, InitInv, NextInv, PTL DEF Spec

\* A response is audited only after the decision it carries.
THEOREM ApprovalsAuditedResponseWasDecided == Spec => []AuditedResponseWasDecided
<1>1. Inv => AuditedResponseWasDecided BY DEF Inv, Inductive
<1> QED BY <1>1, InitInv, NextInv, PTL DEF Spec

\* A decision that arrives at or after the deadline never approves or denies.
THEOREM ApprovalsLateDecisionNeverCounts == Spec => LateDecisionNeverCounts
<1>1. Inv /\ [Next]_vars =>
        [\A w \in Workers :
           (pc[w] = "write" /\ pc'[w] = "audit" /\ job[w].out \in {"approved", "denied"})
             => job[w].begun < approvals[job[w].cur].expiresAt]_vars
      BY DEF Inv, Inductive, LocalOK, IsTimely
<1> QED BY <1>1, InitInv, NextInv, PTL DEF Spec, LateDecisionNeverCounts

\* A thread leaves the scan for the pool, outside a crash, only with an empty list.
LEMMA AnswerHasEmptyList ==
  ASSUME TypeOK, [Next]_vars, NEW w \in Workers,
         pc[w] = "scan", pc'[w] = "idle", crashes' = crashes
  PROVE  job[w].seen = {}
<1>0. crashes \in Nat /\ pc \in [Workers -> Labels] BY ConstantsAssumption DEF TypeOK
<1>1. ~Crash BY <1>0 DEF Crash
<1>2. ~UNCHANGED vars BY DEF vars
<1>3. ~Tick BY DEF Tick
<1>4. ASSUME NEW v \in Workers, NEW a \in Approvals, Accept(v, a) PROVE FALSE
  <2> USE DEF Begin, Goto
  <2>1. pc[v] = "idle" /\ (pc' = pc \/ \E label : pc' = [pc EXCEPT ![v] = label])
        BY <1>4 DEF Accept, RequestWithDeadline, RequestFromRuntime, CreateApproval,
           BeginDecide, RefuseDevice, BeginRespond, BeginCancel
  <2> QED BY <2>1, <1>0
<1>5. ASSUME NEW v \in Workers, NEW a \in Approvals, Poll(v, a) PROVE FALSE
  <2>1. pc[v] = "idle" /\ pc' = [pc EXCEPT ![v] = "list"]
        BY <1>5 DEF Poll, BeginPoll, Begin, Goto
  <2> QED BY <2>1, <1>0
<1>6. ASSUME NEW v \in Workers, Continue(v) PROVE job[w].seen = {}
  <2>1. \E label : pc' = [pc EXCEPT ![v] = label]
        BY <1>6 DEF Continue, Park, Announce, Propose, RecordResponse, Read, Judge, Write,
           Audit, Publish, AuditResponse, PublishResponse, List, Scan, Answer, Return, Goto
  <2>2. v = w BY <2>1, <1>0
  <2>3. CASE Answer(w) BY <2>3 DEF Answer
  <2>4. ASSUME NEW a \in Approvals, Scan(w, a) PROVE FALSE
    <3>1. pc'[w] \in {"write", "scan"} BY <2>4, <1>0 DEF Scan, Goto
    <3> QED BY <3>1
  <2> QED BY <1>6, <2>2, <2>3, <2>4 DEF Continue, Park, Announce, Propose, RecordResponse,
       Read, Judge, Write, Audit, Publish, AuditResponse, PublishResponse, List
<1> QED BY <1>1, <1>2, <1>3, <1>4, <1>5, <1>6 DEF Next

\* A poll that begins at or after the deadline never answers "pending".
THEOREM ApprovalsOverdueIsNeverAnsweredPending == Spec => OverdueIsNeverAnsweredPending
<1>1. Inv /\ [Next]_vars =>
        [\A w \in Workers :
           (pc[w] = "scan" /\ pc'[w] = "idle" /\ crashes' = crashes
              /\ approvals[job[w].id].state = "pending")
             => job[w].begun < approvals[job[w].id].expiresAt]_vars
  <2> SUFFICES ASSUME Inv, [Next]_vars, NEW w \in Workers,
                      pc[w] = "scan", pc'[w] = "idle", crashes' = crashes,
                      approvals[job[w].id].state = "pending"
               PROVE  job[w].begun < approvals[job[w].id].expiresAt
      OBVIOUS
  <2>1. job[w].seen = {} BY AnswerHasEmptyList DEF Inv
  <2> QED BY <2>1 DEF Inv, Inductive, LocalOK, OpFollowsPc, CoversTarget
<1> QED BY <1>1, InitInv, NextInv, PTL DEF Spec, OverdueIsNeverAnsweredPending

-----------------------------------------------------------------------------
(* The engine implements Clearance *)

\* The abstract variables.
Outcome  == [a \in Approvals |-> approvals[a].state]
Deciding == [a \in Approvals |-> {w \in Workers : a \in job[w].seen}]

\* A step that settles nothing and lets no thread see more is a withdrawal, or nothing.
LEMMA LetGo ==
  ASSUME Inv, UNCHANGED approvals,
         \A w \in Workers : job'[w].seen \subseteq job[w].seen
  PROVE  Engine!Withdraw
<1>1. Deciding' \in [Approvals -> SUBSET Workers] BY DEF Deciding
<1>2. \A a \in Approvals : Deciding'[a] \subseteq Deciding[a] BY DEF Deciding
<1>3. Outcome' = Outcome BY DEF Outcome
<1> QED BY <1>1, <1>2, <1>3 DEF Engine!Withdraw, Outcome, Deciding

\* A step of one worker changes one job.
LEMMA OneJob ==
  ASSUME Inv, NEW w \in Workers, NEW label, NEW j, Goto(w, label, j)
  PROVE  job'[w] = j /\ \A v \in Workers : v # w => job'[v] = job[v]
BY DEF Goto, Inv, TypeOK

\* A call that is only accepted changes no approval and has seen nothing yet.
LEMMA BeginLetsGo ==
  ASSUME Inv, NEW w \in Workers, NEW label, NEW j \in Job, Begin(w, label, j), j.seen = {}
  PROVE  \A v \in Workers : job'[v].seen \subseteq job[v].seen
<1> DEFINE k == [j EXCEPT !.cur = j.id, !.begun = clock]
<1>1. Goto(w, label, k) BY DEF Begin
<1>2. k.seen = {} BY DEF Job
<1> QED BY <1>1, <1>2, OneJob

LEMMA CreateImplements ==
  ASSUME Inv, NEW w \in Workers, NEW a \in Approvals, NEW t \in Deadlines, NEW label,
         CreateApproval(w, a, t, label)
  PROVE  Engine!Request(a)
<1> DEFINE j == [NoJob EXCEPT !.op = "request", !.id = a, !.out = "pending", !.by = Runtime]
           k == [j EXCEPT !.cur = j.id, !.begun = clock]
<1>1. pc[w] = "idle" /\ Goto(w, label, k) BY DEF CreateApproval, Begin
<1>2. job[w].seen = {} BY <1>1 DEF Inv, Inductive, LocalOK, HasTarget, NoJob
<1>3. k.seen = {} BY DEF NoJob
<1>4. \A v \in Workers : job'[v].seen = job[v].seen BY <1>1, <1>2, <1>3, OneJob
<1>5. Deciding' = Deciding BY <1>4 DEF Deciding
<1>6. approvals[a] \in Row /\ approvals \in [Approvals -> Row] BY DEF Inv, TypeOK
<1>7. /\ approvals[a].state = "absent" /\ approvals'[a].state = "pending"
      /\ \A b \in Approvals : b # a => approvals'[b] = approvals[b]
  <2> DEFINE row == [approvals[a] EXCEPT !.state = "pending", !.expiresAt = t]
  <2>1. row.state = "pending" BY <1>6 DEF Row
  <2>2. approvals[a].state = "absent" /\ approvals' = [approvals EXCEPT ![a] = row]
        BY DEF CreateApproval
  <2> QED BY <1>6, <2>1, <2>2
<1>8. Outcome[a] = "absent" /\ Outcome' = [Outcome EXCEPT ![a] = "pending"]
      BY <1>7 DEF Outcome
<1> QED BY <1>5, <1>8 DEF Engine!Request, Outcome, Deciding

\* One query admits a thread to what it found pending.
LEMMA SeeingImplements ==
  ASSUME Inv, NEW w \in Workers, NEW label, NEW j, Goto(w, label, j), UNCHANGED approvals,
         job[w].seen = {}, j.seen \subseteq Pending
  PROVE  Engine!Admit(w, j.seen) /\ j.seen \in SUBSET Approvals
<1>1. job'[w] = j /\ \A v \in Workers : v # w => job'[v] = job[v] BY OneJob
<1>2. \A a \in j.seen : a \in Approvals /\ approvals[a].state = "pending" BY DEF Pending
<1>3. \A a \in j.seen : Outcome[a] = "pending" BY <1>2 DEF Outcome
<1>4. Outcome' = Outcome BY DEF Outcome
<1>5. Deciding' = [a \in Approvals |-> Deciding[a] \cup (IF a \in j.seen THEN {w} ELSE {})]
  <2>1. \A a \in Approvals : {v \in Workers : a \in job'[v].seen} =
          {v \in Workers : a \in job[v].seen} \cup (IF a \in j.seen THEN {w} ELSE {})
        BY <1>1
  <2> QED BY <2>1 DEF Deciding
<1> QED BY <1>2, <1>3, <1>4, <1>5 DEF Engine!Admit, Outcome, Deciding

LEMMA ReadImplements ==
  ASSUME Inv, NEW w \in Workers, Read(w)
  PROVE  Engine!Withdraw \/ \E C \in SUBSET Approvals : Engine!Admit(w, C)
<1> DEFINE j == job[w]
<1>1. pc[w] = "read" /\ UNCHANGED approvals BY DEF Read, tables
<1>2. j \in Job /\ j.seen = {} BY <1>1, BusyJob DEF LocalOK, SeenFollowsPc
<1>3. CASE j.id \in Pending
  <2> DEFINE k == [j EXCEPT !.seen = {j.id}]
             label == IF j.op = "cancel" THEN "write" ELSE "judge"
  <2>1. Goto(w, label, k) BY <1>3 DEF Read
  <2>2. k.seen = {j.id} BY <1>2 DEF Job
  <2>3. k.seen \subseteq Pending BY <1>3, <2>2
  <2> QED BY <1>1, <1>2, <2>1, <2>3, SeeingImplements
<1>4. CASE j.id \notin Pending
  <2>1. Goto(w, "list", j) \/ Goto(w, "idle", NoJob) BY <1>4 DEF Read, Return
  <2>2. \A v \in Workers : job'[v].seen \subseteq job[v].seen
        BY <2>1, OneJob DEF NoJob
  <2> QED BY <1>1, <2>2, LetGo
<1> QED BY <1>3, <1>4

LEMMA ListImplements ==
  ASSUME Inv, NEW w \in Workers, List(w)
  PROVE  \E C \in SUBSET Approvals : Engine!Admit(w, C)
<1> DEFINE k == [job[w] EXCEPT !.op = "poll", !.seen = Pending]
<1>1. pc[w] = "list" /\ Goto(w, "scan", k) /\ UNCHANGED approvals BY DEF List, tables
<1>2. job[w] \in Job /\ job[w].seen = {} BY <1>1, BusyJob DEF LocalOK, SeenFollowsPc
<1>3. k.seen = Pending BY <1>2 DEF Job
<1> QED BY <1>1, <1>2, <1>3, SeeingImplements

LEMMA WriteImplements ==
  ASSUME Inv, NEW w \in Workers, Write(w)
  PROVE  \E c \in Approvals, o \in Terminal : Engine!Settle(c, w, o)
<1> DEFINE j == job[w]
           k == [j EXCEPT !.seen = @ \ {j.cur}]
           c == j.cur
<1>1. pc[w] = "write" /\ Goto(w, "audit", k) BY DEF Write
<1>2. j \in Job /\ c \in Approvals /\ c \in j.seen /\ j.out \in Terminal
      BY <1>1, BusyJob DEF LocalOK, SeenFollowsPc, DecisionIsSound, Sound
<1>3. job'[w] = k /\ k.seen = j.seen \ {c} /\ \A v \in Workers : v # w => job'[v] = job[v]
      BY <1>1, <1>2, OneJob DEF Job
<1>4. /\ approvals'[c].state = j.out
      /\ \A a \in Approvals : a # c => approvals'[a] = approvals[a]
  <2> DEFINE row == [approvals[c] EXCEPT !.state = j.out, !.scope = j.scope,
                                  !.actor = IF j.by \in Devices THEN j.by ELSE None]
  <2>1. approvals[c] \in Row /\ approvals \in [Approvals -> Row] BY <1>2 DEF Inv, TypeOK
  <2>2. approvals' = [approvals EXCEPT ![c] = row] BY DEF Write
  <2>3. row.state = j.out BY <2>1 DEF Row
  <2> QED BY <1>2, <2>1, <2>2, <2>3
<1>5. w \in Deciding[c] BY <1>2 DEF Deciding
<1>6. Outcome' = [Outcome EXCEPT ![c] = j.out] BY <1>2, <1>4 DEF Outcome
<1>7. Deciding' = [Deciding EXCEPT ![c] = @ \ {w}]
  <2>1. \A a \in Approvals : {v \in Workers : a \in job'[v].seen} =
          IF a = c THEN {v \in Workers : a \in job[v].seen} \ {w}
                   ELSE {v \in Workers : a \in job[v].seen}
        BY <1>3
  <2> QED BY <1>2, <2>1 DEF Deciding
<1> QED BY <1>2, <1>5, <1>6, <1>7 DEF Engine!Settle, Outcome, Deciding

\* Every step of the engine is a step of Clearance, or changes nothing of it.
LEMMA StepImplements == Inv /\ [Next]_vars => [Engine!Next]_(Engine!vars)
<1> SUFFICES ASSUME Inv, [Next]_vars PROVE Engine!Next \/ UNCHANGED Engine!vars
    OBVIOUS
<1> USE DEF Engine!Next
<1>1. ASSUME NEW w \in Workers, NEW a \in Approvals, Accept(w, a) PROVE Engine!Next
  <2>1. ASSUME NEW t \in Deadlines, NEW label, CreateApproval(w, a, t, label)
        PROVE  Engine!Next
        BY <2>1, CreateImplements
  <2>2. ASSUME NEW d \in Devices, NEW decision \in Decisions,
               BeginDecide(w, d, a, decision[1], decision[2])
        PROVE  Engine!Next
    <3> DEFINE j == [NoJob EXCEPT !.op = "decide", !.id = a, !.out = decision[1],
                                  !.scope = decision[2], !.by = d]
    <3>1. decision[1] \in States /\ decision[2] \in Scopes \cup {None}
          BY ConstantsAssumption DEF States, Terminal
    <3>2. j \in Job /\ j.seen = {}
          BY <3>1, NoJobTyped DEF Job, Ops, Actors, NoJob
    <3>3. Begin(w, "read", j) /\ UNCHANGED approvals BY <2>2 DEF BeginDecide, tables
    <3> QED BY <3>2, <3>3, BeginLetsGo, LetGo
  <2>3. ASSUME NEW d \in Devices, RefuseDevice(w, d, a) PROVE Engine!Next
    <3>1. UNCHANGED <<approvals, job>> BY <2>3 DEF RefuseDevice
    <3> QED BY <3>1, LetGo
  <2>4. ASSUME NEW d \in Devices, NEW type \in ResponseTypes, BeginRespond(w, d, a, type)
        PROVE  Engine!Next
    <3> DEFINE j == [NoJob EXCEPT !.op = "respond", !.id = a, !.out = OutcomeOf(type),
                                  !.scope = ScopeOf(type), !.by = d, !.type = type]
               label == IF type = "propose_policy" THEN "propose" ELSE "record"
    <3>1. OutcomeOf(type) \in States /\ ScopeOf(type) \in Scopes \cup {None}
          BY DEF OutcomeOf, ScopeOf, States, Terminal, Scopes
    <3>2. j \in Job /\ j.seen = {}
          BY <3>1, NoJobTyped DEF Job, Ops, Actors, NoJob
    <3>3. Begin(w, label, j) /\ UNCHANGED approvals BY <2>4 DEF BeginRespond, tables
    <3> QED BY <3>2, <3>3, BeginLetsGo, LetGo
  <2>5. CASE BeginCancel(w, a)
    <3> DEFINE j == [NoJob EXCEPT !.op = "cancel", !.id = a, !.out = "cancelled",
                                  !.by = Runtime]
    <3>1. j \in Job /\ j.seen = {}
          BY NoJobTyped DEF Job, Ops, Actors, States, Terminal, NoJob
    <3>2. Begin(w, "read", j) /\ UNCHANGED approvals BY <2>5 DEF BeginCancel, tables
    <3> QED BY <3>1, <3>2, BeginLetsGo, LetGo
  <2> QED BY <1>1, <2>1, <2>2, <2>3, <2>4, <2>5
       DEF Accept, RequestWithDeadline, RequestFromRuntime
<1>2. ASSUME NEW w \in Workers, NEW a \in Approvals, Poll(w, a) PROVE Engine!Next
  <2> DEFINE j == [NoJob EXCEPT !.op = "poll", !.id = a]
  <2>1. j \in Job /\ j.seen = {} BY NoJobTyped DEF Job, Ops, NoJob
  <2>2. Begin(w, "list", j) /\ UNCHANGED approvals BY <1>2 DEF Poll, BeginPoll, tables
  <2> QED BY <2>1, <2>2, BeginLetsGo, LetGo
<1>3. ASSUME NEW w \in Workers, Continue(w) PROVE Engine!Next
  <2> DEFINE j == job[w]
  <2>1. ASSUME NEW label, NEW k, Goto(w, label, k), UNCHANGED approvals,
               k.seen \subseteq j.seen
        PROVE  Engine!Next
    <3>1. \A v \in Workers : job'[v].seen \subseteq job[v].seen BY <2>1, OneJob
    <3> QED BY <2>1, <3>1, LetGo
  <2>2. ASSUME Return(w), UNCHANGED approvals PROVE Engine!Next
        BY <2>1, <2>2 DEF Return, NoJob
  <2>3. ASSUME NEW label, Goto(w, label, j), UNCHANGED approvals PROVE Engine!Next
        BY <2>1, <2>3
  <2>4. CASE Park(w) BY <2>3, <2>4 DEF Park
  <2>5. CASE Announce(w) BY <2>3, <2>5 DEF Announce
  <2>6. CASE Propose(w) BY <2>3, <2>6 DEF Propose
  <2>7. CASE RecordResponse(w) BY <2>3, <2>7 DEF RecordResponse
  <2>8. CASE Read(w) BY <2>8, ReadImplements
  <2>9. CASE Judge(w)
    <3> DEFINE k == IF j.out \in {"approved", "denied"} /\ Expired(j.id) THEN AsExpiry(j) ELSE j
    <3>1. pc[w] = "judge" /\ Goto(w, "write", k) /\ UNCHANGED approvals
          BY <2>9 DEF Judge, tables
    <3>2. k.seen = j.seen BY <3>1, BusyJob DEF AsExpiry, Job
    <3> QED BY <3>1, <3>2, <2>1
  <2>10. CASE Write(w) BY <2>10, WriteImplements
  <2>11. CASE Audit(w) BY <2>3, <2>11 DEF Audit
  <2>12. CASE Publish(w)
    <3>1. UNCHANGED approvals /\ (Return(w) \/ \E label : Goto(w, label, j))
          BY <2>12 DEF Publish
    <3> QED BY <3>1, <2>2, <2>3
  <2>13. CASE AuditResponse(w) BY <2>3, <2>13 DEF AuditResponse
  <2>14. CASE PublishResponse(w) BY <2>2, <2>14 DEF PublishResponse
  <2>15. CASE List(w) BY <2>15, ListImplements
  <2>16. ASSUME NEW a \in Approvals, Scan(w, a) PROVE Engine!Next
    <3>1. pc[w] = "scan" /\ UNCHANGED approvals BY <2>16 DEF Scan, tables
    <3>2. j \in Job BY <3>1, BusyJob
    <3>3. CASE Expired(a)
      <4> DEFINE k == AsExpiry([j EXCEPT !.cur = a])
      <4>1. Goto(w, "write", k) BY <2>16, <3>3 DEF Scan
      <4>2. k.seen = j.seen BY <3>2 DEF AsExpiry, Job
      <4> QED BY <3>1, <4>1, <4>2, <2>1
    <3>4. CASE ~Expired(a)
      <4> DEFINE k == [j EXCEPT !.seen = @ \ {a}]
      <4>1. Goto(w, "scan", k) BY <2>16, <3>4 DEF Scan
      <4>2. k.seen \subseteq j.seen BY <3>2 DEF Job
      <4> QED BY <3>1, <4>1, <4>2, <2>1
    <3> QED BY <3>3, <3>4
  <2>17. CASE Answer(w) BY <2>2, <2>17 DEF Answer, tables
  <2> QED BY <1>3, <2>4, <2>5, <2>6, <2>7, <2>8, <2>9, <2>10, <2>11, <2>12, <2>13, <2>14,
       <2>15, <2>16, <2>17 DEF Continue
<1>4. CASE Tick
  <2>1. UNCHANGED <<approvals, job>> BY <1>4 DEF Tick, tables
  <2> QED BY <2>1, LetGo
<1>5. CASE Crash
  <2>1. UNCHANGED approvals /\ \A v \in Workers : job'[v].seen \subseteq job[v].seen
        BY <1>5 DEF Crash, tables, NoJob
  <2> QED BY <2>1, LetGo
<1>6. CASE UNCHANGED vars
  <2>1. UNCHANGED <<approvals, job>> BY <1>6 DEF vars, tables
  <2> QED BY <2>1, LetGo
<1> QED BY <1>1, <1>2, <1>3, <1>4, <1>5, <1>6 DEF Next

\* The approval engine implements Clearance: only threads that saw an approval pending
\* settle it, and nobody joins them afterwards.
THEOREM ApprovalsImplementClearance == Spec => ImplementsClearance
<1>1. Init => Engine!Init
      BY DEF Init, Engine!Init, NoJob
<1> QED BY <1>1, InitInv, NextInv, StepImplements, PTL
    DEF Spec, ImplementsClearance, Engine!Spec

-----------------------------------------------------------------------------
(* One thread at a time: the documented rule *)

\* No thread holds a settled approval for pending.
NoStaleCopy == \A a \in Approvals : Settled(a) => Deciding[a] = {}

\* Only a new request and an UPDATE change a row, and the UPDATE's thread has seen the
\* row pending.
LEMMA WhoChangesARow ==
  ASSUME Inv, [Next]_vars, NEW a \in Approvals, approvals'[a] # approvals[a]
  PROVE  approvals[a].state = "absent" \/ Deciding[a] # {}
<1>1. ASSUME NEW w \in Workers, NEW b \in Approvals, NEW t \in Deadlines, NEW label,
             CreateApproval(w, b, t, label)
      PROVE  approvals[a].state = "absent"
      BY <1>1 DEF CreateApproval, Inv, TypeOK
<1>2. ASSUME NEW w \in Workers, Write(w) PROVE Deciding[a] # {}
  <2>1. pc[w] = "write" /\ job[w].cur \in job[w].seen /\ job[w].cur \in Approvals
        BY <1>2, BusyJob DEF Write, LocalOK, SeenFollowsPc
  <2>2. a = job[w].cur BY <1>2, <2>1 DEF Write, Inv, TypeOK
  <2> QED BY <2>1, <2>2 DEF Deciding
<1>3. ASSUME UNCHANGED approvals PROVE FALSE BY <1>3
<1> QED BY <1>1, <1>2, <1>3
    DEF Next, vars, tables, Accept, RequestWithDeadline, RequestFromRuntime, BeginDecide,
        RefuseDevice, BeginRespond, BeginCancel, Poll, BeginPoll, Continue, Park, Announce,
        Propose, RecordResponse, Read, Judge, Audit, Publish, AuditResponse,
        PublishResponse, List, Scan, Answer, Tick, Crash

\* With a single thread a terminal approval rejects every later transition: its only
\* possible decider lets go in the step that settles it.
THEOREM ApprovalsSerialTerminalIsFinal ==
  ASSUME NEW only, Workers = {only}
  PROVE  Spec => TerminalIsFinal
<1>1. Init => NoStaleCopy
      BY DEF Init, NoStaleCopy, Settled, Terminal
<1>2. Inv /\ NoStaleCopy /\ [Next]_vars => NoStaleCopy'
  <2> SUFFICES ASSUME Inv, NoStaleCopy, [Next]_vars, NEW a \in Approvals, Settled(a)'
               PROVE  Deciding'[a] = {}
      BY DEF NoStaleCopy
  <2> USE DEF Outcome, Deciding
  <2>1. [Engine!Next]_(Engine!vars) BY StepImplements
  <2>2. CASE \E C \in SUBSET Approvals, w \in Workers : Engine!Admit(w, C)
    <3> PICK C \in SUBSET Approvals, w \in Workers : Engine!Admit(w, C) BY <2>2
    <3>1. Outcome' = Outcome BY DEF Engine!Admit
    <3>2. Settled(a) BY <3>1 DEF Settled
    <3>3. a \notin C BY <3>2 DEF Engine!Admit, Settled, Terminal
    <3>4. Deciding'[a] = Deciding[a] BY <3>3 DEF Engine!Admit
    <3> QED BY <3>2, <3>4 DEF NoStaleCopy
  <2>3. CASE \E c \in Approvals, w \in Workers, o \in Terminal : Engine!Settle(c, w, o)
    <3> PICK c \in Approvals, w \in Workers, o \in Terminal : Engine!Settle(c, w, o)
        BY <2>3
    <3>1. CASE a = c
      <4>1. Deciding' = [Deciding EXCEPT ![c] = @ \ {w}] BY DEF Engine!Settle
      <4>2. Deciding'[a] = Deciding[a] \ {w} BY <3>1, <4>1
      <4> QED BY <4>2
    <3>2. CASE a # c
      <4>1. Outcome'[a] = Outcome[a] /\ Deciding'[a] = Deciding[a]
            BY <3>2 DEF Engine!Settle
      <4> QED BY <4>1 DEF NoStaleCopy, Settled
    <3> QED BY <3>1, <3>2
  <2>4. CASE Engine!Withdraw
    <3>1. Outcome' = Outcome /\ Deciding'[a] \subseteq Deciding[a]
          BY <2>4 DEF Engine!Withdraw
    <3> QED BY <3>1 DEF NoStaleCopy, Settled
  <2>5. CASE \E c \in Approvals : Engine!Request(c)
    <3> PICK c \in Approvals : Engine!Request(c) BY <2>5
    <3>1. Deciding' = Deciding /\ Outcome' = [Outcome EXCEPT ![c] = "pending"]
          BY DEF Engine!Request
    <3>2. a # c BY <3>1 DEF Settled, Terminal
    <3>3. Outcome'[a] = Outcome[a] BY <3>1, <3>2
    <3> QED BY <3>1, <3>3 DEF NoStaleCopy, Settled
  <2>6. CASE UNCHANGED Engine!vars
    <3>1. Deciding' = Deciding /\ Outcome' = Outcome BY <2>6 DEF Engine!vars
    <3> QED BY <3>1 DEF NoStaleCopy, Settled
  <2> QED BY <2>1, <2>2, <2>3, <2>4, <2>5, <2>6 DEF Engine!Next
<1>3. Inv /\ NoStaleCopy /\ [Next]_vars =>
        [\A a \in Approvals : Settled(a) => approvals'[a] = approvals[a]]_vars
      BY WhoChangesARow DEF NoStaleCopy, Settled, Terminal
<1> QED BY <1>1, <1>2, <1>3, InitInv, NextInv, PTL DEF Spec, TerminalIsFinal
=============================================================================
