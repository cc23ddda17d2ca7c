-------------------------- MODULE ApprovalsInductive --------------------------
(***************************************************************************)
(* The inductive strengthening of the safety properties of Approvals: what *)
(* the step a thread is at says about its local variables and the tables.  *)
(***************************************************************************)
EXTENDS Approvals

\* A decision worth writing: an approval or denial has its approver and scope, an
\* expiry or cancellation has no scope.
Sound(j) ==
  /\ j.out \in Terminal
  /\ j.out \in {"approved", "denied"} => j.by \in Approvers /\ j.scope \in Scopes
  /\ j.out \in {"expired", "cancelled"} => j.scope = None

\* A busy thread was asked about an approval that exists, and began in the past.
HasTarget(w) ==
  /\ pc[w] = "idle" => job[w] = NoJob
  /\ pc[w] # "idle" => /\ job[w].id \in Approvals /\ Exists(job[w].id)
                       /\ job[w].cur \in Approvals
                       /\ job[w].begun <= clock
                       /\ job[w].op # "poll" => job[w].cur = job[w].id

OpFollowsPc(w) ==
  /\ pc[w] \in {"park", "announce"} => job[w].op = "request"
  /\ pc[w] \in {"propose", "record", "auditResponse", "eventResponse"} => job[w].op = "respond"
  /\ pc[w] \in {"read", "judge"} => job[w].op \in {"decide", "respond", "cancel"}
  /\ pc[w] = "list" => job[w].op \in {"poll", "cancel"}
  /\ pc[w] = "scan" => job[w].op = "poll"
  /\ pc[w] = "write" => job[w].op # "request"
  /\ job[w].op = "request" => job[w].out = "pending"
  /\ job[w].op = "respond" => job[w].type \in ResponseTypes
  /\ (job[w].op = "poll" /\ pc[w] = "write") => job[w].out = "expired"
  /\ (job[w].op = "cancel" /\ pc[w] = "read") => job[w].out = "cancelled"

\* What a thread has seen pending, and not yet settled or let go.
SeenFollowsPc(w) ==
  /\ pc[w] = "judge" => job[w].seen = {job[w].cur}
  /\ pc[w] = "write" => job[w].cur \in job[w].seen
  /\ (pc[w] = "write" /\ job[w].op # "poll") => job[w].seen = {job[w].cur}
  /\ (pc[w] \in {"audit", "event"} /\ job[w].op # "poll") => job[w].seen = {}
  /\ pc[w] \notin {"judge", "write", "audit", "event", "scan"} => job[w].seen = {}

\* A thread on its way to the UPDATE carries a sound decision.
DecisionIsSound(w) ==
  /\ pc[w] \in {"read", "judge", "write"} => Sound(job[w])
  /\ (pc[w] \in {"propose", "record"} /\ job[w].type \in Decisive) => Sound(job[w])
  /\ (pc[w] \in {"audit", "event"} /\ job[w].op # "request") => Sound(job[w])

\* A response carries the decision its type names, unless it turned into an expiry.
ResponseDecides(w) ==
  /\ (job[w].op = "respond" /\ pc[w] \in {"propose", "record", "read", "judge"}) =>
       job[w].out = OutcomeOf(job[w].type) /\ job[w].by \in Devices
  /\ (job[w].op = "respond" /\ pc[w] \in {"write", "audit", "event"}) =>
       job[w].out = "expired" \/ job[w].out = OutcomeOf(job[w].type)
  /\ (pc[w] = "auditResponse" /\ job[w].type \in Decisive) =>
       \E q \in Resolution(job[w].id, OutcomeOf(job[w].type)) : q.by = job[w].by

\* What is about to be published has been audited.
HasAudited(w) ==
  (pc[w] = "event" /\ job[w].op # "request") =>
    \E q \in Resolution(job[w].cur, job[w].out) : q.by = job[w].by

\* An approval or denial about to be written began before the deadline.
IsTimely(w) ==
  (pc[w] = "write" /\ job[w].out \in {"approved", "denied"})
    => job[w].begun < approvals[job[w].cur].expiresAt

\* Behind its query, a poll still has the approval it answers for on its list, unless
\* the approval is settled or was not due when the poll began.
CoversTarget(w) ==
  (job[w].op = "poll" /\ pc[w] \in {"scan", "write", "audit", "event"}
     /\ approvals[job[w].id].state = "pending")
    => job[w].id \in job[w].seen \/ job[w].begun < approvals[job[w].id].expiresAt

LocalOK(w) == /\ HasTarget(w) /\ OpFollowsPc(w) /\ SeenFollowsPc(w)
              /\ DecisionIsSound(w) /\ ResponseDecides(w)
              /\ HasAudited(w) /\ IsTimely(w) /\ CoversTarget(w)

\* Every thread's locals fit the tables, and the tables fit each other: inductive
\* together with TypeOK.
Inductive == /\ \A w \in Workers : LocalOK(w)
             /\ RowIsOneDecision /\ AuditedOrInFlight
             /\ PublishedIsAudited /\ AuditedResponseWasDecided
=============================================================================
