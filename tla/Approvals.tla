------------------------------ MODULE Approvals ------------------------------
(***************************************************************************)
(* The gateway's approval engine: app.py (request, decide, respond, expire *)
(* and cancel endpoints), runtime_adapter.py (the runtime's request, poll  *)
(* and cancel) and the approval tables of store.py.                        *)
(*                                                                         *)
(* The endpoints are plain `def` functions, so FastAPI runs them on the    *)
(* threads of a pool, and every store method opens a connection of its own *)
(* and commits before it returns.  A worker is such a thread; each of its  *)
(* steps below is one store call, or one reading of the clock, and the     *)
(* steps of different workers interleave freely.                           *)
(***************************************************************************)
EXTENDS Naturals, FiniteSets

CONSTANTS Workers,        \* threads of the server's pool
          Approvals,      \* approval identifiers that may be requested
          Devices,        \* paired mobile devices
          Approvers,      \* those with the "approve" permission or a grant
          Decisions,      \* bound: the <<state, scope>> decisions devices send
          ResponseTypes,  \* bound: the kinds of structured response devices send
          Deadlines,      \* values of expires_at
          MaxTime,        \* bound: the clock stops here
          MaxCalls,       \* bound: how many calls arrive, polls not counted
          MaxCrashes      \* bound: how often the server restarts

Decisive       == {"approve_once", "approve_session", "approve_agent", "deny"}
Conversational == {"modified", "needs_info", "propose_policy"}
Scopes         == {"once", "session", "agent", "permanent"}
None           == "none"               \* a NULL column

ASSUME ConstantsAssumption ==
  /\ Approvers \subseteq Devices
  /\ Decisions \subseteq ({"approved", "denied"} \X Scopes)
                    \cup ({"expired", "cancelled"} \X {None})
  /\ ResponseTypes \subseteq Decisive \cup Conversational
  /\ Deadlines \subseteq Nat
  /\ MaxTime \in Nat /\ MaxCalls \in Nat /\ MaxCrashes \in Nat

Terminal == {"approved", "denied", "expired", "cancelled"}
States   == {"absent", "pending"} \cup Terminal
Runtime  == "hermes"
Gateway  == "gateway"
Actors   == Devices \cup {Runtime, Gateway, None}

Row    == [state : States, scope : Scopes \cup {None}, actor : Devices \cup {None},
           expiresAt : Deadlines \cup {0}]
Record == [what : {"requested", "resolved", "response", "refused"},
           id : Approvals, detail : States \cup ResponseTypes, by : Actors]
Event  == [what : {"requested", "resolved", "response", "agent"},
           id : Approvals, detail : States \cup ResponseTypes]
Ops    == {"none", "request", "decide", "respond", "cancel", "poll"}
Labels == {"idle", "park", "announce", "propose", "record", "read", "judge", "write",
           "audit", "event", "auditResponse", "eventResponse", "list", "scan"}
Job    == [op : Ops, id : Approvals \cup {None}, cur : Approvals \cup {None},
           out : States, scope : Scopes \cup {None}, by : Actors,
           type : ResponseTypes \cup {None}, begun : 0..MaxTime, seen : SUBSET Approvals]

VARIABLES approvals,   \* table approval_requests
          waiting,     \* approvals whose agent was set to waiting_approval
          proposals,   \* table approval_policy_proposals
          responses,   \* table approval_responses
          audit,       \* table audit_events (this engine's records)
          events,      \* table event_envelopes (this engine's events)
          told,        \* told[a]: the states of a that a poll has answered
          clock,       \* the gateway's UTC clock
          pc, job,     \* per worker: its next step and its local variables
          calls,       \* how many calls have arrived, polls not counted
          crashes      \* how often the server has restarted

tables == <<approvals, waiting, proposals, responses, audit, events>>
vars   == <<tables, told, clock, pc, job, calls, crashes>>

NoJob == [op |-> "none", id |-> None, cur |-> None, out |-> "absent", scope |-> None,
          by |-> None, type |-> None, begun |-> 0, seen |-> {}]

Init == /\ approvals = [a \in Approvals |-> [state |-> "absent", scope |-> None,
                                             actor |-> None, expiresAt |-> 0]]
        /\ waiting = {} /\ proposals = {} /\ responses = {}
        /\ audit = {} /\ events = {}
        /\ told = [a \in Approvals |-> {}]
        /\ clock = 0
        /\ pc  = [w \in Workers |-> "idle"]
        /\ job = [w \in Workers |-> NoJob]
        /\ calls = 0 /\ crashes = 0

-----------------------------------------------------------------------------
(* Local steps of a worker *)

Goto(w, label, j) == /\ pc'  = [pc  EXCEPT ![w] = label]
                     /\ job' = [job EXCEPT ![w] = j]
Return(w)         == Goto(w, "idle", NoJob)
Begin(w, label, j) == /\ pc[w] = "idle"
                      /\ Goto(w, label, [j EXCEPT !.cur = j.id, !.begun = clock])

Exists(a)  == approvals[a].state # "absent"
\* Bug: the deadline itself still counts as in time.
ExpiredAfter(a) == approvals[a].expiresAt < clock
Expired(a) == approvals[a].expiresAt <= clock
Pending    == {a \in Approvals : approvals[a].state = "pending"}

-----------------------------------------------------------------------------
(* Requesting an approval *)

CreateApproval(w, a, deadline, label) ==
  /\ approvals[a].state = "absent"
  /\ Begin(w, label, [NoJob EXCEPT !.op = "request", !.id = a, !.out = "pending",
                                   !.by = Runtime])
  /\ approvals' = [approvals EXCEPT ![a] = [@ EXCEPT !.state = "pending",
                                                      !.expiresAt = deadline]]
  /\ UNCHANGED <<waiting, proposals, responses, audit, events, told, clock, crashes>>

\* POST /v1/approvals names its deadline; nothing keeps it in the future.
RequestWithDeadline(w, a, deadline) == CreateApproval(w, a, deadline, "audit")

\* The runtime adapter asks for a time to live of a second or more, and parks
\* the agent before it audits the request.
RequestFromRuntime(w, a, deadline) ==
  /\ deadline > clock
  /\ CreateApproval(w, a, deadline, "park")

Park(w) == /\ pc[w] = "park"
           /\ waiting' = waiting \cup {job[w].id}
           /\ Goto(w, "announce", job[w])
           /\ UNCHANGED <<approvals, proposals, responses, audit, events,
                          told, clock, crashes>>

Announce(w) == /\ pc[w] = "announce"
               /\ events' = events \cup {[what |-> "agent", id |-> job[w].id,
                                          detail |-> "pending"]}
               /\ Goto(w, "audit", job[w])
               /\ UNCHANGED <<approvals, waiting, proposals, responses, audit,
                              told, clock, crashes>>

-----------------------------------------------------------------------------
(* Operators decide and respond; the runtime cancels; both poll *)

BeginDecide(w, d, a, out, scope) ==
  /\ Exists(a) /\ d \in Approvers
  /\ Begin(w, "read", [NoJob EXCEPT !.op = "decide", !.id = a, !.out = out,
                                    !.scope = scope, !.by = d])
  /\ UNCHANGED <<tables, told, clock, crashes>>

\* A device that may not decide leaves a capability_check_denied record, no more.
RefuseDevice(w, d, a) ==
  /\ pc[w] = "idle" /\ Exists(a) /\ d \in Devices \ Approvers
  /\ audit' = audit \cup {[what |-> "refused", id |-> a, detail |-> "absent", by |-> d]}
  /\ UNCHANGED <<approvals, waiting, proposals, responses, events,
                 told, clock, pc, job, crashes>>

OutcomeOf(type) == CASE type \in {"approve_once", "approve_session", "approve_agent"} -> "approved"
                     [] type = "deny" -> "denied"
                     [] OTHER -> "absent"
ScopeOf(type)   == CASE type \in {"approve_once", "deny"} -> "once"
                     [] type = "approve_session" -> "session"
                     [] type = "approve_agent" -> "agent"
                     [] OTHER -> None

\* A call that is refused before it has changed anything (404, a wrong confirmation phrase
\* of PROPOSE POLICY) leaves no trace, and is no step.
BeginRespond(w, d, a, type) ==
  /\ Exists(a) /\ d \in Approvers
  /\ Begin(w, IF type = "propose_policy" THEN "propose" ELSE "record",
           [NoJob EXCEPT !.op = "respond", !.id = a, !.out = OutcomeOf(type),
                         !.scope = ScopeOf(type), !.by = d, !.type = type])
  /\ UNCHANGED <<tables, told, clock, crashes>>

Propose(w) == /\ pc[w] = "propose"
              /\ proposals' = proposals \cup {<<job[w].id, job[w].by>>}
              /\ Goto(w, "record", job[w])
              /\ UNCHANGED <<approvals, waiting, responses, audit, events,
                             told, clock, crashes>>

\* The response row is committed before the decision it carries is tried.
RecordResponse(w) ==
  /\ pc[w] = "record"
  /\ responses' = responses \cup {<<job[w].id, job[w].type, job[w].by>>}
  /\ Goto(w, IF job[w].type \in Decisive THEN "read" ELSE "auditResponse", job[w])
  /\ UNCHANGED <<approvals, waiting, proposals, audit, events, told, clock, crashes>>

\* cancel_approval answers with one poll; cancel_clearance discards that answer and polls
\* again, which is a BeginPoll of the same thread.
BeginCancel(w, a) ==
  /\ Exists(a)
  /\ Begin(w, "read", [NoJob EXCEPT !.op = "cancel", !.id = a, !.out = "cancelled",
                                    !.by = Runtime])
  /\ UNCHANGED <<tables, told, clock, crashes>>

BeginPoll(w, a) ==
  /\ Exists(a)
  /\ Begin(w, "list", [NoJob EXCEPT !.op = "poll", !.id = a])
  /\ UNCHANGED <<tables, told, clock, crashes>>

-----------------------------------------------------------------------------
(* Resolving: read, judge the deadline, write, audit, publish *)

\* Bug: the state that was read is not looked at.
ReadUnguarded(w) ==
  /\ pc[w] = "read"
  /\ LET j == job[w] IN
       Goto(w, IF j.op = "cancel" THEN "write" ELSE "judge", [j EXCEPT !.seen = {j.id}])
  /\ UNCHANGED <<tables, told, clock, crashes>>

\* Bug: a response swallows the 409 of its decision.
ReadSwallowingConflict(w) ==
  /\ pc[w] = "read"
  /\ LET j == job[w] IN
       IF j.id \in Pending
         THEN Goto(w, IF j.op = "cancel" THEN "write" ELSE "judge",
                   [j EXCEPT !.seen = {j.id}])
         ELSE CASE j.op = "cancel"  -> Goto(w, "list", j)
                [] j.op = "respond" -> Goto(w, "auditResponse", j)
                [] OTHER -> Return(w)
  /\ UNCHANGED <<tables, told, clock, crashes>>

\* The state is read in a transaction of its own.  A settled approval is a 409 for
\* a device; the runtime's cancel goes on to answer what it finds.
Read(w) ==
  /\ pc[w] = "read"
  /\ LET j == job[w] IN
       IF j.id \in Pending
         THEN Goto(w, IF j.op = "cancel" THEN "write" ELSE "judge",
                   [j EXCEPT !.seen = {j.id}])
         ELSE IF j.op = "cancel" THEN Goto(w, "list", j) ELSE Return(w)
  /\ UNCHANGED <<tables, told, clock, crashes>>

\* Bug: a state that is not one of the schema's.
AsTimeout(j) == [j EXCEPT !.out = "timed_out", !.scope = None, !.by = Gateway]

AsExpiry(j) == [j EXCEPT !.out = "expired", !.scope = None, !.by = Gateway]

\* An approval or a denial that comes too late becomes an expiry.
Judge(w) ==
  /\ pc[w] = "judge"
  /\ LET j == job[w] IN
       Goto(w, "write", IF j.out \in {"approved", "denied"} /\ Expired(j.id)
                          THEN AsExpiry(j) ELSE j)
  /\ UNCHANGED <<tables, told, clock, crashes>>

\* Bug: UPDATE ... SET scope = COALESCE(?, scope).
WriteKeepingScope(w) ==
  /\ pc[w] = "write"
  /\ LET j == job[w] IN
       /\ approvals' = [approvals EXCEPT ![j.cur] =
                          [@ EXCEPT !.state = j.out,
                                    !.scope = IF j.scope = None THEN @ ELSE j.scope,
                                    !.actor = IF j.by \in Devices THEN j.by ELSE None]]
       /\ Goto(w, "audit", [j EXCEPT !.seen = @ \ {j.cur}])
  /\ UNCHANGED <<waiting, proposals, responses, audit, events, told, clock, crashes>>

\* Bug: the resolution is published but not audited.
WriteUnaudited(w) ==
  /\ pc[w] = "write"
  /\ LET j == job[w] IN
       /\ approvals' = [approvals EXCEPT ![j.cur] =
                          [@ EXCEPT !.state = j.out, !.scope = j.scope,
                                    !.actor = IF j.by \in Devices THEN j.by ELSE None]]
       /\ Goto(w, "event", [j EXCEPT !.seen = @ \ {j.cur}])
  /\ UNCHANGED <<waiting, proposals, responses, audit, events, told, clock, crashes>>

\* resolve_approval: UPDATE ... WHERE approval_id = ?, whatever the state is by now.
Write(w) ==
  /\ pc[w] = "write"
  /\ LET j == job[w] IN
       /\ approvals' = [approvals EXCEPT ![j.cur] =
                          [@ EXCEPT !.state = j.out, !.scope = j.scope,
                                    !.actor = IF j.by \in Devices THEN j.by ELSE None]]
       /\ Goto(w, "audit", [j EXCEPT !.seen = @ \ {j.cur}])
  /\ UNCHANGED <<waiting, proposals, responses, audit, events, told, clock, crashes>>

Audit(w) ==
  /\ pc[w] = "audit"
  /\ LET j == job[w] IN
       /\ audit' = audit \cup {[what |-> IF j.op = "request" THEN "requested" ELSE "resolved",
                                id |-> j.cur, detail |-> j.out, by |-> j.by]}
       /\ Goto(w, "event", j)
  /\ UNCHANGED <<approvals, waiting, proposals, responses, events, told, clock, crashes>>

\* Bug: the event is made from the row as it is by now.
PublishCurrentRow(w) ==
  /\ pc[w] = "event"
  /\ LET j == job[w] IN
       /\ events' = events \cup {[what |-> IF j.op = "request" THEN "requested" ELSE "resolved",
                                  id |-> j.cur, detail |-> approvals[j.cur].state]}
       /\ CASE j.op = "poll"   -> Goto(w, "scan", j)
            [] j.op = "cancel" -> Goto(w, "list", j)
            [] j.op = "respond" /\ j.out # "expired" -> Goto(w, "auditResponse", j)
            [] OTHER -> Return(w)
  /\ UNCHANGED <<approvals, waiting, proposals, responses, audit, told, clock, crashes>>

\* Publishing ends a request and a decision.  A response goes on to its own audit
\* record unless it came too late (the 409 "approval expired"); a cancel goes on to
\* poll; a poll goes on with its scan.
Publish(w) ==
  /\ pc[w] = "event"
  /\ LET j == job[w] IN
       /\ events' = events \cup {[what |-> IF j.op = "request" THEN "requested" ELSE "resolved",
                                  id |-> j.cur, detail |-> j.out]}
       /\ CASE j.op = "poll"   -> Goto(w, "scan", j)
            [] j.op = "cancel" -> Goto(w, "list", j)
            [] j.op = "respond" /\ j.out # "expired" -> Goto(w, "auditResponse", j)
            [] OTHER -> Return(w)
  /\ UNCHANGED <<approvals, waiting, proposals, responses, audit, told, clock, crashes>>

AuditResponse(w) ==
  /\ pc[w] = "auditResponse"
  /\ audit' = audit \cup {[what |-> "response", id |-> job[w].id,
                           detail |-> job[w].type, by |-> job[w].by]}
  /\ Goto(w, "eventResponse", job[w])
  /\ UNCHANGED <<approvals, waiting, proposals, responses, events, told, clock, crashes>>

PublishResponse(w) ==
  /\ pc[w] = "eventResponse"
  /\ events' = events \cup {[what |-> "response", id |-> job[w].id, detail |-> job[w].type]}
  /\ Return(w)
  /\ UNCHANGED <<approvals, waiting, proposals, responses, audit, told, clock, crashes>>

-----------------------------------------------------------------------------
(* Polling: scan for expired approvals, then answer *)

\* One query lists what is pending; the rows are then judged one at a time.
List(w) == /\ pc[w] = "list"
           /\ Goto(w, "scan", [job[w] EXCEPT !.op = "poll", !.seen = Pending])
           /\ UNCHANGED <<tables, told, clock, crashes>>

\* Bug: the comparison with the clock is inverted.
ScanInverted(w, a) ==
  /\ pc[w] = "scan" /\ a \in job[w].seen
  /\ IF Expired(a)
       THEN Goto(w, "scan", [job[w] EXCEPT !.seen = @ \ {a}])
       ELSE Goto(w, "write", AsExpiry([job[w] EXCEPT !.cur = a]))
  /\ UNCHANGED <<tables, told, clock, crashes>>

Scan(w, a) ==
  /\ pc[w] = "scan" /\ a \in job[w].seen
  /\ IF Expired(a)
       THEN Goto(w, "write", AsExpiry([job[w] EXCEPT !.cur = a]))
       ELSE Goto(w, "scan", [job[w] EXCEPT !.seen = @ \ {a}])
  /\ UNCHANGED <<tables, told, clock, crashes>>

\* Bug: the answer does not wait for the scan.
AnswerEarly(w) == /\ pc[w] = "scan"
                  /\ told' = [told EXCEPT ![job[w].id] = @ \cup {approvals[job[w].id].state}]
                  /\ Return(w)
                  /\ UNCHANGED <<tables, clock, crashes>>

Answer(w) == /\ pc[w] = "scan" /\ job[w].seen = {}
             /\ told' = [told EXCEPT ![job[w].id] = @ \cup {approvals[job[w].id].state}]
             /\ Return(w)
             /\ UNCHANGED <<tables, clock, crashes>>

-----------------------------------------------------------------------------
Tick == /\ clock < MaxTime
        /\ clock' = clock + 1
        /\ UNCHANGED <<tables, told, pc, job, calls, crashes>>

\* The server stops and restarts: the tables survive, the threads do not.
Crash == /\ crashes < MaxCrashes
         /\ crashes' = crashes + 1
         /\ pc'  = [w \in Workers |-> "idle"]
         /\ job' = [w \in Workers |-> NoJob]
         /\ UNCHANGED <<tables, told, clock, calls>>

\* A thread of the pool takes a call.
Accept(w, a) ==
  /\ calls < MaxCalls
  /\ calls' = calls + 1
  /\ \/ \E deadline \in Deadlines : RequestWithDeadline(w, a, deadline)
     \/ \E deadline \in Deadlines : RequestFromRuntime(w, a, deadline)
     \/ \E d \in Devices, decision \in Decisions :
          BeginDecide(w, d, a, decision[1], decision[2])
     \/ \E d \in Devices : RefuseDevice(w, d, a)
     \/ \E d \in Devices, type \in ResponseTypes : BeginRespond(w, d, a, type)
     \/ BeginCancel(w, a)

Poll(w, a) == BeginPoll(w, a) /\ UNCHANGED calls

\* What a worker does next once it has begun: enabled until it is idle again.
Continue(w) == /\ UNCHANGED calls
               /\ \/ Park(w) \/ Announce(w) \/ Propose(w) \/ RecordResponse(w)
                  \/ Read(w) \/ Judge(w) \/ Write(w) \/ Audit(w) \/ Publish(w)
                  \/ AuditResponse(w) \/ PublishResponse(w)
                  \/ List(w) \/ (\E a \in Approvals : Scan(w, a)) \/ Answer(w)

Next == \/ \E w \in Workers, a \in Approvals : Accept(w, a) \/ Poll(w, a)
        \/ \E w \in Workers : Continue(w)
        \/ Tick
        \/ Crash

Spec == Init /\ [][Next]_vars

\* A thread that has begun runs on, time passes, and the runtime that waits for an
\* answer polls again and again (runtime_client.py, _wait): its poll finds a free
\* thread infinitely often, and one of those times it is served.
Fairness == /\ \A w \in Workers : WF_vars(Continue(w))
            /\ WF_vars(Tick)
            /\ \A a \in Approvals : SF_vars(\E w \in Workers : Poll(w, a))

FairSpec == Spec /\ Fairness

-----------------------------------------------------------------------------
(* What the engine is expected to guarantee *)

TypeOK == /\ approvals \in [Approvals -> Row]
          /\ waiting   \subseteq Approvals
          /\ proposals \subseteq Approvals \X Devices
          /\ responses \subseteq Approvals \X ResponseTypes \X Devices
          /\ audit     \subseteq Record
          /\ events    \subseteq Event
          /\ told  \in [Approvals -> SUBSET States]
          /\ clock \in 0..MaxTime
          /\ pc    \in [Workers -> Labels]
          /\ job   \in [Workers -> Job]
          /\ calls \in 0..MaxCalls /\ crashes \in 0..MaxCrashes

Settled(a) == approvals[a].state \in Terminal

\* The row of an approval is always the trace of one decision, never a blend of two
\* that raced: an approval or denial names an approver and a scope, an expiry or a
\* cancellation has no scope, a pending row has neither (resolve_approval sets the
\* decision columns together).
RowIsOneDecision ==
  \A a \in Approvals :
    LET row == approvals[a] IN
      /\ row.state \in {"approved", "denied"} => row.actor \in Approvers /\ row.scope \in Scopes
      /\ row.state \in {"expired", "cancelled"} => row.scope = None
      /\ row.state \in {"absent", "pending"} => row.scope = None /\ row.actor = None

Resolution(a, state) == {r \in audit : r.what = "resolved" /\ r.id = a /\ r.detail = state}

\* While the server stays up, every settled row has its audit record or a thread that
\* is about to append it, whichever of several racing writers came last.
AuditedOrInFlight ==
  crashes = 0 =>
    \A a \in Approvals : Settled(a) =>
      \/ Resolution(a, approvals[a].state) # {}
      \/ \E w \in Workers : pc[w] = "audit" /\ job[w].cur = a /\ job[w].out = approvals[a].state

\* Nothing is published that has not been audited, not even across a restart: an
\* approval.resolved event has a resolution record with the same outcome.
PublishedIsAudited ==
  \A e \in events : e.what = "resolved" => Resolution(e.id, e.detail) # {}

\* An audited response that carries a decision follows the audit record of that very
\* decision by that very device: a response whose decision was refused (409) is never
\* audited as if it had counted.
AuditedResponseWasDecided ==
  \A r \in audit : (r.what = "response" /\ r.detail \in Decisive) =>
    \E q \in Resolution(r.id, OutcomeOf(r.detail)) : q.by = r.by

\* An operator's decision that reaches the gateway at or after the deadline never
\* approves and never denies, however long the thread takes (the check against
\* expires_at in _transition_approval).
LateDecisionNeverCounts ==
  [][\A w \in Workers :
       (pc[w] = "write" /\ pc'[w] = "audit" /\ job[w].out \in {"approved", "denied"})
         => job[w].begun < approvals[job[w].cur].expiresAt]_vars

\* A poll that begins at or after the deadline never answers "pending": its own scan
\* settles the approval first, whatever the other threads do meanwhile.
OverdueIsNeverAnsweredPending ==
  [][\A w \in Workers :
       (pc[w] = "scan" /\ pc'[w] = "idle" /\ crashes' = crashes
          /\ approvals[job[w].id].state = "pending")
         => job[w].begun < approvals[job[w].id].expiresAt]_vars

\* docs/implementation/slice-001-gateway-foundation.md: any terminal approval rejects
\* later transitions.
TerminalIsFinal ==
  [][\A a \in Approvals : Settled(a) => approvals'[a] = approvals[a]]_vars

\* The deciders of an approval are the threads whose local copy says it is pending.
Engine == INSTANCE Clearance WITH
            Clearances <- Approvals, Deciders <- Workers, Outcomes <- Terminal,
            outcome  <- [a \in Approvals |-> approvals[a].state],
            deciding <- [a \in Approvals |-> {w \in Workers : a \in job[w].seen}]

\* The engine keeps the promise of Clearance: only threads that saw an approval as
\* pending settle it, so overwrites stop when those threads are done.
ImplementsClearance == Engine!Spec

\* While the runtime polls, no approval stays pending for ever: a poll expires it
\* once its deadline has passed.
OverdueIsSettled ==
  \A a \in Approvals : (approvals[a].state = "pending" /\ Expired(a)) ~> Settled(a)
=============================================================================
