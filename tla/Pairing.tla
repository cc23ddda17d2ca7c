------------------------------- MODULE Pairing -------------------------------
(***************************************************************************)
(* How a phone becomes a device of the gateway: start_pairing, get_pairing *)
(* and complete_pairing of app.py, and the tables pairing_sessions,        *)
(* devices and auth_tokens of store.py.                                    *)
(*                                                                         *)
(* As in Approvals, a worker is a thread of the server's pool and a step   *)
(* is one store call: completing a pairing takes seven of them.            *)
(***************************************************************************)
EXTENDS Naturals, FiniteSets

CONSTANTS Workers,        \* threads of the server's pool
          Pairings,       \* pairing sessions that may be started
          Devices,        \* identifiers that devices may get
          Deadlines,      \* values of expires_at
          MaxTime,        \* bound: the clock stops here
          MaxCrashes      \* bound: how often the server restarts

None == "none"

ASSUME ConstantsAssumption ==
  /\ None \notin Pairings /\ None \notin Devices /\ IsFiniteSet(Workers)
  /\ Deadlines \subseteq Nat /\ MaxTime \in Nat /\ MaxCrashes \in Nat

Over     == {"completed", "expired"}
Statuses == {"absent", "pending"} \cup Over
Kinds    == {"access", "refresh"}

VARIABLES pairings,     \* table pairing_sessions
          owner,        \* table devices: the pairing that registered a device, or None
          tokens,       \* table auth_tokens: <<device, kind>>
          audit,        \* table audit_events: <<what, pairing or device>>
          events,       \* table event_envelopes: the devices announced
          answered,     \* the devices whose tokens a phone has been given
          clock,        \* the gateway's UTC clock
          pc, job,      \* per worker: its next step and its local variables
          crashes       \* how often the server has restarted

tables == <<pairings, owner, tokens, audit, events>>
vars   == <<tables, answered, clock, pc, job, crashes>>

\* op: the endpoint; seen: the pairing if it was read as pending and is still to be
\* written; right: whether the challenge response matches the pairing token.
Job   == [op : {"none", "start", "get", "complete"}, id : Pairings \cup {None},
          seen : SUBSET Pairings, right : BOOLEAN, device : Devices \cup {None},
          begun : 0..MaxTime]
NoJob == [op |-> "none", id |-> None, seen |-> {}, right |-> FALSE, device |-> None,
          begun |-> 0]
Labels == {"idle", "auditStart", "read", "judge", "expire", "check", "reject", "device",
           "access", "refresh", "complete", "audit", "event"}

Init == /\ pairings = [p \in Pairings |-> [status |-> "absent", expiresAt |-> 0]]
        /\ owner  = [d \in Devices |-> None]
        /\ tokens = {} /\ audit = {} /\ events = {} /\ answered = {}
        /\ clock  = 0
        /\ pc  = [w \in Workers |-> "idle"]
        /\ job = [w \in Workers |-> NoJob]
        /\ crashes = 0

-----------------------------------------------------------------------------
Goto(w, label, j) == /\ pc'  = [pc  EXCEPT ![w] = label]
                     /\ job' = [job EXCEPT ![w] = j]
Return(w) == Goto(w, "idle", NoJob)

Expired(p) == pairings[p].expiresAt <= clock

Start(w, p, deadline) ==
  /\ pc[w] = "idle" /\ pairings[p].status = "absent"
  /\ pairings' = [pairings EXCEPT ![p] = [status |-> "pending", expiresAt |-> deadline]]
  /\ Goto(w, "auditStart", [NoJob EXCEPT !.op = "start", !.id = p, !.begun = clock])
  /\ UNCHANGED <<owner, tokens, audit, events, answered, clock, crashes>>

AuditStart(w) == /\ pc[w] = "auditStart"
                 /\ audit' = audit \cup {<<"pairing_started", job[w].id>>}
                 /\ Return(w)
                 /\ UNCHANGED <<pairings, owner, tokens, events, answered, clock, crashes>>

\* A phone asks how the pairing is, or answers its challenge.
Begin(w, op, p, right) ==
  /\ pc[w] = "idle" /\ pairings[p].status # "absent"
  /\ Goto(w, "read", [NoJob EXCEPT !.op = op, !.id = p, !.right = right, !.begun = clock])
  /\ UNCHANGED <<tables, answered, clock, crashes>>

\* Bug: the status that was read is not looked at.
ReadUnguarded(w) ==
  /\ pc[w] = "read"
  /\ Goto(w, "judge", [job[w] EXCEPT !.seen = {job[w].id}])
  /\ UNCHANGED <<tables, answered, clock, crashes>>

\* A pairing that is over already is answered as it is (get), or refused (400).
Read(w) ==
  /\ pc[w] = "read"
  /\ IF pairings[job[w].id].status = "pending"
       THEN Goto(w, "judge", [job[w] EXCEPT !.seen = {job[w].id}])
       ELSE Return(w)
  /\ UNCHANGED <<tables, answered, clock, crashes>>

\* Bug: a pairing is only expired when somebody asks how it is.
JudgeOnGet(w) ==
  /\ pc[w] = "judge"
  /\ CASE job[w].op = "complete" -> Goto(w, "check", job[w])
       [] job[w].op = "get" /\ Expired(job[w].id)  -> Goto(w, "expire", job[w])
       [] job[w].op = "get" /\ ~Expired(job[w].id) -> Return(w)
  /\ UNCHANGED <<tables, answered, clock, crashes>>

\* _expire_pairing_if_needed
Judge(w) ==
  /\ pc[w] = "judge"
  /\ CASE Expired(job[w].id) -> Goto(w, "expire", job[w])
       [] ~Expired(job[w].id) /\ job[w].op = "complete" -> Goto(w, "check", job[w])
       [] ~Expired(job[w].id) /\ job[w].op = "get" -> Return(w)
  /\ UNCHANGED <<tables, answered, clock, crashes>>

\* Bug: a status that the schema does not have.
ExpireAsTimeout(w) == /\ pc[w] = "expire"
                      /\ pairings' = [pairings EXCEPT ![job[w].id].status = "timed_out"]
                      /\ Return(w)
                      /\ UNCHANGED <<owner, tokens, audit, events, answered, clock, crashes>>

\* The pairing is read again behind this, and is certainly not pending any more.
Expire(w) == /\ pc[w] = "expire"
             /\ pairings' = [pairings EXCEPT ![job[w].id].status = "expired"]
             /\ Return(w)
             /\ UNCHANGED <<owner, tokens, audit, events, answered, clock, crashes>>

\* Bug: the pairing is completed before there is a device.
CheckAndComplete(w) ==
  /\ pc[w] = "check"
  /\ IF job[w].right
       THEN /\ pairings' = [pairings EXCEPT ![job[w].id].status = "completed"]
            /\ Goto(w, "device", job[w])
       ELSE /\ Goto(w, "reject", [job[w] EXCEPT !.seen = {}])
            /\ UNCHANGED pairings
  /\ UNCHANGED <<owner, tokens, audit, events, answered, clock, crashes>>

Check(w) == /\ pc[w] = "check"
            /\ IF job[w].right THEN Goto(w, "device", job[w])
                               ELSE Goto(w, "reject", [job[w] EXCEPT !.seen = {}])
            /\ UNCHANGED <<tables, answered, clock, crashes>>

Reject(w) == /\ pc[w] = "reject"
             /\ audit' = audit \cup {<<"pairing_rejected", job[w].id>>}
             /\ Return(w)
             /\ UNCHANGED <<pairings, owner, tokens, events, answered, clock, crashes>>

CreateDevice(w, d) ==
  /\ pc[w] = "device" /\ owner[d] = None
  /\ owner' = [owner EXCEPT ![d] = job[w].id]
  /\ Goto(w, "access", [job[w] EXCEPT !.device = d])
  /\ UNCHANGED <<pairings, tokens, audit, events, answered, clock, crashes>>

CreateToken(w, kind, next) ==
  /\ pc[w] = kind
  /\ tokens' = tokens \cup {<<job[w].device, kind>>}
  /\ Goto(w, next, job[w])
  /\ UNCHANGED <<pairings, owner, audit, events, answered, clock, crashes>>

\* Bug: the pairing stays open when its device has been made.
CompleteWithoutStatus(w) ==
  /\ pc[w] = "complete"
  /\ Goto(w, "audit", [job[w] EXCEPT !.seen = {}])
  /\ UNCHANGED <<tables, answered, clock, crashes>>

\* Bug: the registration is not audited.
CompleteUnaudited(w) ==
  /\ pc[w] = "complete"
  /\ pairings' = [pairings EXCEPT ![job[w].id].status = "completed"]
  /\ Goto(w, "event", [job[w] EXCEPT !.seen = {}])
  /\ UNCHANGED <<owner, tokens, audit, events, answered, clock, crashes>>

\* set_pairing_status: UPDATE ... WHERE pairing_id = ?, whatever the status is by now.
Complete(w) ==
  /\ pc[w] = "complete"
  /\ pairings' = [pairings EXCEPT ![job[w].id].status = "completed"]
  /\ Goto(w, "audit", [job[w] EXCEPT !.seen = {}])
  /\ UNCHANGED <<owner, tokens, audit, events, answered, clock, crashes>>

AuditDevice(w) ==
  /\ pc[w] = "audit"
  /\ audit' = audit \cup {<<"device_registered", job[w].device>>}
  /\ Goto(w, "event", job[w])
  /\ UNCHANGED <<pairings, owner, tokens, events, answered, clock, crashes>>

\* The handler publishes, and hands the tokens to the phone.
Announce(w) ==
  /\ pc[w] = "event"
  /\ events'   = events   \cup {job[w].device}
  /\ answered' = answered \cup {job[w].device}
  /\ Return(w)
  /\ UNCHANGED <<pairings, owner, tokens, audit, clock, crashes>>

Tick == /\ clock < MaxTime
        /\ clock' = clock + 1
        /\ UNCHANGED <<tables, answered, pc, job, crashes>>

Crash == /\ crashes < MaxCrashes
         /\ crashes' = crashes + 1
         /\ pc'  = [w \in Workers |-> "idle"]
         /\ job' = [w \in Workers |-> NoJob]
         /\ UNCHANGED <<tables, answered, clock>>

Next == \/ \E w \in Workers, p \in Pairings :
             \/ \E deadline \in Deadlines : Start(w, p, deadline)
             \/ Begin(w, "get", p, FALSE)
             \/ \E right \in BOOLEAN : Begin(w, "complete", p, right)
        \/ \E w \in Workers :
             \/ AuditStart(w) \/ Read(w) \/ Judge(w) \/ Expire(w) \/ Check(w) \/ Reject(w)
             \/ \E d \in Devices : CreateDevice(w, d)
             \/ CreateToken(w, "access", "refresh") \/ CreateToken(w, "refresh", "complete")
             \/ Complete(w) \/ AuditDevice(w) \/ Announce(w)
        \/ Tick
        \/ Crash

Spec == Init /\ [][Next]_vars

-----------------------------------------------------------------------------
TypeOK == /\ pairings \in [Pairings -> [status : Statuses, expiresAt : Deadlines \cup {0}]]
          /\ owner  \in [Devices -> Pairings \cup {None}]
          /\ tokens \subseteq Devices \X Kinds
          /\ audit  \subseteq ({"pairing_started", "pairing_rejected"} \X Pairings)
                         \cup ({"device_registered"} \X Devices)
          /\ events \subseteq Devices /\ answered \subseteq Devices
          /\ clock  \in 0..MaxTime
          /\ pc     \in [Workers -> Labels]
          /\ job    \in [Workers -> Job]
          /\ crashes \in 0..MaxCrashes

DevicesOf(p) == {d \in Devices : owner[d] = p}
Usable(d)    == {d} \X Kinds \subseteq tokens

\* A pairing that is completed has led to a device with both of its tokens: a restart
\* half way leaves it pending, for the phone to try again, and never completed.
CompletedHasDevice ==
  \A p \in Pairings : pairings[p].status = "completed" =>
    \E d \in DevicesOf(p) : Usable(d)

\* The tokens a phone is given are those of an audited device that one pairing has
\* registered, also when several threads complete that pairing at once.
AnsweredIsAudited ==
  \A d \in answered : /\ owner[d] # None /\ Usable(d)
                      /\ <<"device_registered", d>> \in audit

\* A phone that answers the challenge at or after expires_at gets no device, however
\* long the thread takes between its steps.
LateAnswerGetsNoDevice ==
  [][\A w \in Workers : (pc[w] = "device" /\ pc'[w] = "access")
       => job[w].begun < pairings[job[w].id].expiresAt]_vars

\* A pairing registers at most one device for each thread that was already completing
\* it: a thread that comes back finds it over. (One thread: the pairing is single use;
\* a restart lets every thread try once more.)
OneDevicePerThread ==
  \A p \in Pairings : Cardinality(DevicesOf(p)) <= Cardinality(Workers) * (1 + crashes)

\* The threads that read the pairing as pending are its deciders.
Session == INSTANCE Clearance WITH
             Clearances <- Pairings, Deciders <- Workers, Outcomes <- Over,
             outcome  <- [p \in Pairings |-> pairings[p].status],
             deciding <- [p \in Pairings |-> {w \in Workers : p \in job[w].seen}]

\* A pairing keeps the promise of Clearance, as an approval does: once it is over,
\* only threads that had read it as pending still write its status.
ImplementsClearance == Session!Spec
=============================================================================
