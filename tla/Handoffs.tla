------------------------------ MODULE Handoffs ------------------------------
(***************************************************************************)
(* Hand-offs: an agent asks its operator for guidance (TUA), for a look at *)
(* a browser or for a voice prompt, the operator works on it from a device *)
(* and gives control back, and the runtime polls for the result (app.py,   *)
(* runtime_adapter.py, store.py, and the waits of runtime_client.py).      *)
(*                                                                         *)
(* A handler runs on a thread of the pool and makes its store calls one by *)
(* one, in the order of Plan; each call is a transaction of its own, so    *)
(* the calls of two handlers interleave and a crash cuts a plan short.     *)
(* Every session has a row in the table of its kind and a mirror of it in  *)
(* operator_sessions, written by different calls of the same handlers.     *)
(* A remark is a message of a TUA or voice session or a note of a browser  *)
(* session; a summary is known by the session it was returned for.         *)
(***************************************************************************)
EXTENDS Naturals, Sequences

CONSTANTS Handlers,           \* threads of the pool
          Requests,           \* assistance requests
          TuaSessions, BrowserSessions, VoiceSessions,
          RequestOf,          \* RequestOf[s]: the request of TUA session s
          Granted,            \* kinds granted to the runtime, the agent or the node
          CapabilityLists,    \* lists of capabilities that an agent registers
          MaxCalls, MaxCrashes \* bounds

Sessions == TuaSessions \cup BrowserSessions \cup VoiceSessions
SessionsOf(r) == {s \in TuaSessions : RequestOf[s] = r}
Handoff  == Requests \cup BrowserSessions \cup VoiceSessions   \* what a runtime waits for
Kinds    == {"tua", "browser_assistance", "voice"}

None == "none"
Agent == "agent"

ASSUME HandoffAssumption ==
  /\ RequestOf \in [TuaSessions -> Requests]
  /\ Granted \subseteq Kinds /\ CapabilityLists \subseteq SUBSET Kinds
  /\ MaxCalls \in Nat /\ MaxCrashes \in Nat
  /\ TuaSessions \cap (BrowserSessions \cup VoiceSessions) = {}
  /\ BrowserSessions \cap VoiceSessions = {}
  /\ Requests \cap Sessions = {}
  /\ {None, Agent, "nothing", "waiting", "ended"} \cap (Sessions \cup Requests) = {}

VARIABLES
  request,      \* request[r]: state of an assistance request
  state,        \* state[s]: state of the row in the table of its kind
  summary,      \* summary[s]: the summary returned with it, or None
  remarks,      \* remarks[s]: how many remarks are stored with it
  newest,       \* newest[r]: of the sessions of request r the last updated, or None
  mirror,       \* mirror[s]: state and summary of its row in operator_sessions
  capabilities, \* capabilities of the agent's row
  job,          \* job[h]: what handler h is doing
  told,         \* told[w]: what the runtime that waits for hand-off w knows
  calls, crashes,
  given,        \* history: given[s], the remarks that were made about s
  registered,   \* history: the capabilities registered last
  crossed       \* history: what handlers worked on at the same time, or left half done

tables == <<request, state, summary, remarks, newest, mirror, capabilities>>
history == <<given, registered, crossed>>
vars   == <<tables, job, told, calls, crashes, history>>

KindOf(x) == IF x \in TuaSessions \cup Requests THEN "tua"
             ELSE IF x \in BrowserSessions THEN "browser_assistance" ELSE "voice"

NoMirror == [state |-> "absent", summary |-> None]
NoJob    == [op |-> "idle", on |-> None, at |-> 1, seen |-> None, notes |-> 0, list |-> {}]

\* The store calls of each handler, in the order of the code.  The runtime's requests
\* write back the agent's row; those of the endpoints of app.py do not.
Plan(op, x) ==
  CASE op = "runtime_request" /\ KindOf(x) = "tua" ->
         <<"insert", "agent", "writeback", "event", "audit", "event">>
    [] op = "runtime_request" /\ KindOf(x) = "browser_assistance" ->
         <<"insert", "mirror", "agent", "writeback", "event", "audit", "event">>
    [] op = "runtime_request" /\ KindOf(x) = "voice" -> <<"insert", "mirror", "audit", "event">>
    [] op = "request" /\ KindOf(x) = "tua" -> <<"insert", "audit", "event">>
    [] op = "request" /\ KindOf(x) # "tua" -> <<"insert", "row", "audit", "mirror", "event">>
    [] op = "session" -> <<"insert", "row", "audit", "mirror", "event">>
    [] op = "opening" -> <<"insert", "remark", "row", "audit", "mirror", "event">>
    [] op = "message" -> <<"remark", "audit", "event">>
    [] op = "note"    -> <<"notes", "note", "audit", "event", "mirror">>
    [] op \in {"return", "close"} -> <<"update", "audit", "event", "mirror">>
    [] op = "approval" -> <<"agent", "writeback", "event", "audit", "event">>
    [] op = "context" -> <<"agent", "register", "audit", "event">>
    [] op = "refused" -> <<"audit">>

\* Bug: a state that is not one of the schema's.
TargetAsNamed(op, x) == op

\* The state that a handler writes to the table and to the mirror.
Target(op, x) == CASE op = "note"   -> "user_controlling"
                   [] op = "return" -> "returned_to_agent"
                   [] op = "close"  -> "closed"
                   [] OTHER -> IF KindOf(x) = "browser_assistance" THEN "requested" ELSE "active"

Init ==
  /\ request = [r \in Requests |-> "absent"]
  /\ state = [s \in Sessions |-> "absent"]
  /\ summary = [s \in Sessions |-> None]
  /\ remarks = [s \in Sessions |-> 0]
  /\ newest = [r \in Requests |-> None]
  /\ mirror = [s \in Sessions |-> NoMirror]
  /\ capabilities = {} /\ registered = {}
  /\ job = [h \in Handlers |-> NoJob]
  /\ told = [w \in Handoff |-> "nothing"]
  /\ calls = 0 /\ crashes = 0
  /\ given = [s \in Sessions |-> 0]
  /\ crossed = {}

-----------------------------------------------------------------------------
(* Calls.                                                                  *)

\* The session that a handler is working on, and the agent whose row it writes back.
Touches(j) == {x \in Sessions : x = j.on /\ j.op # "refused"}
              \cup {x \in {Agent} : \/ j.op \in {"context", "approval"}
                                    \/ j.op = "runtime_request" /\ KindOf(j.on) # "voice"}

Busy == UNION {Touches(job[h]) : h \in Handlers}

Begin(h, op, x, list) ==
  /\ job[h] = NoJob /\ calls < MaxCalls
  /\ calls' = calls + 1
  /\ LET j == [NoJob EXCEPT !.op = op, !.on = x, !.list = list]
     IN  /\ job' = [job EXCEPT ![h] = j]
         /\ crossed' = crossed \cup (Touches(j) \cap Busy)
  /\ UNCHANGED <<tables, told, crashes, given, registered>>

Fresh(x) == /\ x \in Requests => request[x] = "absent"
            /\ x \in Sessions => state[x] = "absent"
            /\ \A h \in Handlers : job[h].on # x

\* new_id: which unused identifier it makes up is immaterial.
NewSession(r) == CHOOSE s \in SessionsOf(r) : Fresh(s)

\* require_runtime_capability: the agent's own row, or a grant.
RuntimeMay(x) == KindOf(x) \in capabilities \cup Granted

RuntimeRequest(h, w) ==
  Fresh(w) /\ Begin(h, IF RuntimeMay(w) THEN "runtime_request" ELSE "refused", w, {})

\* The endpoints of app.py that create; voice sessions are created from a device.
CreateTuaRequest(h, r)               == r \in Requests /\ Fresh(r) /\ Begin(h, "request", r, {})
CreateBrowserAssistanceSession(h, s) == s \in BrowserSessions /\ Fresh(s) /\ Begin(h, "request", s, {})
CreateVoiceSession(h, s)             == s \in VoiceSessions /\ Fresh(s) /\ Begin(h, "request", s, {})
CreateTuaSession(h, s) ==
  /\ s \in TuaSessions /\ Fresh(s) /\ s = NewSession(RequestOf[s])
  /\ request[RequestOf[s]] # "absent"
  /\ \E op \in {"session", "opening"} : Begin(h, op, s, {})

\* The endpoints that work on a session.  They take one in any state: none looks at it.
Work(h, op, s, kind) == s \in kind /\ state[s] # "absent" /\ Begin(h, op, s, {})

CreateTuaMessage(h, s)               == Work(h, "message", s, TuaSessions)
ReturnTuaControl(h, s)               == Work(h, "return", s, TuaSessions)
CloseTuaSession(h, s)                == Work(h, "close", s, TuaSessions)
AddBrowserAssistanceEvent(h, s)      == Work(h, "note", s, BrowserSessions)
ReturnBrowserAssistanceControl(h, s) == Work(h, "return", s, BrowserSessions)
CloseBrowserAssistanceSession(h, s)  == Work(h, "close", s, BrowserSessions)
CreateVoiceMessage(h, s)             == Work(h, "message", s, VoiceSessions)
CloseVoiceSession(h, s)              == Work(h, "close", s, VoiceSessions)

Operate(h, s) == \/ CreateTuaMessage(h, s) \/ ReturnTuaControl(h, s) \/ CloseTuaSession(h, s)
                 \/ AddBrowserAssistanceEvent(h, s) \/ ReturnBrowserAssistanceControl(h, s)
                 \/ CloseBrowserAssistanceSession(h, s)
                 \/ CreateVoiceMessage(h, s) \/ CloseVoiceSession(h, s)

\* require_device_capability: the device may not, which is audited.
Deny(h, s) == state[s] # "absent" /\ Begin(h, "refused", s, {})

RegisterContext(h, list) == Begin(h, "context", Agent, list)

\* request_approval writes back the agent's row too; the approval itself is the matter of
\* Approvals.
RequestApproval(h) == Begin(h, "approval", Agent, {})

-----------------------------------------------------------------------------
(* Store calls.                                                            *)

Last(j) == Len(Plan(j.op, j.on))

\* Handler h is about to make this call of its plan.
At(h, step) == job[h] # NoJob /\ Plan(job[h].op, job[h].on)[job[h].at] = step

\* On to the next call, with what j holds.
Advance(h, j) ==
  job' = [job EXCEPT ![h] = IF j.at = Last(j) THEN NoJob ELSE [j EXCEPT !.at = @ + 1]]
Proceed(h) == Advance(h, job[h])

\* A session that is inserted or updated comes first in list_assistance_sessions, which
\* selects by request and sorts by updated_at: tua_result takes the first.  The stamp is
\* taken just before the transaction; of two calls that commit in the other order than
\* they were stamped, the model takes the one that committed last.
Front(s) == IF s \in TuaSessions THEN [newest EXCEPT ![RequestOf[s]] = s] ELSE newest

\* create_assistance_request.
InsertRequest(h) ==
  /\ At(h, "insert") /\ job[h].on \in Requests
  /\ request' = [request EXCEPT ![job[h].on] = "requested"]
  /\ Proceed(h)
  /\ UNCHANGED <<state, summary, remarks, newest, mirror, capabilities, told, calls, crashes, history>>

InsertRow(h) == /\ At(h, "insert")
                /\ state' = [state EXCEPT ![job[h].on] = Target(job[h].op, job[h].on)]
                /\ Proceed(h)
                /\ UNCHANGED <<summary, remarks, mirror, capabilities, told, calls, crashes, history>>

\* create_assistance_session: the row, and in the same transaction the state of its request.
InsertTuaSession(h) ==
  /\ job[h].on \in TuaSessions
  /\ InsertRow(h)
  /\ request' = [request EXCEPT ![RequestOf[job[h].on]] = "active"]
  /\ newest' = Front(job[h].on)

\* create_browser_assistance_session, create_voice_session of store.py.
InsertBrowserSession(h) ==
  job[h].on \in BrowserSessions /\ InsertRow(h) /\ UNCHANGED <<request, newest>>
InsertVoiceSession(h) ==
  job[h].on \in VoiceSessions /\ InsertRow(h) /\ UNCHANGED <<request, newest>>

\* The row that was inserted is read again; its state is what the mirror will get.
ReadRow(h) ==
  /\ At(h, "row")
  /\ Advance(h, [job[h] EXCEPT !.seen = state[job[h].on]])
  /\ UNCHANGED <<tables, told, calls, crashes, history>>

\* create_assistance_message, create_voice_message: a row of its own.
Remark(h) ==
  LET s == job[h].on IN
  /\ At(h, "remark")
  /\ remarks' = [remarks EXCEPT ![s] = @ + 1]
  /\ given' = [given EXCEPT ![s] = @ + 1]
  /\ Proceed(h)
  /\ UNCHANGED <<request, state, summary, newest, mirror, capabilities, told,
                 calls, crashes, registered, crossed>>

\* add_browser_assistance_note reads the notes in one transaction...
ReadNotes(h) ==
  /\ At(h, "notes")
  /\ Advance(h, [job[h] EXCEPT !.notes = remarks[job[h].on]])
  /\ UNCHANGED <<tables, told, calls, crashes, history>>

\* ... and writes the longer list, and the state, in another.
Note(h) ==
  LET s == job[h].on IN
  /\ At(h, "note")
  /\ remarks' = [remarks EXCEPT ![s] = job[h].notes + 1]
  /\ state' = [state EXCEPT ![s] = Target("note", s)]
  /\ given' = [given EXCEPT ![s] = @ + 1]
  /\ Proceed(h)
  /\ UNCHANGED <<request, summary, newest, mirror, capabilities, told,
                 calls, crashes, registered, crossed>>

\* Bug: a call without a summary erases the one there is.
SummaryErased(op, s, old) == IF op = "return" THEN s ELSE None

\* COALESCE: only a return writes a summary.
Summary(op, s, old) == IF op = "return" THEN s ELSE old

\* update_assistance_session_state, update_browser_assistance_state,
\* update_voice_session_state.
Update(h) ==
  LET s == job[h].on
      op == job[h].op IN
  /\ At(h, "update")
  /\ state' = [state EXCEPT ![s] = Target(op, s)]
  /\ summary' = [summary EXCEPT ![s] = Summary(op, s, @)]
  /\ newest' = Front(s)
  /\ Proceed(h)
  /\ UNCHANGED <<request, remarks, mirror, capabilities, told, calls, crashes, history>>

Creates(op) == op \in {"runtime_request", "request", "session", "opening"}

\* Bug: the summary is not handed on to the mirror.
MirrorStateOnly(h) ==
  LET s == job[h].on
      op == job[h].op IN
  /\ At(h, "mirror")
  /\ mirror' = [mirror EXCEPT ![s].state =
       IF ~Creates(op) THEN IF @ = "absent" THEN @ ELSE Target(op, s)
       ELSE IF op = "runtime_request" THEN Target(op, s) ELSE job[h].seen]
  /\ Proceed(h)
  /\ UNCHANGED <<request, state, summary, remarks, newest, capabilities, told,
                 calls, crashes, history>>

\* create_operator_session and _update_operator_session_if_exists: the one inserts or
\* overwrites, the other leaves a session without a mirror alone.
Mirror(h) ==
  LET s == job[h].on
      op == job[h].op
      was == mirror[s] IN
  /\ At(h, "mirror")
  /\ mirror' = [mirror EXCEPT ![s] =
       IF ~Creates(op) THEN IF was.state = "absent" THEN was
                            ELSE [state |-> Target(op, s), summary |-> Summary(op, s, was.summary)]
       ELSE [was EXCEPT !.state = IF op = "runtime_request" THEN Target(op, s) ELSE job[h].seen]]
  /\ Proceed(h)
  /\ UNCHANGED <<request, state, summary, remarks, newest, capabilities, told,
                 calls, crashes, history>>

\* _existing_agent.  register_context falls back on the capabilities it finds.
ReadAgent(h) ==
  /\ At(h, "agent")
  /\ Advance(h, [job[h] EXCEPT !.list = IF job[h].op = "context" /\ @ # {} THEN @
                                        ELSE capabilities])
  /\ UNCHANGED <<tables, told, calls, crashes, history>>

\* register_context.  The rows of its session and its mission are left out.
Register(h) ==
  /\ At(h, "register")
  /\ capabilities' = job[h].list
  /\ registered' = job[h].list
  /\ Proceed(h)
  /\ UNCHANGED <<request, state, summary, remarks, newest, mirror, told,
                 calls, crashes, given, crossed>>

\* _set_agent_runtime_state writes the whole row, to set the status.
WriteBack(h) ==
  /\ At(h, "writeback")
  /\ capabilities' = job[h].list
  /\ Proceed(h)
  /\ UNCHANGED <<request, state, summary, remarks, newest, mirror, told,
                 calls, crashes, history>>

\* append_audit_event and create_event: what they do to the log and to the stream is
\* the matter of AuditChain and EventStream.
Record(h) ==
  /\ At(h, "audit") \/ At(h, "event")
  /\ Proceed(h)
  /\ UNCHANGED <<tables, calls, crashes, history>>
  /\ told' = IF job[h].at = Last(job[h]) /\ job[h].op = "runtime_request"
               THEN [told EXCEPT ![job[h].on] = "waiting"] ELSE told

-----------------------------------------------------------------------------
(* The runtime: wait_for_assistance, wait_for_browser_assistance and       *)
(* wait_for_voice poll tua_result, browser_result and voice_result.        *)

\* The state and the summary in the result for w.  tua_result reads the request before its
\* sessions; the request never comes to an end state, so that Done is decided by the second
\* read alone.
Result(w) ==
  IF w \in Requests
    THEN [state |-> request[w],
          summary |-> IF newest[w] = None THEN None ELSE summary[newest[w]]]
    ELSE [state |-> state[w], summary |-> summary[w]]

EndStates(w) == CASE KindOf(w) = "tua" -> {"returned_to_agent", "closed", "cancelled"}
                  [] KindOf(w) = "browser_assistance" -> {"returned_to_agent", "closed", "failed"}
                  [] OTHER -> {"closed"}

\* Bug: the wait looks at the state only.
DoneByState(w) == Result(w).state \in EndStates(w)

Done(w) == Result(w).summary # None \/ Result(w).state \in EndStates(w)

Poll(w) == /\ told[w] = "waiting" /\ Done(w)
           /\ told' = [told EXCEPT ![w] = IF Result(w).summary # None THEN Result(w).summary
                                          ELSE "ended"]
           /\ UNCHANGED <<tables, job, calls, crashes, history>>

\* The gateway restarts: the handlers are gone, the database and the runtime are not.
Crash == /\ crashes < MaxCrashes
         /\ crashes' = crashes + 1
         /\ job' = [h \in Handlers |-> NoJob]
         /\ crossed' = crossed \cup Busy
         /\ UNCHANGED <<tables, told, calls, given, registered>>

Step(h) == \/ InsertRequest(h) \/ InsertTuaSession(h)
           \/ InsertBrowserSession(h) \/ InsertVoiceSession(h) \/ ReadRow(h)
           \/ Remark(h) \/ ReadNotes(h) \/ Note(h) \/ Update(h) \/ Mirror(h)
           \/ ReadAgent(h) \/ Register(h) \/ WriteBack(h) \/ Record(h)

Next ==
  \/ \E h \in Handlers : \/ \E w \in Handoff : \/ RuntimeRequest(h, w) \/ CreateTuaRequest(h, w)
                                                \/ CreateBrowserAssistanceSession(h, w)
                                                \/ CreateVoiceSession(h, w)
                         \/ \E s \in Sessions : CreateTuaSession(h, s) \/ Operate(h, s) \/ Deny(h, s)
                         \/ \E list \in CapabilityLists : RegisterContext(h, list)
                         \/ RequestApproval(h)
                         \/ Step(h)
  \/ \E w \in Handoff : Poll(w)
  \/ Crash

Spec == Init /\ [][Next]_vars

\* The runtime polls on until it is answered (that it gives up after a while is in
\* RuntimeClient); of operators and handlers nothing is asked.
FairSpec == Spec /\ \A w \in Handoff : WF_vars(Poll(w))

-----------------------------------------------------------------------------
SessionStates == {"requested", "active", "user_controlling", "returned_to_agent", "closed"}

Ops == {"idle", "runtime_request", "request", "session", "opening", "message", "note",
        "return", "close", "context", "approval", "refused"}
Job == [op : Ops, on : Sessions \cup Requests \cup {Agent, None}, at : 1..7,
        seen : SessionStates \cup {"absent", None}, notes : Nat, list : SUBSET Kinds]

TypeOK ==
  /\ request \in [Requests -> {"absent", "requested", "active"}]
  /\ state \in [Sessions -> SessionStates \cup {"absent"}]
  /\ summary \in [Sessions -> Sessions \cup {None}]
  /\ remarks \in [Sessions -> Nat] /\ given \in [Sessions -> Nat]
  /\ newest \in [Requests -> TuaSessions \cup {None}]
  /\ mirror \in [Sessions -> [state : SessionStates \cup {"absent"},
                              summary : Sessions \cup {None}]]
  /\ capabilities \subseteq Kinds /\ registered \subseteq Kinds
  /\ job \in [Handlers -> Job]
  /\ told \in [Handoff -> {"nothing", "waiting", "ended"} \cup Sessions]
  /\ calls \in 0..MaxCalls /\ crashes \in 0..MaxCrashes
  /\ crossed \subseteq Sessions \cup {Agent}

\* The operator-session list agrees with the row, once the calls about a session are
\* over, unless two of them overlapped or a restart cut one short.
MirrorAgrees ==
  \A s \in Sessions \ (crossed \cup Busy) :
    mirror[s] = [state |-> state[s], summary |-> summary[s]]

\* No remark is lost, with the same exception; none is ever counted twice.
RemarksAreKept ==
  \A s \in Sessions : /\ remarks[s] <= given[s]
                      /\ s \notin crossed => remarks[s] = given[s]

\* Requests that write back the agent's row change no capability, with the same exception.
AgentIsAsRegistered == Agent \notin crossed => capabilities = registered

\* Rows that several calls of a handler write agree once the calls are over, whatever was
\* done in which order: only calls that overlap, and restarts, set them apart.
Consistent == MirrorAgrees /\ RemarksAreKept /\ AgentIsAsRegistered

\* The runtime is told the summary of a session of its own hand-off.
ToldItsOwn ==
  \A w \in Handoff : told[w] \in Sessions =>
    /\ IF w \in Requests THEN told[w] \in SessionsOf(w) ELSE told[w] = w
    /\ summary[told[w]] # None

\* A returned summary outlives every later call about its session, in any order.
SummaryStays == [][\A s \in Sessions : summary[s] # None => summary'[s] # None]_vars

\* Control that is given back reaches the runtime that waits for it, whatever is done to
\* the session afterwards, unless another session of the same request is updated later.
ReturnReachesRuntime ==
  /\ \A s \in BrowserSessions : (told[s] = "waiting" /\ summary[s] # None) ~> told[s] # "waiting"
  /\ \A s \in TuaSessions :
       (told[RequestOf[s]] = "waiting" /\ summary[s] # None)
         ~> (told[RequestOf[s]] # "waiting" \/ Result(RequestOf[s]).summary # s)

\* A browser or voice hand-off is over when it is closed, one for guidance when it has had
\* a session and all of its sessions are closed.
Over(w) == IF w \in Requests
             THEN LET opened == {s \in SessionsOf(w) : state[s] # "absent"}
                  IN  opened # {} /\ \A s \in opened : state[s] = "closed"
             ELSE state[w] = "closed"

\* The waits return when a hand-off has come to its terminal state.
OverIsDone == \A w \in Handoff : Over(w) => Done(w)
=============================================================================
