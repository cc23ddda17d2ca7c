----------------------------- MODULE TuiSessions -----------------------------
(***************************************************************************)
(* Operator terminals: the handlers of /v1/tui of app.py, LocalPtyManager  *)
(* of tui.py and the table tui_sessions.                                   *)
(*                                                                         *)
(* All of it runs on the gateway's event loop, so a handler is cut only    *)
(* where it awaits something: the end of a process it terminates, the lock *)
(* or the start of a process it creates, the next output of a terminal it  *)
(* streams.  An action is what runs between two awaits.  The sole handler  *)
(* on a thread of its own is the one that issues attach tokens.            *)
(***************************************************************************)
EXTENDS Naturals, FiniteSets

CONSTANTS Sessions,     \* session identifiers
          Handlers,     \* tasks that serve calls and websockets
          Pollers,      \* tasks that serve GET /v1/tui/sessions
          MaxSessions,  \* tui_max_sessions
          MaxCalls,     \* bound: calls and websockets served
          MaxCrashes    \* bound: how often the gateway dies

ASSUME LimitAssumption == /\ IsFiniteSet(Sessions)
                          /\ MaxSessions \in Nat
                          /\ Handlers \cap Pollers = {}

VARIABLES row,          \* row[s]: column state of tui_sessions
          closedAt,     \* sessions whose column closed_at is set
          idle,         \* sessions whose last_activity_at is older than the timeout
          ticket,       \* sessions with an unexpired attach token
          mirror,       \* mirror[s]: the state of the operator session of s
          runtimes,     \* LocalPtyManager._sessions
          process,      \* process[s]: the life of the subprocess of s
          reader,       \* sessions whose _read_output task is not done
          task,         \* task[t]: where task t awaits, and for what
          calls, crashes

rows  == <<row, closedAt, idle, mirror>>
world == <<runtimes, process, reader>>
vars  == <<rows, world, ticket, task, calls, crashes>>

Tasks     == Handlers \cup Pollers
NoSession == "none"
OpenStates == {"requested", "active", "detached"}
States     == OpenStates \cup {"closed", "failed"}

Done == [pc |-> "idle", op |-> "none", session |-> NoSession, todo |-> {}]
At(pc, op, s, todo) == [pc |-> pc, op |-> op, session |-> s, todo |-> todo]

Init == /\ row      = [s \in Sessions |-> "absent"]
        /\ closedAt = {} /\ idle = {} /\ ticket = {}
        /\ mirror   = [s \in Sessions |-> "absent"]
        /\ runtimes = {} /\ reader = {}
        /\ process  = [s \in Sessions |-> "none"]
        /\ task     = [t \in Tasks |-> Done]
        /\ calls = 0 /\ crashes = 0

Open(s)    == row[s] \in OpenStates
Ended(s)   == row[s] \in {"closed", "failed"}
Running(s) == s \in runtimes /\ process[s] = "running"     \* is_running
On(s, pcs) == {t \in Tasks : task[t].session = s /\ task[t].pc \in pcs}

\* update_tui_session_state for each session of DOMAIN new: whatever the state was,
\* last_activity_at is now, and closed_at is set for good by closed and failed.
SetStates(new) ==
  /\ row' = [s \in Sessions |-> IF s \in DOMAIN new THEN new[s] ELSE row[s]]
  /\ closedAt' = closedAt \cup {s \in DOMAIN new : new[s] \in {"closed", "failed"}}
  /\ idle' = idle \ DOMAIN new

\* _update_operator_session_if_exists
Mirror(s, state) ==
  mirror' = [mirror EXCEPT ![s] = IF @ = "absent" THEN @ ELSE state]

Goto(t, where) == task' = [task EXCEPT ![t] = where]

Call(t) == /\ t \in Handlers /\ task[t] = Done
           /\ calls < MaxCalls /\ calls' = calls + 1

-----------------------------------------------------------------------------
(* cleanup_idle_sessions, and the handlers that begin with it.             *)

\* Bug: a session that never got its process is not cleaned up.
StaleButRequested == {s \in idle : row[s] \in {"active", "detached"}}

\* The rows that the cleanup finds idle, all read at its start.
Stale == {s \in idle : Open(s)}

\* Bug: a session that waits for its process is not counted.
AdmitBesideRequested(closing) == {s \in Sessions : row[s] = "absent" /\
    Cardinality({o \in Sessions \ closing : row[o] \in {"active", "detached"}}) < MaxSessions}

\* The sessions create_tui_session may insert, once the cleanup has closed those of
\* closing: count_open_tui_sessions is below the limit and the id is fresh.
Admit(closing) == {s \in Sessions : row[s] = "absent" /\
                   Cardinality({o \in Sessions \ closing : Open(o)}) < MaxSessions}

\* What follows the cleanup in the same step.  A creation may also be refused: by the
\* limit, the capability of the agent, the command or the directory.
AfterCleanup(t, op, closing) ==
  \/ /\ SetStates([s \in closing |-> "closed"])
     /\ Goto(t, Done)
  \/ /\ op = "create"
     /\ \E n \in Admit(closing) :
          /\ SetStates([s \in closing \cup {n} |-> IF s = n THEN "requested" ELSE "closed"])
          /\ Goto(t, At("lock", op, n, {}))

\* The loop goes on with the sessions of todo; closing has just been closed.  One
\* without a runtime is closed at once; the first with one makes the loop wait.
Cleanup(t, op, todo, closing) ==
  \/ \E s \in todo \cap runtimes, quick \in SUBSET (todo \ runtimes) :
       /\ SetStates([c \in closing \cup quick |-> "closed"])
       /\ runtimes' = runtimes \ {s}
       /\ Goto(t, At("terminate", op, s, todo \ (quick \cup {s})))
  \/ /\ todo \cap runtimes = {}
     /\ AfterCleanup(t, op, closing \cup todo)
     /\ UNCHANGED runtimes

BeginCreate(t) == /\ Call(t)
                  /\ Cleanup(t, "create", Stale, {})
                  /\ UNCHANGED <<mirror, process, reader, ticket, crashes>>

\* GET of the list or of one session.
BeginList(t) == /\ t \in Pollers /\ task[t] = Done
                /\ Cleanup(t, "list", Stale, {})
                /\ UNCHANGED <<mirror, process, reader, ticket, calls, crashes>>

\* close_all, when the application is shut down.
BeginShutdown(t) == /\ Call(t)
                    /\ \A u \in Tasks : task[u] = Done
                    /\ Cleanup(t, "shutdown", runtimes, {})
                    /\ UNCHANGED <<mirror, process, reader, ticket, crashes>>

-----------------------------------------------------------------------------
(* create_runtime and the rest of create_tui_session.                      *)

\* The lock is free: the pty is opened and the process forked.
StartProcess(t) ==
  /\ task[t].pc = "lock"
  /\ \A u \in Tasks : task[u].pc # "exec"
  /\ process' = [process EXCEPT ![task[t].session] = "running"]
  /\ Goto(t, [task[t] EXCEPT !.pc = "exec"])
  /\ UNCHANGED <<rows, runtimes, reader, ticket, calls, crashes>>

\* Bug: a session that was closed meanwhile stays closed, and its process runs.
ProcessStartedUnlessClosed(t) ==
  LET s == task[t].session IN
  /\ task[t].pc = "exec"
  /\ runtimes' = runtimes \cup {s}
  /\ reader' = reader \cup {s}
  /\ SetStates([c \in {s} \ closedAt |-> "active"])
  /\ mirror' = [mirror EXCEPT ![s] = "active"]
  /\ Goto(t, Done)
  /\ UNCHANGED <<process, ticket, calls, crashes>>

\* The runtime is registered and its reader started, the row made active whatever has
\* happened to it, audited, and mirrored as an operator session.
ProcessStarted(t) ==
  LET s == task[t].session IN
  /\ task[t].pc = "exec"
  /\ runtimes' = runtimes \cup {s}
  /\ reader' = reader \cup {s}
  /\ SetStates([c \in {s} |-> "active"])
  /\ mirror' = [mirror EXCEPT ![s] = "active"]
  /\ Goto(t, Done)
  /\ UNCHANGED <<process, ticket, calls, crashes>>

ProcessFailed(t) ==
  LET s == task[t].session IN
  /\ task[t].pc = "exec"
  /\ process' = [process EXCEPT ![s] = "exited"]
  /\ SetStates([c \in {s} |-> "failed"])
  /\ Goto(t, Done)
  /\ UNCHANGED <<mirror, runtimes, reader, ticket, calls, crashes>>

-----------------------------------------------------------------------------
(* The process, its reader, and the two ways to close a session.           *)

ProcessExit(s) == /\ process[s] = "running"
                  /\ s \in runtimes \/ On(s, {"terminate"}) # {}
                  /\ process' = [process EXCEPT ![s] = "exited"]
                  /\ UNCHANGED <<rows, runtimes, reader, ticket, task, calls, crashes>>

\* SIGTERM, and SIGKILL two seconds later.
Terminated(s) == ProcessExit(s) /\ On(s, {"terminate"}) # {}

\* Bug: the runtime is dropped when the output ends, before the process has.
ReaderEndsWithOutput(s) ==
  /\ s \in reader
  /\ reader' = reader \ {s}
  /\ runtimes' = runtimes \ {s}
  /\ SetStates([c \in {s} |-> IF Ended(s) THEN row[s] ELSE "closed"])
  /\ UNCHANGED <<mirror, process, ticket, task, calls, crashes>>

\* The last part of _read_output, behind the end of the process: neither the operator
\* session nor the audit log learns of it.
ReaderEnds(s) ==
  /\ s \in reader /\ process[s] # "running"
  /\ reader' = reader \ {s}
  /\ runtimes' = runtimes \ {s}
  /\ SetStates([c \in {s} \cap {o \in Sessions : ~Ended(o)} |-> "closed"])
  /\ UNCHANGED <<mirror, process, ticket, task, calls, crashes>>

\* LocalPtyManager.close and what its caller does in the same step: the close handlers
\* record the change (_record_tui_state_change), a cleanup goes on.
CloseBy(t, s) ==
  \/ /\ s \in runtimes
     /\ runtimes' = runtimes \ {s}
     /\ Goto(t, At("terminate", "close", s, {}))
     /\ UNCHANGED rows
  \/ /\ s \notin runtimes
     /\ SetStates([c \in {s} |-> "closed"])
     /\ Mirror(s, "closed")
     /\ Goto(t, Done)
     /\ UNCHANGED runtimes

\* POST .../close: a closed session is answered as it is.
BeginClose(t, s) == /\ Call(t)
                    /\ row[s] \notin {"absent", "closed"}
                    /\ CloseBy(t, s)
                    /\ UNCHANGED <<process, reader, ticket, crashes>>

\* The process has ended and the reader has finished or been cancelled.
FinishClose(t) ==
  LET s == task[t].session IN
  /\ task[t].pc = "terminate" /\ process[s] # "running"
  /\ reader' = reader \ {s}
  /\ \/ /\ task[t].op = "close"
        /\ SetStates([c \in {s} |-> "closed"])
        /\ Mirror(s, "closed")
        /\ Goto(t, Done)
        /\ UNCHANGED runtimes
     \/ /\ task[t].op # "close"
        /\ Cleanup(t, task[t].op, task[t].todo, {s})
        /\ UNCHANGED mirror
  /\ UNCHANGED <<process, ticket, calls, crashes>>

\* Bug: the state is not looked at.
DetachAnyState(t, s) == /\ Call(t)
                        /\ row[s] # "absent"
                        /\ SetStates([c \in {s} |-> "detached"])
                        /\ Mirror(s, "detached")
                        /\ UNCHANGED <<world, ticket, task, crashes>>

\* Bug: the terminal is recorded under a state the table does not know.
DetachAsIdle(t, s) == /\ Call(t)
                      /\ Open(s)
                      /\ SetStates([c \in {s} |-> "idle"])
                      /\ Mirror(s, "idle")
                      /\ UNCHANGED <<world, ticket, task, crashes>>

\* POST .../detach awaits nothing that suspends it; 409 for an ended session.
Detach(t, s) == /\ Call(t)
                /\ Open(s)
                /\ SetStates([c \in {s} |-> "detached"])
                /\ Mirror(s, "detached")
                /\ UNCHANGED <<world, ticket, task, crashes>>

-----------------------------------------------------------------------------
(* The websocket.                                                          *)

\* On a thread: the session was read as open, which it need not be any more.
IssueToken(s) == /\ row[s] # "absent" /\ s \notin ticket
                 /\ ticket' = ticket \cup {s}
                 /\ UNCHANGED <<rows, world, task, calls, crashes>>

ExpireToken(s) == /\ s \in ticket
                  /\ ticket' = ticket \ {s}
                  /\ UNCHANGED <<rows, world, task, calls, crashes>>

\* tui_stream: a token may be used again until it expires.
Attach(t, s) == /\ Call(t)
                /\ s \in ticket /\ Open(s) /\ Running(s)
                /\ SetStates([c \in {s} |-> "active"])
                /\ Goto(t, At("follow", "stream", s, {}))
                /\ UNCHANGED <<mirror, world, ticket, crashes>>

\* An input, paste or resize frame: write and touch_tui_session.
Frame(t) == /\ task[t].pc = "follow" /\ Running(task[t].session)
            /\ idle' = idle \ {task[t].session}
            /\ UNCHANGED <<row, closedAt, mirror, world, ticket, task, calls, crashes>>

\* The handler ends and leaves the row as it is: next_output raises 410 for a runtime
\* that is gone, a frame is not valid, or the app leaves before the first output.
StreamEnds(t) == /\ task[t].pc = "follow"
                 /\ Goto(t, Done)
                 /\ UNCHANGED <<rows, world, ticket, calls, crashes>>

\* WebSocketDisconnect: detach, whatever has become of the session.
Disconnect(t) == /\ task[t].pc = "follow"
                 /\ SetStates([c \in {task[t].session} |-> "detached"])
                 /\ Goto(t, Done)
                 /\ UNCHANGED <<mirror, world, ticket, calls, crashes>>

DetachFrame(t) == /\ task[t].pc = "follow"
                  /\ SetStates([c \in {task[t].session} |-> "detached"])
                  /\ Mirror(task[t].session, "detached")
                  /\ Goto(t, Done)
                  /\ UNCHANGED <<world, ticket, calls, crashes>>

CloseFrame(t) == /\ task[t].pc = "follow"
                 /\ CloseBy(t, task[t].session)
                 /\ UNCHANGED <<process, reader, ticket, calls, crashes>>

-----------------------------------------------------------------------------
\* last_activity_at falls behind the idle timeout.
GrowIdle(s) == /\ Open(s) /\ s \notin idle
               /\ idle' = idle \cup {s}
               /\ UNCHANGED <<row, closedAt, mirror, world, ticket, task, calls, crashes>>

\* The gateway dies and is started again: the rows stay, the runtimes do not, and a
\* child either ends with its terminal or survives without anybody who knows it.
Crash == /\ crashes < MaxCrashes /\ crashes' = crashes + 1
         /\ \E survivors \in SUBSET {s \in Sessions : process[s] = "running"} :
              process' = [s \in Sessions |->
                 IF process[s] # "running" THEN process[s]
                 ELSE IF s \in survivors THEN "orphaned" ELSE "exited"]
         /\ runtimes' = {} /\ reader' = {}
         /\ task' = [t \in Tasks |-> Done]
         /\ UNCHANGED <<rows, ticket, calls>>

Next == \/ \E t \in Tasks : \/ BeginCreate(t) \/ BeginList(t) \/ BeginShutdown(t)
                            \/ StartProcess(t) \/ ProcessStarted(t) \/ ProcessFailed(t)
                            \/ FinishClose(t)
                            \/ Frame(t) \/ StreamEnds(t) \/ Disconnect(t)
                            \/ DetachFrame(t) \/ CloseFrame(t)
        \/ \E t \in Tasks, s \in Sessions : BeginClose(t, s) \/ Detach(t, s) \/ Attach(t, s)
        \/ \E s \in Sessions : \/ ProcessExit(s) \/ ReaderEnds(s) \/ GrowIdle(s)
                               \/ IssueToken(s) \/ ExpireToken(s)
        \/ Crash

Spec == Init /\ [][Next]_vars

\* The loop runs what is ready, a killed process ends, time passes, and the app goes on
\* listing the sessions.
Fairness == /\ \A t \in Tasks : /\ WF_vars(StartProcess(t))
                                /\ WF_vars(ProcessStarted(t) \/ ProcessFailed(t))
                                /\ WF_vars(FinishClose(t))
            /\ \A t \in Pollers : WF_vars(BeginList(t))
            /\ \A s \in Sessions : /\ WF_vars(Terminated(s))
                                   /\ WF_vars(ReaderEnds(s))
                                   /\ WF_vars(GrowIdle(s))

FairSpec == Spec /\ Fairness

-----------------------------------------------------------------------------
TypeOK ==
  /\ row \in [Sessions -> States \cup {"absent"}]
  /\ closedAt \in SUBSET Sessions /\ idle \in SUBSET Sessions
  /\ ticket \in SUBSET Sessions
  /\ mirror \in [Sessions -> {"absent", "active", "detached", "closed"}]
  /\ runtimes \in SUBSET Sessions /\ reader \in SUBSET Sessions
  /\ process \in [Sessions -> {"none", "running", "exited", "orphaned"}]
  /\ task \in [Tasks -> [pc : {"idle", "lock", "exec", "terminate", "follow"},
                         op : {"none", "create", "list", "shutdown", "close", "stream"},
                         session : Sessions \cup {NoSession}, todo : SUBSET Sessions]]
  /\ calls \in Nat /\ crashes \in Nat

\* Creations never push the open terminals over tui_max_sessions, however many of them
\* wait for a process or for a cleanup at once: where there are more, some had been
\* closed and were opened again behind the limit's back.
OpenWithinLimit == Cardinality({s \in Sessions : Open(s) /\ s \notin closedAt}) <= MaxSessions

\* A running process is known to somebody who can end it: the manager, the creation
\* that is starting it or the task that is terminating it.
NoLostProcess == \A s \in Sessions : process[s] = "running" =>
                   s \in runtimes \/ On(s, {"exec", "terminate"}) # {}

\* A terminal that is listed as closed or failed takes no more input: the manager has
\* let go of it, whichever of its closers, its reader or its creation came last.
EndedHasNoRuntime == \A s \in Sessions : Ended(s) => s \notin runtimes

\* A closed terminal is opened again only by a websocket or a creation that was under
\* way when it was closed, and none joins them while it is closed.
ReopenedOnlyInFlight ==
  [][\A s \in Sessions : Ended(s) =>
       /\ On(s, {"lock", "exec", "follow"})' \subseteq On(s, {"lock", "exec", "follow"})
       /\ Open(s)' => On(s, {"exec", "follow"}) # {}]_vars

\* While the app lists the sessions, none whose process is gone, or never came, stays
\* open for ever, whatever died in between.
Dead(s) == Open(s) /\ process[s] # "running"
DeadAreClosed == \A s \in Sessions : Dead(s) ~> ~Dead(s)
=============================================================================
