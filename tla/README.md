# A TLA+ model of the Agentic Control Tower

The Agentic Control Tower lets an operator watch and steer software agents from a
phone. A **gateway** (Python, FastAPI, SQLite) sits beside the agent runtime; the
**runtime** asks it over HTTP for approvals, for help at a terminal, in a browser or by
voice, and polls for the answers; the **mobile app** (Flutter) pairs with it, signs its
requests with a device key, decides, and follows a websocket stream of events.

This directory holds TLA+ modules translated from that code, TLC configurations that
check them on small instances, and proofs, checked by TLAPS, of what holds for every
size. Paths below are relative to `src/`; `gw/` stands for
`gateway/src/hermes_gateway/`.

## 1. The system

### How the gateway runs, and why that is hard

`main.py` starts one uvicorn process. Endpoints written as plain `def` run on a pool of
threads; `async def` endpoints (terminal sessions, both websockets, request signing)
share one event loop. Every method of `SQLiteStore` (`gw/store.py`) opens a connection
of its own and commits before it returns. So **a store call is atomic, a handler is
not**: between any two store calls of one handler, other threads may do anything, and
the process may stop. There is no lock, no version column and no guard in the
`UPDATE`s. Most of what follows comes from this.

### Components

| Component | State | Operations | Talks to | What makes it correct |
| --- | --- | --- | --- | --- |
| Approval engine (`gw/app.py`, `gw/runtime_adapter.py`, `gw/store.py`) | `approval_requests`, `approval_responses`, `approval_policy_proposals` | request, decide, respond, expire, cancel, poll | audit log, event log; polled by runtime and app | one outcome per approval, by an approver, in time, audited; nothing pending for ever |
| Audit log (`append_audit_event`) | `audit_events` | append | called by every handler | append-only, hash-chained |
| Event log and stream (`create_event`, `event_stream`, `list_events`; `gateway_event_stream_client.dart`, `app_runtime.dart`) | `event_envelopes`; a connection's backlog; the app's cursor | publish, connect, replay, beat, reconnect, page | every handler publishes; the app follows | every event seen once, in order |
| Pairing (`start_pairing`, `complete_pairing`) | `pairing_sessions`, `devices`, `auth_tokens` | start, query, complete, expire | audit and event log | a code is used once, in time, for one device |
| Signed requests and revocation (`gw/signing.py`, `refresh_token`, `revoke_device`) | `devices.status`, `auth_tokens`, `request_nonces` | verify, refresh, revoke | in front of every app endpoint; audit log | a revoked device is refused; a request takes effect once |
| Runtime client (`gw/runtime_client.py`) | local deadline, retry count | request with retries, poll until done, cancel | the gateway's runtime endpoints | the verdict is that of its own approval; every call ends |
| Terminal sessions (`gw/tui.py`) | `tui_sessions`, `tui_attach_tokens`, running ptys | create, attach, detach, close, clean up | websocket, operator sessions | at most `tui_max_sessions`; no process without an owner; a closed one takes no input |
| Hand-offs: guidance (TUA), browser, voice | `assistance_*`, `browser_*`, `voice_*` | request, open, message, return, close | runtime polls the result | what is returned reaches the runtime that asked; no remark is lost |
| Operator sessions, agents, grants | `operator_sessions`, `agents`, `capability_grants` | mirror of the sessions; registration | every hand-off | the mirror follows what it mirrors |
| Notifications, interventions, missions, inventory | their tables | insert, list | audit and event log | each leaves its record |
| Mobile app | secure storage, caches | screens over single calls | REST, stream | shows what the gateway holds |
| Binding, configuration, schemas | none | pure checks | | |

### What is hard here

* *Interleaving.* Check-then-act over two transactions: the state of an approval, the
  status of a pairing, the newest audit hash, the status of a device.
* *Crash between two store calls.* Row, audit record and event are three transactions.
* *Stale reads.* The expiry scan works on a list; the stream's backlog is one query.
* *Ordering and loss.* Websocket messages in flight when the connection breaks; cursors
  that move past what was not sent.
* *Time.* Deadlines are judged before the write; nothing expires in the background.
* *Retries.* The runtime repeats a `POST` whose answer did not come; the app's signed
  requests may arrive twice.
* *Awaits.* On the event loop a handler is cut wherever it waits for the end of a
  process, the body of a request or the next output of a terminal.
* *Read-modify-write.* Notes of a browser session and the row of an agent are read in
  one transaction and written back in another.

`PROJECT.json` lists the hazards one by one, each at its line, with the properties that
would notice it.

## 2. The modules

| Module | Models | State and actions |
| --- | --- | --- |
| `Clearance` | what an approval (or a pairing) promises, handlers left out | `outcome`, and `deciding`: the threads that have read it as pending and may still write it |
| `Approvals` | the approval engine | tables `approvals`, `waiting`, `proposals`, `responses`, `audit`, `events`; per worker `pc` and `job` (its locals); one action per store call or reading of the clock |
| `ApprovalsInductive` | the invariant behind the proofs | what each `pc` says about `job` and the tables |
| `AuditChain` | `append_audit_event` | `log`; per writer the hash it has read |
| `EventStream` | event log, stream, app cursor, REST pages | `log`; per app the stage of its connection, backlog, messages in flight, cursor, what it handled |
| `Pairing` | pairing sessions | tables `pairings`, `owner`, `tokens`, `audit`, `events`; per worker `pc` and `job` |
| `SignedRequests` | verification, refresh, revocation, websocket access; extends `AuditChain` | `status`, `tokens`, `nonces`; per worker `stage` and the request it serves |
| `RuntimeClient` | `approval()` of the runtime over a lossy connection; extends `Clearance` | per call `pc`, `attempt`, the deadline that is `left`, what it has `seen`; `flights` and `replies` on the way |
| `TuiSessions` | terminals on the event loop | `row`, `runtimes`, `process`, `reader`; per task where it awaits and for what |
| `Handoffs` | guidance, browser and voice hand-offs | `request`, `state`, `summary`, `remarks`, `mirror`, `capabilities`, and `newest`, the session that comes first in the list of its request; per thread which store call of its plan comes next |
| `ApprovalsProofs`, `AuditChainProofs`, `EventStreamProofs`, `PairingProofs`, `SignedRequestsProofs`, `RuntimeClientProofs`, `TuiSessionsProofs`, `HandoffsProofs` | theorems; those of `Clearance` open `RuntimeClientProofs` | |
| `MC…` | instances for TLC: values of the bounds, symmetry | |

How they compose:

* `Approvals` and `Pairing` both `INSTANCE Clearance` and are checked to implement it:
  the same three-step window (read pending, decide, write) is in both.
* `RuntimeClient` extends `Clearance`: the gateway that the client talks to is the one
  `Approvals` implements, so that the client is checked against the promise and not
  against every store call. Its actions `Arrive`, `Read`, `LetGo` and `Decide` are those
  of `Clearance` with what the client can see added.
* `SignedRequests` extends `AuditChain`: every append is that of a worker that records a
  refusal or an effect, and `NoForkByOneWriter` is checked in the composition.
* `Handoffs` leaves the two logs to `AuditChain` and `EventStream` (its `Record` steps
  only take their turn) and the retries and the timeout of the wait to `RuntimeClient`.

### How handlers become actions

A *worker* is a thread of the pool. `pc[w]` is the store call it makes next, `job[w]`
its local variables. `_transition_approval`, for example, is `Read` (the `SELECT` and
the 409), `Judge` (the comparison of `expires_at` with the clock), `Write` (the
`UPDATE`), `Audit`, `Publish`. A runtime request goes `CreateApproval`, `Park`
(the agent becomes `waiting_approval`), `Announce`, `Audit`, `Publish`; a structured
response goes `Propose`, `RecordResponse`, then the transition, then `AuditResponse`,
`PublishResponse`; a poll goes `List`, `Scan` row by row, with `Write`, `Audit`,
`Publish` for every overdue row, and `Answer`. A cancellation of the runtime ends as a
poll, because `cancel_approval` returns `approval_result`. Early returns are the
`Return` branches. `job[w].seen` holds the approvals that this thread's locals show as
pending: it is the local dictionary or the rest of the scanned list.

In `SignedRequests` the check of a signature is cut where the code awaits the body
(`Check`, then `Nonce`), and the loop runs one such step at a time (`LoopFree`), while
the handlers behind it run on threads. In `TuiSessions` an action is what runs between
two awaits: `Cleanup` is the loop of `cleanup_idle_sessions`, which closes at once what
has no runtime and waits for the end of each process it terminates, with what comes
behind it (`AfterCleanup`: the limit, the insert) in the same step as its last part. In
`Handoffs` each endpoint is an action that takes on its `Plan`, the store calls of the
handler in the order of the code, and each store call is an action of its own.

`Crash` empties every `pc` and `job` and keeps the tables; in `TuiSessions` the
processes end with the gateway or survive it unknown. `Tick` moves the clock.

The audit log and the event log are *sets* of records in `Approvals` and `Pairing`,
because what matters there is whether a record exists; their order has a module each,
`AuditChain` and `EventStream`.

### What is abstracted

* Identifiers are model values. `new_id` is random, so an identifier is fresh.
* A call that is refused before it has changed or recorded anything (an unknown
  identifier, a wrong confirmation phrase) is no step of the model.
* `Approvals` answers a cancellation with one poll; `cancel_clearance` polls a second
  time, which is a poll of the same thread like any other. `RuntimeClient` reads the row
  and the responses in two steps, as `approval_result` does; `Approvals`, which keeps
  the state only of an answer, in one.
* `Handoffs` reads a hand-off's result in one step, where `tua_result` reads the request
  first: the request never reaches an end state, so the sessions alone decide. The
  session of a request that was updated last is the one that committed last, where the
  code compares stamps taken just before the transactions; `ReturnReachesRuntime` leaves
  out a session that is hidden by another either way.
* `approvers` stands for the outcome of `require_device_capability`: the `approve`
  permission or an active grant. It does not change during a run.
* In `AuditChain` a row's hash is its sequence number: the hashed content holds a fresh
  `audit_event_id`, so distinct rows have distinct hashes. Hashing itself is not modelled.
* A cursor is its sequence number: `_cursor_sequence` reads nothing else of it.
* Payload texts, summaries, risk levels, options and the redaction rules are left out.
* Signature checking in front of the endpoints is in `SignedRequests` only; there, one
  ordinary handler (`Act`, mapped to the closing of a guidance session) stands for the endpoints the other modules model. That a
  signature is valid, and a timestamp in its window, is a choice of the model.
* What is typed into a terminal, shown by it, said or written is left out; a summary is
  known by the session it was returned for, remarks are counted.
* Of an agent's row `Handoffs` keeps the capabilities, which decide what the runtime may
  do; grants do not change during a run. The session and the mission that
  `register_context` also upserts are left out.
* Time in `RuntimeClient` is what is left of each lifetime and wait. The clocks of
  gateway and client run alike, and the answer to the `POST` takes none of the lifetime
  or all of it.

Definitions introduced by a comment `Bug:` are plausible mistakes in the code. No
specification uses them; each shows that a property would notice it when it is put in
the place of the definition it precedes.

## 3. The runs

| Run | Checks | Shows |
| --- | --- | --- |
| `Approvals_race` | `TypeOK`, `RowIsOneDecision`, `AuditedOrInFlight`, `LateDecisionNeverCounts`, `OverdueIsNeverAnsweredPending`, `ImplementsClearance` | two threads, calls and polls about two approvals |
| `Approvals_restart` | `PublishedIsAudited`, `AuditedResponseWasDecided`, `OverdueIsSettled` | structured responses race with decisions, with a restart; while somebody polls, nothing overdue stays pending |
| `Approvals_overwrite` | `TerminalIsFinal` **violated** | a terminal approval is overwritten |
| `AuditChain_fork` | `IsChain` **violated** | two writers fork the chain |
| `EventStream_follow` | `TypeOK`, `OneAscendingRun`, `OnlyBeatsJump`, `PagesMissNothing` | an app loses and resumes the stream; a reader pages with odd limits |
| `EventStream_skip` | `StreamMissesNothing` **violated** | an event the app never gets |
| `Pairing_race` | `TypeOK`, `CompletedHasDevice`, `AnsweredIsAudited`, `OneDevicePerThread`, `LateAnswerGetsNoDevice`, `ImplementsClearance` | two threads, one pairing, a restart |
| `SignedRequests` | `OncePerNonce`, `RevocationDrains`, `LateTokensAreFew`, `SignedTypeOK`; `NoForkByOneWriter` of `AuditChain` | deliveries and duplicates race with refresh and revocation, with a restart |
| `RuntimeClient` | `FewDuplicates`, `VerdictStands`, `GivenUpIsOver`, `CallsEnd`, `ClientTypeOK` | retries, late arrivals, deciders, the deadline, and waits as long as the lifetime or shorter |
| `TuiSessions` | `TypeOK`, `OpenWithinLimit`, `NoLostProcess`, `EndedHasNoRuntime`, `ReopenedOnlyInFlight`, `DeadAreClosed` | two terminals, a limit of one, a death of the gateway |
| `Handoffs` | `TypeOK`, `Consistent`, `ToldItsOwn`, `SummaryStays`, `ReturnReachesRuntime` | two threads, four calls about all three kinds, a restart, the polls of the runtime |
| `Handoffs_closed` | `OverIsDone` **violated** | a closed guidance session leaves the runtime waiting |

The four violations are disagreements between what the documentation promises and what
the code does; `PROJECT.json` quotes the sentence and the line of each. Two of them are
the work of interleaving alone, and the project says so in both directions. With one
thread the documented rule is proved for approvals (`ApprovalsSerialTerminalIsFinal`)
and for the audit log (`AuditSerialIsChain`). With several, `ImplementsClearance` says
exactly what is left of it: overwrites are confined to threads that had read the row as
pending before it was settled, each of them overwrites at most once, and when they are
gone the outcome is final; `NoForkByOneWriter` does the same for the log.

What the properties of the newer runs say about the code, exceptions included:

* A revoked device keeps what was under way behind the check of its status. This may
  end in an effect, a websocket or a pair of tokens that is never revoked
  (`RevocationDrains`, `LateTokensAreFew` bound it: one pair per other thread, and a
  late pair cannot be refreshed).
* Each attempt of a `POST` may create an approval, because the body carries no
  identifier: up to `retry_attempts` for one action (`FewDuplicates`), of which the
  runtime follows the one whose answer it got (`VerdictStands`).
* A runtime that leaves the length of its wait to `approval()`, or asks for the lifetime
  of the approval or more, gives up when the approval has expired: what is approved
  behind its back had arrived before (`GivenUpIsOver`). One that waits for less, as
  `examples/demo_runtime_agent.py` and `tests/test_runtime_client.py` do, and the 300
  seconds of `wait_for_approval` when the lifetime is longer, promises nothing of the
  kind: a decision may arrive in time and not be seen. Such a runtime can wait again or
  cancel, and the model has both.
* Closed terminals are opened again: by a websocket that breaks later, and by a creation
  whose process starts after a cleanup or a shutdown has closed its row
  (`ReopenedOnlyInFlight` says that nothing else does it). Such a terminal is not counted
  by the limit, which is why `OpenWithinLimit` speaks of those that were never closed.
* A websocket whose loop ends without a disconnect (the process is gone, a frame is not
  valid, the app leaves before the first output) leaves its row active (`StreamEnds`).
* Two calls about one session that overlap, or a restart inside one, may leave the
  operator-session list behind the session for good, lose a note, or undo what an agent
  has just registered. `Consistent` (`MirrorAgrees`, `RemarksAreKept`,
  `AgentIsAsRegistered`) says that nothing else does; among those that write the agent's
  row back are the requests for guidance, for a browser and for an approval.
* Of several sessions of one guidance request the runtime sees the summary of the one
  updated last; a later session without one hides it (`ReturnReachesRuntime`).

Further disagreements that the models contain and no run is spent on:

* A restart between a decision and its audit record leaves an approval that the runtime
  is told of and the log does not hold (`docs/adr/0006-approval-engine-fails-closed.md`:
  "unauditable approvals are rejected"). `AuditedOrInFlight` is what holds without restarts.
* Two requests that complete one pairing at once register a device each
  (`docs/security/auth-authorization.md`: "Pairing code is single use");
  `OneDevicePerThread` is what holds.
* `_latest_response` of the client takes the last response of a list that the gateway
  orders newest first; `HermesRuntimeAdapter.check_clearance` takes the first.
* A note on a closed browser session, or a return of one, takes it out of `closed`.

### Bounds

| Bound | Value | Why it is enough |
| --- | --- | --- |
| `Workers`, `Handlers` | 2 | every race here is between a reader and one writer; the proofs cover any number |
| `Approvals` | 2 where scans matter, else 1 | approvals share nothing but the logs and the scan's list |
| `MaxCalls` | 3 or 4 (polls are not counted) | a request and the calls that race about it |
| `Devices`, `Approvers` | 2, one of them an approver | one that decides and one that is refused |
| `Decisions`, `ResponseTypes` | one of each kind the run is about | the code treats scopes alike |
| `Deadlines`, `MaxTime` | {1}, 1 | before and after the deadline; requests with a deadline already past arise when they come at time 1 |
| `ExpiresIn`, `Timeouts` of `RuntimeClient` | 2, {0, 1} | the lifetime (0 leaves it to `approval()`), half of it, and a second wait that asks for no time at all; longer waits are in the proofs |
| `MaxCrashes` | 0 or 1 | a restart clears all threads; a second one only repeats it |
| `Writers`, `MaxRows`, `MaxDeliveries`, `Requests` | 3 each | a revocation, a refresh and a request on three threads; or a request delivered three times |
| `Clearances`, `Deciders`, `RetryAttempts` | 3, 2, 2 | an approval more than a call can create, and a decision with its overwriter |
| `MaxWaits`, `MaxResponses` | 2, 1 | a wait that a response ends, and the next |
| `Sessions`, `MaxSessions`, `Pollers` | 2, 1, 1 | the limit is reached by one terminal and exceeded by two |
| hand-offs | a guidance request with two sessions, one browser and one voice session | the later of two sessions hides the earlier one; kinds share no table but the mirrors and the agent. That the result of one request is never taken for another's is proved for any number of them (`HandoffsToldItsOwn`) |
| `Granted`, `CapabilityLists` | guidance granted, browser registered, voice never | each way past `require_runtime_capability`, and the refusal |
| `Backlog` | 2 or 3 for the 500 of the code | a backlog that is cut and one that is not |
| `MaxEvents`, `MaxLosses` | 4 to 6, 0 to 2 | lost, resumed and lost again |

Symmetry is used for workers, approvals, requests, writers and device identifiers in the
runs that check invariants, action properties and refinement; they are interchangeable
and no property names one. Runs with a liveness property use none. Deadlock checking is
off where the model stops when its bound is reached: `AuditChain_fork`, the two
`EventStream` runs, `SignedRequests`, `RuntimeClient` and the two `Handoffs` runs.

### Fairness

* `Approvals_restart`. `WF(Continue(w))`: a thread of the pool that has begun a handler
  runs on; no handler waits for another. `WF(Tick)`: time passes. `SF` of a poll of each
  approval: the runtime polls at an interval for as long as it waits (`_wait` of
  `gw/runtime_client.py`), a poll needs a free thread, and threads become free again and
  again without staying free; strong fairness says that the pool does not starve the
  poll for ever. Operators need not decide, and new calls need not arrive. The assumption
  is real. If the runtime gives up and no app polls, nothing in the gateway expires the
  approval.
* `RuntimeClient`. `WF` of the clock and of the client's own steps: an attempt that is
  not answered fails by its timeout, a poll is answered or fails. Of the gateway,
  the operators and the network nothing is asked.
* `TuiSessions`. `WF` of what the loop has ready (a creation goes on, a terminated
  process ends by `SIGKILL`, a reader finishes), of the growth of idle time, and of the
  listing by the app, whose screen refreshes it. Without a listing or a creation nothing
  cleans up, and a dead terminal stays open.
* `Handoffs`. `WF` of the runtime's polls; handlers may be cut short for ever.

## 4. The proofs

All theorems hold for every number of threads, approvals, devices, deadlines and
restarts, under the named assumptions in the modules (bounds are naturals, approvers are
devices, decisions are those the endpoints can make, identifiers of different kinds
differ, and the pools of workers behind `LateTokensAreFew` and `OneDevicePerThread` and
the terminals behind `OpenWithinLimit` are finite).

* **`RuntimeClientProofs`, first part**: `Inv` of `Clearance` is inductive; a settled approval's deciders drain
  (`ClearanceDrains`), and an outcome without deciders is final (`ClearanceFinal`).
* **`ApprovalsProofs`**: the properties of section 3 are not inductive: that
  a published outcome is audited depends on what a thread at `Publish` has done
  before, that a late decision does not count on what a thread at `Write` carries.
  `ApprovalsInductive` therefore says, per thread, what its step implies about its
  locals: the call it serves (`HasTarget`, `OpFollowsPc`), what it has seen pending
  (`SeenFollowsPc`), that the decision it carries is whole (`DecisionIsSound`), in time
  (`IsTimely`), the one that the response names (`ResponseDecides`), already audited
  when it is about to be published (`HasAudited`), and that the scan still covers the
  approval the poll is about (`CoversTarget`). `TypeOK /\ Inductive` is inductive: one
  lemma per action or group of actions, then a case split over `Next`. From it follow
  the invariants by name, the action properties
  `LateDecisionNeverCounts` and `OverdueIsNeverAnsweredPending`, and the refinement
  `ApprovalsImplementClearance`: each action maps to `Request`, `Admit`, `Withdraw`,
  `Settle` or a stutter.
* With a single worker, `ApprovalsSerialTerminalIsFinal` proves the documented rule
  itself: the one thread's `seen` is always pending.
* **`AuditChainProofs`**: `Snapshot` (what a writer has read is not newer than the
  log, and none of its own rows is newer than that) makes `PointsBack` and
  `NoForkByOneWriter` inductive; `Undisturbed` does so for `IsChain` with one writer.
* **`EventStreamProofs`**: `ConnOK` follows the whole run of an app, handled, in flight
  and still to be sent: it *fits* the log (ascending, and where it steps over events it
  lands on a heartbeat), the app's cursor is the last event handled, and the backlog is
  only there while it is replayed. `FitsBacklog`, `FitsBeat`, `FitsPrefix` and
  `FitsLonger` say what a replay, a heartbeat, a lost connection and a published event
  do to a run that fits; the step lemmas apply them. `PagerOK` does the same for pages.
* **`PairingProofs`**: the same kind of invariant as for approvals. What a thread
  past its `SELECT` holds pending (`SeenFollowsPc`), that a thread past the deadline
  check came in time (`IsTimely`), and which device and tokens it has made so far
  (`HasDevice`) give `CompletedHasDevice`, `AnsweredIsAudited`,
  `LateAnswerGetsNoDevice` and the refinement `PairingImplementsClearance`.
  `OneDevicePerThread` is not inductive: it forgets who may still register one. `Counted`
  says that while a pairing is pending, each thread has made one device since the last
  restart at most (`Makers`, those that have made one and not completed yet), and that
  once it is over the devices and the threads that may still add one (`Able`) stay
  within the bound together. The step that completes or expires the pairing turns the
  first count into the second, because `Makers` and `Able` are disjoint.
* **`SignedRequestsProofs`**: each action is a step of `AuditChain` or leaves its
  variables alone (`SignedImplementsAuditChain`), so `NoForkByOneWriter` carries over.
  The invariant says that a worker past the nonce serves a request that has been signed
  (`Assigned`), that a stored nonce has let one worker through at most (`OneHandles`),
  which is `OncePerNonce` once the worker is done, and that keys belong to one device
  (`KeysFit`). `RevocationDrains` is proved per action: a worker joins those in flight
  only by a step that reads the status as active. For `LateTokensAreFew` the invariant
  `FewAreLate` counts the requests that have put, or are about to put, a live token of a
  revoked device into the table: the revocation leaves those of the other workers, and
  nothing is added later.
* **`RuntimeClientProofs`, second part**: the same for `Clearance` (`ClientImplementsClearance`). That
  each approval goes back to an attempt of its call (`CreatedByAttempt`,
  `AttemptsAreSpent`) gives `FewDuplicates`; that a wait follows an approval of its own
  call and has seen no outcome but the one that stands (`FollowsItsOwn`,
  `SawItsOutcome`) gives `VerdictStands`. For `GivenUpIsOver` the invariant bounds what
  is left of the lifetime by what is left of a patient wait, whose clock started later.

* **`TuiSessionsProofs`**: the four invariants are proved with `TasksOK`, what each task
  between two awaits implies: what it works on has a row (`Serves`), a session it starts
  or terminates is with no other task and not with the manager (`HoldsAlone`), and no
  two tasks create the same one (`OneCreates`); and with `RowsOK`, that a session without
  a row has neither runtime nor reader, and that an ended one was given `closed_at`. `RowStep`, `TaskStep` and `KnownStep` say what any
  step that sets states, moves one task or passes a process on does to them, so that an
  action's lemma only shows what it writes. `OpenWithinLimit` counts the open terminals
  that were never closed (`Counted`), which only the step that admits a new one enlarges.
  `ReopenedOnlyInFlight` follows per action (`ReopenSafe`).
* **`HandoffsProofs`**: handlers are pieces of program, the plans. `PlansFit` proves of
  all of them which calls they have and in which order; `Coming` and `InOrder` turn that
  into what is still due before and after the call that comes now. The invariant says
  what is half done: the mirror is behind its row by the calls still due
  (`MirrorFollows`), the notes and the capabilities that were read are the stored ones
  (`NotesFollow`, `ListFollows`), as long as nobody else has worked on the same thing,
  which `crossed` has then noticed (`Noticed`). When nothing is due any more
  `MirrorFollows` is agreement, which gives `Consistent`. That a summary is its
  session's and that a request lists sessions of its own (`OwnOK`) gives `ToldItsOwn`;
  `SummaryStays` follows per step. `CallStep` carries all of it over a call that leaves
  the sessions of others alone. With one thread and no restart nothing ever crosses, and
  `HandoffsSerialAgree` drops the exception.

Only model-checked: the liveness properties (`OverdueIsSettled`, `CallsEnd`,
`DeadAreClosed`, `ReturnReachesRuntime`), which are beyond the prover. Every safety
property that a run checks is also a theorem; the four that fail (section 3) are
refuted by their runs.

## 5. Plan

1. Done: `Clearance`, `Approvals`, `AuditChain`, `EventStream`, `Pairing`,
   `SignedRequests`, `RuntimeClient`, `TuiSessions`, `Handoffs`, with proofs.
2. Left to prove: the safety half of the liveness properties, that what is ready to be
   answered stays ready until it is (a settled approval, a returned browser session),
   which leaves only the fairness argument to TLC.

## 6. Not modelled

Notifications and interventions are single inserts with an audit record and an event
(the shape `Act` has in `SignedRequests`); missions and inventory are upserts and
lists, the status and tools of an agent are for display. Local binding, configuration and schemas are
pure checks. The mobile screens and repositories forward one call each. Which file
descriptor the kernel gives out again after a pty is closed twice is outside the models.
Smoke scripts, examples and the spec-kit tooling drive the gateway and are not part of
it. Cryptography is taken to work.

## 7. Running

    tlc -config Approvals_race.cfg MCApprovals.tla
    tlapm ApprovalsProofs.tla
