-------------------------- MODULE TuiSessionsProofs --------------------------
(***************************************************************************)
(* Theorems about TuiSessions, for any number of terminals, tasks, calls   *)
(* and restarts, and any limit.                                            *)
(***************************************************************************)
EXTENDS TuiSessions, FiniteSetTheorems, TLAPS

Creating == {"lock", "exec"}
Owning   == Creating \cup {"terminate"}

\* A busy task works on sessions that have a row.
Serves(t) ==
  /\ task[t].pc # "idle" => task[t].session \in Sessions /\ row[task[t].session] # "absent"
  /\ \A s \in task[t].todo : row[s] # "absent"

\* Who creates or terminates a process has it outside the manager.
HoldsAlone(t) == task[t].pc \in Owning => task[t].session \notin runtimes

\* A session is created by one task, and terminated by nobody until that is over.
OneCreates(t, u) ==
  t # u /\ task[t].pc \in Creating /\ task[u].pc \in Owning =>
    task[t].session # task[u].session

TasksOK == /\ \A t \in Tasks : Serves(t) /\ HoldsAlone(t)
           /\ \A t, u \in Tasks : OneCreates(t, u)

\* A session without a row has neither runtime nor reader, and one that has ended was given closed_at.
RowsOK == \A s \in Sessions : /\ row[s] = "absent" => s \notin runtimes \cup reader
                              /\ Ended(s) => s \in closedAt

Inv == /\ TypeOK /\ TasksOK /\ RowsOK
       /\ NoLostProcess /\ EndedHasNoRuntime /\ OpenWithinLimit

-----------------------------------------------------------------------------
(* What a step does to the rows, to the tasks and to the processes.        *)

TaskRecord == [pc : {"idle", "lock", "exec", "terminate", "follow"},
               op : {"none", "create", "list", "shutdown", "close", "stream"},
               session : Sessions \cup {NoSession}, todo : SUBSET Sessions]
RowType    == [Sessions -> States \cup {"absent"}]

LEMMA GotoStep ==
  ASSUME TypeOK, NEW t \in Tasks, NEW where \in TaskRecord, Goto(t, where)
  PROVE  /\ task' \in [Tasks -> TaskRecord] /\ task'[t] = where
         /\ \A u \in Tasks \ {t} : task'[u] = task[u]
BY DEF TypeOK, Goto, TaskRecord

LEMMA AtTyped ==
  ASSUME NEW pc \in {"idle", "lock", "exec", "terminate", "follow"},
         NEW op \in {"none", "create", "list", "shutdown", "close", "stream"},
         NEW s \in Sessions, NEW todo \in SUBSET Sessions
  PROVE  /\ At(pc, op, s, todo) \in TaskRecord /\ Done \in TaskRecord
         /\ At(pc, op, s, todo).pc = pc /\ At(pc, op, s, todo).session = s
         /\ At(pc, op, s, todo).op = op /\ At(pc, op, s, todo).todo = todo
         /\ Done.pc = "idle" /\ Done.todo = {}
BY DEF At, Done, TaskRecord

LEMMA DoneTyped == Done \in TaskRecord /\ Done.pc = "idle" /\ Done.todo = {}
BY DEF Done, TaskRecord

LEMMA SetStatesStep ==
  ASSUME TypeOK, NEW new, DOMAIN new \subseteq Sessions,
         \A s \in DOMAIN new : new[s] \in States, SetStates(new)
  PROVE  /\ row' \in RowType /\ closedAt' \in SUBSET Sessions /\ idle' \in SUBSET Sessions
         /\ \A s \in Sessions : row'[s] = IF s \in DOMAIN new THEN new[s] ELSE row[s]
         /\ closedAt' = closedAt \cup {s \in DOMAIN new : new[s] \in {"closed", "failed"}}
BY DEF TypeOK, SetStates, RowType

\* The open terminals that have never been closed.
Counted == {s \in Sessions : Open(s) /\ s \notin closedAt}

LEMMA LimitKept ==
  ASSUME OpenWithinLimit, Counted' \subseteq Counted
  PROVE  OpenWithinLimit'
<1>1. IsFiniteSet(Sessions) /\ MaxSessions \in Nat BY LimitAssumption
<1>2. IsFiniteSet(Counted) /\ Cardinality(Counted) \in Nat
      BY <1>1, FS_Subset, FS_CardinalityType DEF Counted
<1>3. IsFiniteSet(Counted') /\ Cardinality(Counted') \in Nat
         /\ Cardinality(Counted') <= Cardinality(Counted)
      BY <1>2, FS_Subset, FS_CardinalityType
<1> QED BY <1>1, <1>2, <1>3 DEF OpenWithinLimit, Counted

\* Whatever states a step gives to sessions that have a row, the limit holds and the
\* rows stay in order, as long as those it ends have no runtime behind it.
LEMMA RowStep ==
  ASSUME Inv, NEW new, SetStates(new), DOMAIN new \subseteq Sessions,
         \A s \in DOMAIN new : new[s] \in States /\ row[s] # "absent",
         runtimes' \subseteq Sessions,
         \A s \in runtimes' : s \in runtimes \/ s \in DOMAIN new,
         \A s \in reader' : s \in reader \/ s \in DOMAIN new,
         \A s \in DOMAIN new : new[s] \in {"closed", "failed"} => s \notin runtimes'
  PROVE  /\ RowsOK' /\ EndedHasNoRuntime' /\ OpenWithinLimit'
         /\ \A s \in Sessions : row[s] # "absent" => row'[s] # "absent"
<1>1. /\ \A s \in Sessions : row'[s] = IF s \in DOMAIN new THEN new[s] ELSE row[s]
      /\ closedAt' = closedAt \cup {s \in DOMAIN new : new[s] \in {"closed", "failed"}}
      BY SetStatesStep DEF Inv
<1>2. "absent" \notin States BY DEF States, OpenStates
<1>3. \A s \in Sessions : row[s] # "absent" => row'[s] # "absent" BY <1>1, <1>2
<1>4. RowsOK'
      BY <1>1, <1>2, <1>3 DEF Inv, RowsOK, Ended
<1>5. EndedHasNoRuntime'
      BY <1>1 DEF Inv, EndedHasNoRuntime, Ended
<1>6. Counted' \subseteq Counted
  <2> SUFFICES ASSUME NEW s \in Sessions, row'[s] \in OpenStates, s \notin closedAt'
               PROVE  row[s] \in OpenStates /\ s \notin closedAt
      BY DEF Counted, Open
  <2>1. s \notin closedAt /\ ~Ended(s) BY <1>1 DEF Inv, RowsOK
  <2>2. row[s] # "absent" BY <1>1 DEF OpenStates
  <2>3. row[s] \in States \cup {"absent"} BY DEF Inv, TypeOK
  <2> QED BY <2>1, <2>2, <2>3 DEF States, Ended
<1> QED BY <1>3, <1>4, <1>5, <1>6, LimitKept DEF Inv

\* Nothing happens to the states: the runtimes may only become fewer.
LEMMA RowsStay ==
  ASSUME Inv, UNCHANGED <<row, closedAt>>, runtimes' \subseteq runtimes,
         reader' \subseteq reader
  PROVE  RowsOK' /\ EndedHasNoRuntime' /\ OpenWithinLimit'
<1>1. RowsOK' /\ EndedHasNoRuntime' BY DEF Inv, RowsOK, EndedHasNoRuntime, Ended
<1>2. Counted' \subseteq Counted BY DEF Counted, Open
<1> QED BY <1>1, <1>2, LimitKept DEF Inv

\* A task begins to create only a session without a row, and to terminate only a
\* process of the manager; only a creation hands it a process.
LEMMA TaskStep ==
  ASSUME Inv, TypeOK', NEW t \in Tasks, \A u \in Tasks \ {t} : task'[u] = task[u],
         \A s \in Sessions : row[s] # "absent" => row'[s] # "absent",
         \A s \in runtimes' : \/ s \in runtimes
                              \/ task[t].pc = "exec" /\ task[t].session = s
                                   /\ task'[t].pc = "idle",
         Serves(t)', HoldsAlone(t)',
         task'[t].pc \in Creating =>
           \/ task[t].pc \in Creating /\ task'[t].session = task[t].session
           \/ row[task'[t].session] = "absent",
         task'[t].pc = "terminate" => task'[t].session \in runtimes
  PROVE  TasksOK'
<1>1. ASSUME NEW u \in Tasks \ {t} PROVE Serves(u)' /\ HoldsAlone(u)'
  <2>1. task'[u] = task[u] /\ Serves(u) /\ HoldsAlone(u) /\ OneCreates(t, u)
        BY DEF Inv, TasksOK
  <2>2. task[u].todo \subseteq Sessions BY DEF Inv, TypeOK
  <2> QED BY <2>1, <2>2 DEF Serves, HoldsAlone, OneCreates, Creating, Owning
<1>2. ASSUME NEW u \in Tasks \ {t} PROVE OneCreates(t, u)' /\ OneCreates(u, t)'
  <2>1. /\ task'[u] = task[u] /\ Serves(u) /\ HoldsAlone(u)
        /\ OneCreates(t, u) /\ OneCreates(u, t)
        BY DEF Inv, TasksOK
  <2> QED BY <2>1 DEF Serves, HoldsAlone, OneCreates, Creating, Owning
<1>3. ASSUME NEW u \in Tasks, NEW v \in Tasks, u # t, v # t PROVE OneCreates(u, v)'
      BY <1>3 DEF Inv, TasksOK, OneCreates
<1>4. OneCreates(t, t)' BY DEF OneCreates
<1> QED BY <1>1, <1>2, <1>3, <1>4 DEF TasksOK

\* A process stays known if the task that has it keeps it, hands it over or sees its end.
LEMMA KnownStep ==
  ASSUME Inv, NEW t \in Tasks, \A u \in Tasks \ {t} : task'[u] = task[u],
         \A s \in Sessions : process'[s] = "running" =>
           \/ process[s] = "running"
           \/ task'[t].pc \in {"exec", "terminate"} /\ task'[t].session = s,
         \A s \in runtimes \ runtimes' :
           \/ process'[s] # "running"
           \/ task'[t].pc = "terminate" /\ task'[t].session = s,
         task[t].pc \in {"exec", "terminate"} =>
           \/ process'[task[t].session] # "running"
           \/ task[t].session \in runtimes'
           \/ task'[t].pc \in {"exec", "terminate"} /\ task'[t].session = task[t].session
  PROVE  NoLostProcess'
<1> SUFFICES ASSUME NEW s \in Sessions, process'[s] = "running", s \notin runtimes'
             PROVE  \E u \in Tasks : task'[u].session = s /\ task'[u].pc \in {"exec", "terminate"}
    BY DEF NoLostProcess, On
<1>1. CASE task'[t].pc \in {"exec", "terminate"} /\ task'[t].session = s BY <1>1
<1>2. CASE ~(task'[t].pc \in {"exec", "terminate"} /\ task'[t].session = s)
  <2>1. process[s] = "running" /\ s \notin runtimes BY <1>2
  <2>2. PICK u \in Tasks : task[u].session = s /\ task[u].pc \in {"exec", "terminate"}
        BY <2>1 DEF Inv, NoLostProcess, On
  <2> QED BY <1>2, <2>2
<1> QED BY <1>1, <1>2

-----------------------------------------------------------------------------
(* The cleanup and what follows it.                                        *)

\* A cleanup that goes on waiting or ends, without a new session.
LEMMA CleanupCloses ==
  ASSUME Inv, NEW t \in Tasks, NEW where \in TaskRecord, Goto(t, where),
         NEW C \in SUBSET Sessions, SetStates([c \in C |-> "closed"]),
         \A s \in C : row[s] # "absent", C \cap runtimes = {},
         task[t].pc # "idle" => task[t].pc = "terminate" /\ process[task[t].session] # "running",
         \/ /\ where.pc = "idle" /\ where.todo = {}
            /\ runtimes' = runtimes
         \/ /\ where.pc = "terminate" /\ where.session \in runtimes
            /\ runtimes' = runtimes \ {where.session}
            /\ \A s \in where.todo : row[s] # "absent",
         UNCHANGED <<mirror, process, ticket, crashes>>,
         reader' \subseteq reader, calls' \in Nat
  PROVE  Inv'
<1> DEFINE new == [c \in C |-> "closed"]
<1>1. TypeOK BY DEF Inv
<1>2. task' \in [Tasks -> TaskRecord] /\ task'[t] = where /\ \A u \in Tasks \ {t} : task'[u] = task[u]
      BY <1>1, GotoStep
<1>3. DOMAIN new = C /\ \A s \in C : new[s] = "closed" OBVIOUS
<1>4. "closed" \in States BY DEF States
<1>5. /\ row' \in RowType /\ closedAt' \in SUBSET Sessions /\ idle' \in SUBSET Sessions
      BY <1>1, <1>3, <1>4, SetStatesStep
<1>6. TypeOK' BY <1>1, <1>2, <1>5 DEF TypeOK, TaskRecord, RowType
<1>7. runtimes' \subseteq runtimes /\ runtimes \subseteq Sessions BY <1>1 DEF TypeOK
<1>8. /\ RowsOK' /\ EndedHasNoRuntime' /\ OpenWithinLimit'
      /\ \A s \in Sessions : row[s] # "absent" => row'[s] # "absent"
      BY <1>3, <1>4, <1>7, RowStep
<1>9. where.pc = "terminate" => where.session \in Sessions /\ row[where.session] # "absent"
      BY <1>7 DEF Inv, RowsOK
<1>10. where.todo \subseteq Sessions BY DEF TaskRecord
<1>11. Serves(t)' /\ HoldsAlone(t)'
      BY <1>2, <1>8, <1>9, <1>10 DEF Serves, HoldsAlone, Owning, Creating
<1>12. TasksOK' BY <1>2, <1>6, <1>7, <1>8, <1>11, TaskStep DEF Creating
<1>13. NoLostProcess' BY <1>2, <1>7, KnownStep
<1> QED BY <1>6, <1>8, <1>12, <1>13 DEF Inv

\* The new session is counted with those that the cleanup leaves open.
LEMMA CleanupAdmits ==
  ASSUME Inv, NEW t \in Tasks,
         NEW C \in SUBSET Sessions, NEW n \in Admit(C),
         SetStates([s \in C \cup {n} |-> IF s = n THEN "requested" ELSE "closed"]),
         Goto(t, At("lock", "create", n, {})),
         \A s \in C : row[s] # "absent", C \cap runtimes = {},
         task[t].pc # "idle" => task[t].pc = "terminate" /\ process[task[t].session] # "running",
         UNCHANGED <<runtimes, mirror, process, ticket, crashes>>,
         reader' \subseteq reader, calls' \in Nat
  PROVE  Inv'
<1> DEFINE new   == [s \in C \cup {n} |-> IF s = n THEN "requested" ELSE "closed"]
           where == At("lock", "create", n, {})
           Left  == {o \in Sessions \ C : Open(o)}
<1>1. TypeOK BY DEF Inv
<1>2. n \in Sessions /\ row[n] = "absent" /\ n \notin C /\ Cardinality(Left) < MaxSessions
      BY DEF Admit
<1>3. /\ where \in TaskRecord /\ where.pc = "lock" /\ where.session = n /\ where.todo = {}
      BY <1>2, AtTyped
<1>4. task' \in [Tasks -> TaskRecord] /\ task'[t] = where /\ \A u \in Tasks \ {t} : task'[u] = task[u]
      BY <1>1, <1>3, GotoStep
<1>5. /\ DOMAIN new = C \cup {n} /\ new[n] = "requested"
      /\ \A s \in C : new[s] = "closed"
      BY <1>2
<1>6. {"requested", "closed"} \subseteq States BY DEF States, OpenStates
<1>7. SetStates(new) /\ DOMAIN new \subseteq Sessions /\ \A s \in DOMAIN new : new[s] \in States
      BY <1>2, <1>5, <1>6
<1>8. /\ row' \in RowType /\ closedAt' \in SUBSET Sessions /\ idle' \in SUBSET Sessions
      /\ \A s \in Sessions : row'[s] = IF s \in DOMAIN new THEN new[s] ELSE row[s]
      /\ closedAt' = closedAt \cup {s \in DOMAIN new : new[s] \in {"closed", "failed"}}
      BY <1>1, <1>7, SetStatesStep
<1>9. /\ row'[n] = "requested" /\ \A s \in C : row'[s] = "closed" /\ s \in closedAt'
      /\ \A s \in Sessions \ (C \cup {n}) : row'[s] = row[s]
      /\ closedAt \subseteq closedAt'
      BY <1>2, <1>5, <1>8
<1>10. TypeOK' BY <1>1, <1>4, <1>8 DEF TypeOK, TaskRecord, RowType
<1>11. \A s \in Sessions : row[s] # "absent" => row'[s] # "absent" BY <1>9
<1>12. n \notin runtimes BY <1>2 DEF Inv, RowsOK
<1>13. RowsOK' /\ EndedHasNoRuntime'
      BY <1>9, <1>11, <1>12 DEF Inv, RowsOK, EndedHasNoRuntime, Ended
<1>14. OpenWithinLimit'
  <2>1. IsFiniteSet(Left) /\ Cardinality(Left) \in Nat /\ MaxSessions \in Nat
        BY LimitAssumption, FS_Subset, FS_CardinalityType
  <2>2. IsFiniteSet(Left \cup {n}) /\ Cardinality(Left \cup {n}) \in Nat
          /\ Cardinality(Left \cup {n}) <= Cardinality(Left) + 1
    <3> HIDE DEF Left
    <3>1. IsFiniteSet(Left \cup {n}) /\ Cardinality(Left \cup {n}) =
            IF n \in Left THEN Cardinality(Left) ELSE Cardinality(Left) + 1
          BY <2>1, FS_AddElement
    <3> QED BY <2>1, <3>1
  <2>3. Counted' \subseteq Left \cup {n} BY <1>9 DEF Counted, Open, OpenStates
  <2>4. IsFiniteSet(Counted') /\ Cardinality(Counted') \in Nat
          /\ Cardinality(Counted') <= Cardinality(Left \cup {n})
        BY <2>2, <2>3, FS_Subset, FS_CardinalityType
  <2> QED BY <1>2, <2>1, <2>2, <2>4 DEF OpenWithinLimit, Counted
<1>15. Serves(t)' /\ HoldsAlone(t)'
      BY <1>2, <1>3, <1>4, <1>9, <1>12 DEF Serves, HoldsAlone, Owning, Creating
<1>16. TasksOK' BY <1>2, <1>3, <1>4, <1>10, <1>11, <1>15, TaskStep
<1>17. NoLostProcess' BY <1>4, KnownStep
<1> QED BY <1>10, <1>13, <1>14, <1>16, <1>17 DEF Inv

\* cleanup_idle_sessions and close_all, from one wait to the next or to the end.
LEMMA CleanupStep ==
  ASSUME Inv, NEW t \in Tasks,
         NEW op \in {"none", "create", "list", "shutdown", "close", "stream"},
         NEW todo \in SUBSET Sessions, NEW closing \in SUBSET Sessions,
         Cleanup(t, op, todo, closing),
         \A s \in todo \cup closing : row[s] # "absent", closing \cap runtimes = {},
         task[t].pc # "idle" => task[t].pc = "terminate" /\ process[task[t].session] # "running",
         UNCHANGED <<mirror, process, ticket, crashes>>,
         reader' \subseteq reader, calls' \in Nat
  PROVE  Inv'
<1>1. ASSUME NEW s \in todo \cap runtimes, NEW quick \in SUBSET (todo \ runtimes),
             SetStates([c \in closing \cup quick |-> "closed"]),
             runtimes' = runtimes \ {s},
             Goto(t, At("terminate", op, s, todo \ (quick \cup {s})))
      PROVE  Inv'
  <2> DEFINE where == At("terminate", op, s, todo \ (quick \cup {s}))
  <2>1. /\ where \in TaskRecord /\ where.pc = "terminate" /\ where.session = s
        /\ where.todo = todo \ (quick \cup {s})
        BY AtTyped
  <2>2. /\ closing \cup quick \in SUBSET Sessions /\ (closing \cup quick) \cap runtimes = {}
        /\ \A c \in closing \cup quick : row[c] # "absent"
        OBVIOUS
  <2> HIDE DEF where
  <2> QED BY <1>1, <2>1, <2>2, CleanupCloses DEF where
<1>2. ASSUME todo \cap runtimes = {}, AfterCleanup(t, op, closing \cup todo), UNCHANGED runtimes
      PROVE  Inv'
  <2>1. /\ closing \cup todo \in SUBSET Sessions /\ (closing \cup todo) \cap runtimes = {}
        /\ \A c \in closing \cup todo : row[c] # "absent"
        BY <1>2
  <2>2. CASE SetStates([s \in closing \cup todo |-> "closed"]) /\ Goto(t, Done)
        BY <1>2, <2>1, <2>2, DoneTyped, CleanupCloses
  <2>3. ASSUME NEW n \in Admit(closing \cup todo),
               SetStates([s \in closing \cup todo \cup {n} |->
                            IF s = n THEN "requested" ELSE "closed"]),
               Goto(t, At("lock", op, n, {})), op = "create"
        PROVE  Inv'
        BY <1>2, <2>1, <2>3, CleanupAdmits
  <2> QED BY <1>2, <2>2, <2>3 DEF AfterCleanup
<1> QED BY <1>1, <1>2 DEF Cleanup

LEMMA BeginCreateStep == ASSUME Inv, NEW t \in Tasks, BeginCreate(t) PROVE Inv'
<1>1. Stale \in SUBSET Sessions /\ \A s \in Stale : row[s] # "absent"
      BY DEF Inv, TypeOK, Stale, Open, OpenStates
<1>2. task[t].pc = "idle" /\ calls' \in Nat BY DEF BeginCreate, Call, Done, Inv, TypeOK
<1> QED BY <1>1, <1>2, CleanupStep DEF BeginCreate

LEMMA BeginListStep == ASSUME Inv, NEW t \in Tasks, BeginList(t) PROVE Inv'
<1>1. Stale \in SUBSET Sessions /\ \A s \in Stale : row[s] # "absent"
      BY DEF Inv, TypeOK, Stale, Open, OpenStates
<1>2. task[t].pc = "idle" /\ calls' \in Nat BY DEF BeginList, Done, Inv, TypeOK
<1> QED BY <1>1, <1>2, CleanupStep DEF BeginList

LEMMA BeginShutdownStep == ASSUME Inv, NEW t \in Tasks, BeginShutdown(t) PROVE Inv'
<1>1. runtimes \in SUBSET Sessions /\ \A s \in runtimes : row[s] # "absent"
      BY DEF Inv, TypeOK, RowsOK
<1>2. task[t].pc = "idle" /\ calls' \in Nat BY DEF BeginShutdown, Call, Done, Inv, TypeOK
<1> QED BY <1>1, <1>2, CleanupStep DEF BeginShutdown

-----------------------------------------------------------------------------
(* The creation of a process.                                              *)

\* What a busy task works on.
LEMMA BusyTask ==
  ASSUME Inv, NEW t \in Tasks, task[t].pc # "idle"
  PROVE  /\ task[t] \in TaskRecord /\ task[t].session \in Sessions
         /\ row[task[t].session] # "absent" /\ \A s \in task[t].todo : row[s] # "absent"
         /\ task[t].pc \in Owning => task[t].session \notin runtimes
BY DEF Inv, TypeOK, TasksOK, Serves, HoldsAlone, TaskRecord

LEMMA StartProcessStep == ASSUME Inv, NEW t \in Tasks, StartProcess(t) PROVE Inv'
<1> DEFINE s == task[t].session
           where == [task[t] EXCEPT !.pc = "exec"]
<1>1. /\ task[t].pc = "lock" /\ process' = [process EXCEPT ![s] = "running"] /\ Goto(t, where)
      /\ UNCHANGED <<rows, runtimes, reader, ticket, calls, crashes>>
      BY DEF StartProcess
<1>2. /\ task[t] \in TaskRecord /\ s \in Sessions /\ row[s] # "absent" /\ s \notin runtimes
      /\ \A o \in task[t].todo : row[o] # "absent"
      BY <1>1, BusyTask DEF Owning, Creating
<1>3. /\ where \in TaskRecord /\ where.pc = "exec" /\ where.session = s /\ where.todo = task[t].todo
      BY <1>2 DEF TaskRecord
<1>4. task' \in [Tasks -> TaskRecord] /\ task'[t] = where /\ \A u \in Tasks \ {t} : task'[u] = task[u]
      BY <1>1, <1>3, GotoStep DEF Inv
<1>5. /\ TypeOK' /\ UNCHANGED <<row, closedAt>> /\ runtimes' = runtimes
      /\ \A o \in Sessions : o # s => process'[o] = process[o]
      BY <1>1, <1>2, <1>4 DEF Inv, TypeOK, TaskRecord, rows
<1>6. RowsOK' /\ EndedHasNoRuntime' /\ OpenWithinLimit' BY <1>1, <1>5, RowsStay
<1>7. Serves(t)' /\ HoldsAlone(t)' BY <1>2, <1>3, <1>4, <1>5 DEF Serves, HoldsAlone
<1>8. TasksOK' BY <1>1, <1>3, <1>4, <1>5, <1>7, TaskStep DEF Creating
<1>9. NoLostProcess' BY <1>1, <1>3, <1>4, <1>5, KnownStep
<1> QED BY <1>5, <1>6, <1>8, <1>9 DEF Inv

LEMMA ProcessStartedStep == ASSUME Inv, NEW t \in Tasks, ProcessStarted(t) PROVE Inv'
<1> DEFINE s == task[t].session
           new == [c \in {s} |-> "active"]
<1>1. /\ task[t].pc = "exec" /\ runtimes' = runtimes \cup {s} /\ reader' = reader \cup {s}
      /\ SetStates(new) /\ mirror' = [mirror EXCEPT ![s] = "active"] /\ Goto(t, Done)
      /\ UNCHANGED <<process, ticket, calls, crashes>>
      BY DEF ProcessStarted
<1>2. s \in Sessions /\ row[s] # "absent" BY <1>1, BusyTask
<1>3. task' \in [Tasks -> TaskRecord] /\ task'[t] = Done /\ \A u \in Tasks \ {t} : task'[u] = task[u]
      BY <1>1, DoneTyped, GotoStep DEF Inv
<1>4. DOMAIN new = {s} /\ new[s] = "active" /\ "active" \in States BY DEF States, OpenStates
<1>5. row' \in RowType /\ closedAt' \in SUBSET Sessions /\ idle' \in SUBSET Sessions
      BY <1>1, <1>2, <1>4, SetStatesStep DEF Inv
<1>6. TypeOK' BY <1>1, <1>2, <1>3, <1>5 DEF Inv, TypeOK, TaskRecord, RowType
<1>7. runtimes' \subseteq Sessions BY <1>6 DEF TypeOK
<1>8. /\ RowsOK' /\ EndedHasNoRuntime' /\ OpenWithinLimit'
      /\ \A o \in Sessions : row[o] # "absent" => row'[o] # "absent"
      BY <1>1, <1>2, <1>4, <1>7, RowStep
<1>9. Serves(t)' /\ HoldsAlone(t)'
      BY <1>3, DoneTyped DEF Serves, HoldsAlone, Owning, Creating
<1>10. TasksOK' BY <1>1, <1>3, <1>6, <1>8, <1>9, DoneTyped, TaskStep DEF Creating
<1>11. NoLostProcess' BY <1>1, <1>3, DoneTyped, KnownStep
<1> QED BY <1>6, <1>8, <1>10, <1>11 DEF Inv

LEMMA ProcessFailedStep == ASSUME Inv, NEW t \in Tasks, ProcessFailed(t) PROVE Inv'
<1> DEFINE s == task[t].session
           new == [c \in {s} |-> "failed"]
<1>1. /\ task[t].pc = "exec" /\ process' = [process EXCEPT ![s] = "exited"]
      /\ SetStates(new) /\ Goto(t, Done)
      /\ UNCHANGED <<mirror, runtimes, reader, ticket, calls, crashes>>
      BY DEF ProcessFailed
<1>2. s \in Sessions /\ row[s] # "absent" /\ s \notin runtimes
      BY <1>1, BusyTask DEF Owning, Creating
<1>3. task' \in [Tasks -> TaskRecord] /\ task'[t] = Done /\ \A u \in Tasks \ {t} : task'[u] = task[u]
      BY <1>1, DoneTyped, GotoStep DEF Inv
<1>4. DOMAIN new = {s} /\ new[s] = "failed" /\ "failed" \in States BY DEF States
<1>5. row' \in RowType /\ closedAt' \in SUBSET Sessions /\ idle' \in SUBSET Sessions
      BY <1>1, <1>2, <1>4, SetStatesStep DEF Inv
<1>6. /\ TypeOK' /\ runtimes' = runtimes /\ runtimes' \subseteq Sessions
      /\ \A o \in Sessions : process'[o] = IF o = s THEN "exited" ELSE process[o]
      BY <1>1, <1>2, <1>3, <1>5 DEF Inv, TypeOK, TaskRecord, RowType
<1>7. /\ RowsOK' /\ EndedHasNoRuntime' /\ OpenWithinLimit'
      /\ \A o \in Sessions : row[o] # "absent" => row'[o] # "absent"
      BY <1>1, <1>2, <1>4, <1>6, RowStep
<1>8. Serves(t)' /\ HoldsAlone(t)'
      BY <1>3, DoneTyped DEF Serves, HoldsAlone, Owning, Creating
<1>9. TasksOK' BY <1>3, <1>6, <1>7, <1>8, DoneTyped, TaskStep DEF Creating
<1>10. NoLostProcess' BY <1>1, <1>2, <1>3, <1>6, DoneTyped, KnownStep
<1> QED BY <1>6, <1>7, <1>9, <1>10 DEF Inv

-----------------------------------------------------------------------------
(* The steps that give one session a state.                                *)

MirrorType == [Sessions -> {"absent", "active", "detached", "closed"}]

LEMMA MirrorTyped ==
  ASSUME TypeOK, NEW s \in Sessions, NEW state \in {"active", "detached", "closed"},
         Mirror(s, state) \/ UNCHANGED mirror
  PROVE  mirror' \in MirrorType
BY DEF TypeOK, Mirror, MirrorType

LEMMA OneStateStep ==
  ASSUME Inv, NEW t \in Tasks, NEW where \in TaskRecord, Goto(t, where),
         NEW s \in Sessions, row[s] # "absent",
         NEW state \in States, SetStates([c \in {s} |-> state]),
         state \in {"closed", "failed"} => s \notin runtimes,
         where.pc = "idle" \/ where.pc = "follow", where.pc = "follow" => where.session = s,
         where.todo = {},
         task[t].pc \in {"exec", "terminate"} => process[task[t].session] # "running",
         mirror' \in MirrorType, UNCHANGED <<runtimes, process, ticket, crashes>>,
         reader' \subseteq reader, calls' \in Nat
  PROVE  Inv'
<1> DEFINE new == [c \in {s} |-> state]
<1>1. task' \in [Tasks -> TaskRecord] /\ task'[t] = where /\ \A u \in Tasks \ {t} : task'[u] = task[u]
      BY GotoStep DEF Inv
<1>2. DOMAIN new = {s} /\ new[s] = state OBVIOUS
<1>3. row' \in RowType /\ closedAt' \in SUBSET Sessions /\ idle' \in SUBSET Sessions
      BY <1>2, SetStatesStep DEF Inv
<1>4. TypeOK' /\ runtimes' \subseteq Sessions
      BY <1>1, <1>3 DEF Inv, TypeOK, TaskRecord, RowType, MirrorType
<1>5. /\ RowsOK' /\ EndedHasNoRuntime' /\ OpenWithinLimit'
      /\ \A o \in Sessions : row[o] # "absent" => row'[o] # "absent"
      BY <1>2, <1>4, RowStep
<1>6. Serves(t)' /\ HoldsAlone(t)'
      BY <1>1, <1>5 DEF Serves, HoldsAlone, Owning, Creating
<1>7. TasksOK' BY <1>1, <1>4, <1>5, <1>6, TaskStep DEF Creating
<1>8. NoLostProcess' BY <1>1, KnownStep
<1> QED BY <1>4, <1>5, <1>7, <1>8 DEF Inv

LEMMA CloseByStep ==
  ASSUME Inv, NEW t \in Tasks, NEW s \in Sessions, row[s] # "absent", CloseBy(t, s),
         task[t].pc \in {"idle", "follow"},
         UNCHANGED <<process, reader, ticket, crashes>>, calls' \in Nat
  PROVE  Inv'
<1>1. CASE s \in runtimes
  <2> DEFINE where == At("terminate", "close", s, {})
  <2>1. /\ runtimes' = runtimes \ {s} /\ Goto(t, where) /\ UNCHANGED rows
        /\ where \in TaskRecord /\ where.pc = "terminate" /\ where.session = s /\ where.todo = {}
        BY <1>1, AtTyped DEF CloseBy
  <2> HIDE DEF where
  <2>2. task' \in [Tasks -> TaskRecord] /\ task'[t] = where /\ \A u \in Tasks \ {t} : task'[u] = task[u]
        BY <2>1, GotoStep DEF Inv
  <2>3. TypeOK' /\ UNCHANGED <<row, closedAt>>
        BY <2>1, <2>2 DEF Inv, TypeOK, TaskRecord, rows
  <2>4. RowsOK' /\ EndedHasNoRuntime' /\ OpenWithinLimit' BY <2>1, <2>3, RowsStay
  <2>5. Serves(t)' /\ HoldsAlone(t)' BY <2>1, <2>2, <2>3 DEF Serves, HoldsAlone
  <2>6. TasksOK' BY <1>1, <2>1, <2>2, <2>3, <2>5, TaskStep DEF Creating
  <2>7. NoLostProcess' BY <2>1, <2>2, KnownStep
  <2> QED BY <2>3, <2>4, <2>6, <2>7 DEF Inv
<1>2. CASE s \notin runtimes
  <2>1. /\ SetStates([c \in {s} |-> "closed"]) /\ Mirror(s, "closed") /\ Goto(t, Done)
        /\ UNCHANGED runtimes
        BY <1>2 DEF CloseBy
  <2>2. mirror' \in MirrorType /\ "closed" \in States BY <2>1, MirrorTyped DEF Inv, States
  <2> QED BY <1>2, <2>1, <2>2, DoneTyped, OneStateStep
<1> QED BY <1>1, <1>2

LEMMA BeginCloseStep == ASSUME Inv, NEW t \in Tasks, NEW s \in Sessions, BeginClose(t, s) PROVE Inv'
<1>1. /\ row[s] # "absent" /\ CloseBy(t, s) /\ task[t].pc = "idle" /\ calls' \in Nat
      /\ UNCHANGED <<process, reader, ticket, crashes>>
      BY DEF BeginClose, Call, Done, Inv, TypeOK
<1> QED BY <1>1, CloseByStep

LEMMA CloseFrameStep == ASSUME Inv, NEW t \in Tasks, CloseFrame(t) PROVE Inv'
<1>1. /\ task[t].pc = "follow" /\ CloseBy(t, task[t].session) /\ calls' \in Nat
      /\ UNCHANGED <<process, reader, ticket, crashes>>
      BY DEF CloseFrame, Inv, TypeOK
<1>2. task[t].session \in Sessions /\ row[task[t].session] # "absent" BY <1>1, BusyTask
<1> QED BY <1>1, <1>2, CloseByStep

LEMMA FinishCloseStep == ASSUME Inv, NEW t \in Tasks, FinishClose(t) PROVE Inv'
<1> DEFINE s == task[t].session
<1>1. /\ task[t].pc = "terminate" /\ process[s] # "running" /\ reader' = reader \ {s}
      /\ UNCHANGED <<process, ticket, calls, crashes>>
      BY DEF FinishClose
<1>2. /\ task[t] \in TaskRecord /\ s \in Sessions /\ row[s] # "absent" /\ s \notin runtimes
      /\ \A o \in task[t].todo : row[o] # "absent"
      BY <1>1, BusyTask DEF Owning
<1>3. reader' \subseteq reader /\ calls' \in Nat BY <1>1 DEF Inv, TypeOK
<1>4. CASE /\ SetStates([c \in {s} |-> "closed"]) /\ Mirror(s, "closed") /\ Goto(t, Done)
           /\ UNCHANGED runtimes
  <2>1. mirror' \in MirrorType /\ "closed" \in States BY <1>2, <1>4, MirrorTyped DEF Inv, States
  <2> QED BY <1>1, <1>2, <1>3, <1>4, <2>1, DoneTyped, OneStateStep
<1>5. CASE Cleanup(t, task[t].op, task[t].todo, {s}) /\ UNCHANGED mirror
  <2>1. /\ task[t].op \in {"none", "create", "list", "shutdown", "close", "stream"}
        /\ task[t].todo \in SUBSET Sessions /\ {s} \in SUBSET Sessions
        /\ {s} \cap runtimes = {} /\ \A o \in task[t].todo \cup {s} : row[o] # "absent"
        BY <1>2 DEF TaskRecord
  <2> QED BY <1>1, <1>3, <1>5, <2>1, CleanupStep
<1> QED BY <1>4, <1>5 DEF FinishClose

LEMMA DetachStep == ASSUME Inv, NEW t \in Tasks, NEW s \in Sessions, Detach(t, s) PROVE Inv'
<1>1. /\ task[t] = Done /\ Open(s) /\ SetStates([c \in {s} |-> "detached"]) /\ Mirror(s, "detached")
      /\ UNCHANGED <<runtimes, process, reader, ticket, task, crashes>> /\ calls' \in Nat
      BY DEF Detach, Call, Inv, TypeOK, world
<1>2. Goto(t, Done) BY <1>1 DEF Goto, Inv, TypeOK
<1>3. row[s] # "absent" /\ "detached" \in States BY <1>1 DEF Open, OpenStates, States
<1>4. mirror' \in MirrorType BY <1>1, MirrorTyped DEF Inv
<1> QED BY <1>1, <1>2, <1>3, <1>4, DoneTyped, OneStateStep

LEMMA AttachStep == ASSUME Inv, NEW t \in Tasks, NEW s \in Sessions, Attach(t, s) PROVE Inv'
<1> DEFINE where == At("follow", "stream", s, {})
<1>1. /\ task[t].pc = "idle" /\ Open(s) /\ SetStates([c \in {s} |-> "active"]) /\ Goto(t, where)
      /\ UNCHANGED <<mirror, runtimes, process, reader, ticket, crashes>> /\ calls' \in Nat
      BY DEF Attach, Call, Done, Inv, TypeOK, world
<1>2. /\ where \in TaskRecord /\ where.pc = "follow" /\ where.session = s /\ where.todo = {}
      BY AtTyped
<1>3. row[s] # "absent" /\ "active" \in States BY <1>1 DEF Open, OpenStates, States
<1>4. mirror' \in MirrorType BY <1>1, MirrorTyped DEF Inv
<1> HIDE DEF where
<1> QED BY <1>1, <1>2, <1>3, <1>4, OneStateStep

LEMMA DisconnectStep ==
  ASSUME Inv, NEW t \in Tasks, Disconnect(t) \/ DetachFrame(t)
  PROVE  Inv'
<1> DEFINE s == task[t].session
<1>1. /\ task[t].pc = "follow" /\ SetStates([c \in {s} |-> "detached"]) /\ Goto(t, Done)
      /\ Mirror(s, "detached") \/ UNCHANGED mirror
      /\ UNCHANGED <<runtimes, process, reader, ticket, calls, crashes>>
      BY DEF Disconnect, DetachFrame, world
<1>2. s \in Sessions /\ row[s] # "absent" BY <1>1, BusyTask
<1>3. mirror' \in MirrorType /\ "detached" \in States /\ calls' \in Nat
      BY <1>1, <1>2, MirrorTyped DEF Inv, TypeOK, States, OpenStates
<1> QED BY <1>1, <1>2, <1>3, DoneTyped, OneStateStep

-----------------------------------------------------------------------------
(* The steps that no task makes, and those that only end or begin nothing. *)

LEMMA TasksStay ==
  ASSUME Inv, UNCHANGED task, \A s \in Sessions : row[s] # "absent" => row'[s] # "absent",
         runtimes' \subseteq runtimes
  PROVE  TasksOK'
<1>1. ASSUME NEW t \in Tasks PROVE Serves(t)' /\ HoldsAlone(t)'
  <2>1. task[t].todo \subseteq Sessions BY DEF Inv, TypeOK
  <2> QED BY <2>1 DEF Inv, TasksOK, Serves, HoldsAlone
<1>2. \A t, u \in Tasks : OneCreates(t, u)' BY DEF Inv, TasksOK, OneCreates
<1> QED BY <1>1, <1>2 DEF TasksOK

\* A step that concerns neither the states nor the processes.
LEMMA QuietStep ==
  ASSUME Inv, UNCHANGED <<row, closedAt, mirror, world, task, crashes>>,
         idle' \in SUBSET Sessions, ticket' \in SUBSET Sessions, calls' \in Nat
  PROVE  Inv'
<1>1. TypeOK' /\ NoLostProcess' BY DEF Inv, TypeOK, NoLostProcess, On, world
<1>2. RowsOK' /\ EndedHasNoRuntime' /\ OpenWithinLimit' BY RowsStay DEF world
<1>3. TasksOK' BY TasksStay DEF world
<1> QED BY <1>1, <1>2, <1>3 DEF Inv

LEMMA ProcessExitStep == ASSUME Inv, NEW s \in Sessions, ProcessExit(s) PROVE Inv'
<1>1. /\ process' = [process EXCEPT ![s] = "exited"]
      /\ UNCHANGED <<row, closedAt, idle, mirror, runtimes, reader, ticket, task, calls, crashes>>
      BY DEF ProcessExit, rows
<1>2. TypeOK' BY <1>1 DEF Inv, TypeOK
<1>3. \A o \in Sessions : process'[o] = "running" => process[o] = "running"
      BY <1>1 DEF Inv, TypeOK
<1>4. NoLostProcess' BY <1>1, <1>3 DEF Inv, NoLostProcess, On
<1>5. RowsOK' /\ EndedHasNoRuntime' /\ OpenWithinLimit' BY <1>1, RowsStay
<1>6. TasksOK' BY <1>1, TasksStay
<1> QED BY <1>2, <1>4, <1>5, <1>6 DEF Inv

LEMMA ReaderEndsStep == ASSUME Inv, NEW s \in Sessions, ReaderEnds(s) PROVE Inv'
<1> DEFINE C == {s} \cap {o \in Sessions : ~Ended(o)}
           new == [c \in C |-> "closed"]
<1>1. /\ s \in reader /\ process[s] # "running"
      /\ reader' = reader \ {s} /\ runtimes' = runtimes \ {s} /\ SetStates(new)
      /\ UNCHANGED <<mirror, process, ticket, task, calls, crashes>>
      BY DEF ReaderEnds
<1>2. s \in Sessions /\ row[s] # "absent" BY <1>1 DEF Inv, TypeOK, RowsOK
<1>3. /\ DOMAIN new = C /\ \A c \in C : c = s /\ new[c] = "closed"
      /\ C \subseteq Sessions /\ "closed" \in States
      BY DEF States
<1>4. row' \in RowType /\ closedAt' \in SUBSET Sessions /\ idle' \in SUBSET Sessions
      BY <1>1, <1>3, SetStatesStep DEF Inv
<1>5. TypeOK' BY <1>1, <1>4 DEF Inv, TypeOK, RowType
<1>6. runtimes' \subseteq Sessions BY <1>5 DEF TypeOK
<1>7. /\ RowsOK' /\ EndedHasNoRuntime' /\ OpenWithinLimit'
      /\ \A o \in Sessions : row[o] # "absent" => row'[o] # "absent"
      BY <1>1, <1>2, <1>3, <1>6, RowStep
<1>8. TasksOK' BY <1>1, <1>7, TasksStay
<1>9. NoLostProcess' BY <1>1 DEF Inv, NoLostProcess, On
<1> QED BY <1>5, <1>7, <1>8, <1>9 DEF Inv

LEMMA StreamEndsStep == ASSUME Inv, NEW t \in Tasks, StreamEnds(t) PROVE Inv'
<1>1. /\ task[t].pc = "follow" /\ Goto(t, Done)
      /\ UNCHANGED <<row, closedAt, idle, mirror, runtimes, process, reader, ticket, calls, crashes>>
      BY DEF StreamEnds, rows, world
<1>2. task' \in [Tasks -> TaskRecord] /\ task'[t] = Done /\ \A u \in Tasks \ {t} : task'[u] = task[u]
      BY <1>1, DoneTyped, GotoStep DEF Inv
<1>3. TypeOK' BY <1>1, <1>2 DEF Inv, TypeOK, TaskRecord
<1>4. RowsOK' /\ EndedHasNoRuntime' /\ OpenWithinLimit' BY <1>1, RowsStay
<1>5. Serves(t)' /\ HoldsAlone(t)' BY <1>2, DoneTyped DEF Serves, HoldsAlone, Owning, Creating
<1>6. TasksOK' BY <1>1, <1>2, <1>3, <1>5, DoneTyped, TaskStep DEF Creating
<1>7. NoLostProcess' BY <1>1, <1>2, KnownStep
<1> QED BY <1>3, <1>4, <1>6, <1>7 DEF Inv

\* A restart forgets the tasks and the runtimes, and leaves no process running.
LEMMA CrashStep == ASSUME Inv, Crash PROVE Inv'
<1>1. /\ runtimes' = {} /\ reader' = {} /\ task' = [t \in Tasks |-> Done]
      /\ UNCHANGED <<row, closedAt, idle, mirror, ticket, calls>> /\ crashes' = crashes + 1
      BY DEF Crash, rows
<1>2. \A s \in Sessions : process'[s] # "running" BY DEF Crash
<1>3. process' \in [Sessions -> {"none", "running", "exited", "orphaned"}]
      BY DEF Crash, Inv, TypeOK
<1>4. TypeOK' BY <1>1, <1>3, DoneTyped DEF Inv, TypeOK, TaskRecord
<1>5. RowsOK' /\ EndedHasNoRuntime' /\ OpenWithinLimit' BY <1>1, RowsStay
<1>6. \A t \in Tasks : task'[t].pc = "idle" /\ task'[t].todo = {} BY <1>1, DoneTyped
<1>7. TasksOK' BY <1>6 DEF TasksOK, Serves, HoldsAlone, OneCreates, Owning, Creating
<1>8. NoLostProcess' BY <1>2 DEF NoLostProcess
<1> QED BY <1>4, <1>5, <1>7, <1>8 DEF Inv

-----------------------------------------------------------------------------
(* The invariant.                                                          *)

LEMMA InitHolds == Init => Inv
<1> SUFFICES ASSUME Init PROVE Inv OBVIOUS
<1>1. TypeOK BY DoneTyped DEF Init, TypeOK, TaskRecord
<1>2. \A t \in Tasks : task[t].pc = "idle" /\ task[t].todo = {} BY DoneTyped DEF Init
<1>3. TasksOK BY <1>2 DEF TasksOK, Serves, HoldsAlone, OneCreates, Owning, Creating
<1>4. RowsOK /\ EndedHasNoRuntime /\ NoLostProcess
      BY DEF Init, RowsOK, EndedHasNoRuntime, NoLostProcess, Ended
<1>5. OpenWithinLimit
  <2>1. Counted = {} BY DEF Init, Counted, Open, OpenStates
  <2> QED BY <2>1, LimitAssumption, FS_EmptySet DEF OpenWithinLimit, Counted
<1> QED BY <1>1, <1>3, <1>4, <1>5 DEF Inv

LEMMA NextStep == ASSUME Inv, [Next]_vars PROVE Inv'
<1>1. ASSUME NEW t \in Tasks, BeginCreate(t) \/ BeginList(t) \/ BeginShutdown(t) PROVE Inv'
      BY <1>1, BeginCreateStep, BeginListStep, BeginShutdownStep
<1>2. ASSUME NEW t \in Tasks, StartProcess(t) \/ ProcessStarted(t) \/ ProcessFailed(t) PROVE Inv'
      BY <1>2, StartProcessStep, ProcessStartedStep, ProcessFailedStep
<1>3. ASSUME NEW t \in Tasks, FinishClose(t) \/ CloseFrame(t) PROVE Inv'
      BY <1>3, FinishCloseStep, CloseFrameStep
<1>4. ASSUME NEW t \in Tasks, Frame(t) PROVE Inv'
  <2>1. /\ UNCHANGED <<row, closedAt, mirror, world, task, crashes>>
        /\ idle' \in SUBSET Sessions /\ ticket' \in SUBSET Sessions /\ calls' \in Nat
        BY <1>4 DEF Frame, Inv, TypeOK
  <2> QED BY <2>1, QuietStep
<1>5. ASSUME NEW t \in Tasks, StreamEnds(t) \/ Disconnect(t) \/ DetachFrame(t) PROVE Inv'
      BY <1>5, StreamEndsStep, DisconnectStep
<1>6. ASSUME NEW t \in Tasks, NEW s \in Sessions, BeginClose(t, s) \/ Detach(t, s) \/ Attach(t, s)
      PROVE  Inv'
      BY <1>6, BeginCloseStep, DetachStep, AttachStep
<1>7. ASSUME NEW s \in Sessions, ProcessExit(s) \/ ReaderEnds(s) PROVE Inv'
      BY <1>7, ProcessExitStep, ReaderEndsStep
<1>8. ASSUME NEW s \in Sessions, GrowIdle(s) \/ IssueToken(s) \/ ExpireToken(s) PROVE Inv'
  <2>1. /\ UNCHANGED <<row, closedAt, mirror, world, task, crashes>>
        /\ idle' \in SUBSET Sessions /\ ticket' \in SUBSET Sessions /\ calls' \in Nat
        BY <1>8 DEF GrowIdle, IssueToken, ExpireToken, Inv, TypeOK, rows
  <2> QED BY <2>1, QuietStep
<1>9. CASE Crash BY <1>9, CrashStep
<1>10. CASE UNCHANGED vars
  <2>1. /\ UNCHANGED <<row, closedAt, mirror, world, task, crashes>>
        /\ idle' \in SUBSET Sessions /\ ticket' \in SUBSET Sessions /\ calls' \in Nat
        BY <1>10 DEF vars, Inv, TypeOK, rows
  <2> QED BY <2>1, QuietStep
<1> QED BY <1>1, <1>2, <1>3, <1>4, <1>5, <1>6, <1>7, <1>8, <1>9, <1>10 DEF Next

LEMMA Invariant == Spec => []Inv
BY InitHolds, NextStep, PTL DEF Spec

-----------------------------------------------------------------------------
(* What is opened again.                                                   *)

\* A step by which no task joins those at work on s, and that does not open s.
ReopenSafe(s) ==
  /\ \A u \in Tasks :
       task'[u].session = s /\ task'[u].pc \in {"lock", "exec", "follow"} =>
         task[u].session = s /\ task[u].pc \in {"lock", "exec", "follow"}
  /\ Open(s)' => On(s, {"exec", "follow"}) # {}

\* A step of t that leaves s alone.
LEMMA ElsewhereSafe ==
  ASSUME Inv, NEW s \in Sessions, Ended(s), NEW t \in Tasks, NEW where \in TaskRecord,
         Goto(t, where), where.pc \in {"idle", "terminate"} \/ where.session # s,
         row'[s] \notin OpenStates \/ (task[t].pc \in {"exec", "follow"} /\ task[t].session = s)
  PROVE  ReopenSafe(s)
<1>1. task'[t] = where /\ \A u \in Tasks \ {t} : task'[u] = task[u] BY GotoStep DEF Inv
<1> QED BY <1>1 DEF ReopenSafe, On, Open

LEMMA CleanupSafe ==
  ASSUME Inv, NEW s \in Sessions, Ended(s), NEW t \in Tasks,
         NEW op \in {"none", "create", "list", "shutdown", "close", "stream"},
         NEW todo \in SUBSET Sessions, NEW closing \in SUBSET Sessions,
         Cleanup(t, op, todo, closing)
  PROVE  ReopenSafe(s)
<1>1. ASSUME NEW C \in SUBSET Sessions, SetStates([c \in C |-> "closed"])
      PROVE  row'[s] \notin OpenStates
  <2>1. row'[s] \in {"closed", row[s]} BY <1>1 DEF SetStates
  <2> QED BY <2>1 DEF Ended, OpenStates
<1>2. ASSUME NEW o \in todo \cap runtimes, NEW quick \in SUBSET (todo \ runtimes),
             SetStates([c \in closing \cup quick |-> "closed"]),
             Goto(t, At("terminate", op, o, todo \ (quick \cup {o})))
      PROVE  ReopenSafe(s)
  <2> DEFINE where == At("terminate", op, o, todo \ (quick \cup {o}))
  <2>1. where \in TaskRecord /\ where.pc = "terminate" BY AtTyped
  <2>2. row'[s] \notin OpenStates BY <1>1, <1>2
  <2> HIDE DEF where
  <2> QED BY <1>2, <2>1, <2>2, ElsewhereSafe DEF where
<1>3. ASSUME SetStates([c \in closing \cup todo |-> "closed"]), Goto(t, Done)
      PROVE  ReopenSafe(s)
      BY <1>1, <1>3, DoneTyped, ElsewhereSafe
<1>4. ASSUME NEW n \in Admit(closing \cup todo), Goto(t, At("lock", "create", n, {})),
             SetStates([c \in closing \cup todo \cup {n} |->
                          IF c = n THEN "requested" ELSE "closed"])
      PROVE  ReopenSafe(s)
  <2>1. n \in Sessions /\ n # s BY DEF Admit, Ended
  <2>2. At("lock", "create", n, {}) \in TaskRecord /\ At("lock", "create", n, {}).session = n
        BY <2>1, AtTyped
  <2>3. row'[s] \in {"closed", row[s]} BY <1>4, <2>1 DEF SetStates
  <2>4. row'[s] \notin OpenStates BY <2>3 DEF Ended, OpenStates
  <2> QED BY <1>4, <2>1, <2>2, <2>4, ElsewhereSafe
<1> QED BY <1>2, <1>3, <1>4 DEF Cleanup, AfterCleanup

LEMMA ReopenStep ==
  ASSUME Inv, [Next]_vars, NEW s \in Sessions, Ended(s) PROVE ReopenSafe(s)
<1> USE DoneTyped
<1>0. row[s] \notin OpenStates BY DEF Ended, OpenStates
<1>1. ASSUME NEW t \in Tasks, BeginCreate(t) \/ BeginList(t) \/ BeginShutdown(t)
      PROVE  ReopenSafe(s)
  <2>1. Stale \in SUBSET Sessions /\ runtimes \in SUBSET Sessions BY DEF Inv, TypeOK, Stale
  <2> QED BY <1>1, <2>1, CleanupSafe DEF BeginCreate, BeginList, BeginShutdown
<1>2. ASSUME NEW t \in Tasks, FinishClose(t) PROVE ReopenSafe(s)
  <2>1. task[t].pc = "terminate" BY <1>2 DEF FinishClose
  <2>2. /\ task[t].op \in {"none", "create", "list", "shutdown", "close", "stream"}
        /\ task[t].todo \in SUBSET Sessions /\ {task[t].session} \in SUBSET Sessions
        BY <2>1, BusyTask DEF TaskRecord
  <2>3. CASE SetStates([c \in {task[t].session} |-> "closed"]) /\ Goto(t, Done)
    <3>1. row'[s] \in {"closed", row[s]} BY <2>3 DEF SetStates
    <3> QED BY <1>0, <2>3, <3>1, ElsewhereSafe DEF OpenStates
  <2>4. CASE Cleanup(t, task[t].op, task[t].todo, {task[t].session})
        BY <2>2, <2>4, CleanupSafe
  <2> QED BY <1>2, <2>3, <2>4 DEF FinishClose
<1>3. ASSUME NEW t \in Tasks, StartProcess(t) PROVE ReopenSafe(s)
  <2> DEFINE where == [task[t] EXCEPT !.pc = "exec"]
  <2>1. task[t].pc = "lock" /\ Goto(t, where) /\ row' = row BY <1>3 DEF StartProcess, rows
  <2>2. task[t] \in TaskRecord BY <2>1, BusyTask
  <2>3. where \in TaskRecord /\ where.session = task[t].session BY <2>2 DEF TaskRecord
  <2>4. task'[t] = where /\ \A u \in Tasks \ {t} : task'[u] = task[u]
        BY <2>1, <2>3, GotoStep DEF Inv
  <2> QED BY <1>0, <2>1, <2>3, <2>4 DEF ReopenSafe, Open
<1>4. ASSUME NEW t \in Tasks, ProcessStarted(t) \/ ProcessFailed(t) \/ Disconnect(t) \/ DetachFrame(t)
      PROVE  ReopenSafe(s)
  <2>1. task[t].pc \in {"exec", "follow"} /\ Goto(t, Done)
        BY <1>4 DEF ProcessStarted, ProcessFailed, Disconnect, DetachFrame
  <2>2. PICK state \in States : SetStates([c \in {task[t].session} |-> state])
        BY <1>4 DEF ProcessStarted, ProcessFailed, Disconnect, DetachFrame, States, OpenStates
  <2>3. s # task[t].session => row'[s] = row[s] BY <2>2 DEF SetStates
  <2> QED BY <1>0, <2>1, <2>3, ElsewhereSafe
<1>5. ASSUME NEW t \in Tasks, NEW o \in Sessions, CloseBy(t, o) PROVE ReopenSafe(s)
  <2>1. CASE o \in runtimes
    <3> DEFINE where == At("terminate", "close", o, {})
    <3>1. Goto(t, where) /\ row' = row BY <1>5, <2>1 DEF CloseBy, rows
    <3>2. where \in TaskRecord /\ where.pc = "terminate" BY AtTyped
    <3> HIDE DEF where
    <3> QED BY <1>0, <3>1, <3>2, ElsewhereSafe
  <2>2. CASE o \notin runtimes
    <3>1. SetStates([c \in {o} |-> "closed"]) /\ Goto(t, Done) BY <1>5, <2>2 DEF CloseBy
    <3>2. row'[s] \in {"closed", row[s]} BY <3>1 DEF SetStates
    <3> QED BY <1>0, <3>1, <3>2, ElsewhereSafe DEF OpenStates
  <2> QED BY <2>1, <2>2
<1>6. ASSUME NEW t \in Tasks, CloseFrame(t) PROVE ReopenSafe(s)
  <2>1. task[t].session \in Sessions BY <1>6, BusyTask DEF CloseFrame
  <2> QED BY <1>5, <1>6, <2>1 DEF CloseFrame
<1>7. ASSUME NEW t \in Tasks, NEW o \in Sessions, Detach(t, o) \/ Attach(t, o) PROVE ReopenSafe(s)
  <2>1. o # s BY <1>0, <1>7 DEF Detach, Attach, Open
  <2>2. PICK state \in States : SetStates([c \in {o} |-> state])
        BY <1>7 DEF Detach, Attach, States, OpenStates
  <2>3. row'[s] = row[s] BY <2>1, <2>2 DEF SetStates
  <2>4. CASE Detach(t, o) BY <1>0, <2>3, <2>4 DEF Detach, ReopenSafe, Open
  <2>5. CASE Attach(t, o)
        BY <1>0, <2>1, <2>3, <2>5, AtTyped, ElsewhereSafe DEF Attach
  <2> QED BY <1>7, <2>4, <2>5
<1>8. ASSUME NEW o \in Sessions, ReaderEnds(o) PROVE ReopenSafe(s)
  <2>1. row'[s] \in {"closed", row[s]} /\ task' = task BY <1>8 DEF ReaderEnds, SetStates
  <2> QED BY <1>0, <2>1 DEF ReopenSafe, Open, OpenStates
<1>9. CASE UNCHANGED <<row, task>> BY <1>0, <1>9 DEF ReopenSafe, Open
<1>10. ASSUME NEW t \in Tasks, StreamEnds(t) PROVE ReopenSafe(s)
       BY <1>0, <1>10, ElsewhereSafe DEF StreamEnds, rows
<1>11. CASE Crash
       BY <1>0, <1>11 DEF Crash, rows, ReopenSafe, Open
<1>12. ASSUME NEW t \in Tasks, Frame(t) PROVE UNCHANGED <<row, task>> BY <1>12 DEF Frame
<1>13. ASSUME NEW o \in Sessions, ProcessExit(o) \/ GrowIdle(o) \/ IssueToken(o) \/ ExpireToken(o)
       PROVE  UNCHANGED <<row, task>>
       BY <1>13 DEF ProcessExit, GrowIdle, IssueToken, ExpireToken, rows
<1>14. ASSUME NEW t \in Tasks, NEW o \in Sessions, BeginClose(t, o) PROVE ReopenSafe(s)
       BY <1>5, <1>14 DEF BeginClose
<1>15. UNCHANGED vars => UNCHANGED <<row, task>> BY DEF vars, rows
<1> QED BY <1>1, <1>2, <1>3, <1>4, <1>6, <1>7, <1>8, <1>9, <1>10, <1>11, <1>12, <1>13, <1>14, <1>15
    DEF Next

-----------------------------------------------------------------------------
(* The properties.                                                         *)

\* Type correctness, for any number of terminals, tasks, calls and restarts.
THEOREM TuiTyped == Spec => []TypeOK
<1>1. Inv => TypeOK BY DEF Inv
<1> QED BY <1>1, Invariant, PTL

\* Creations never push the open terminals over the limit, whichever of them wait for a
\* process or for a cleanup at once (create_tui_session, cleanup_idle_sessions).
THEOREM TuiOpenWithinLimit == Spec => []OpenWithinLimit
<1>1. Inv => OpenWithinLimit BY DEF Inv
<1> QED BY <1>1, Invariant, PTL

\* A running process is known to the manager, to its creation or to the task that is
\* terminating it (LocalPtyManager).
THEOREM TuiNoLostProcess == Spec => []NoLostProcess
<1>1. Inv => NoLostProcess BY DEF Inv
<1> QED BY <1>1, Invariant, PTL

\* The manager has let go of every terminal that is listed as closed or failed.
THEOREM TuiEndedHasNoRuntime == Spec => []EndedHasNoRuntime
<1>1. Inv => EndedHasNoRuntime BY DEF Inv
<1> QED BY <1>1, Invariant, PTL

\* A closed terminal is opened again only by a websocket or a creation that was under way,
\* and none joins them (tui_stream, create_tui_session).
THEOREM TuiReopenedOnlyInFlight == Spec => ReopenedOnlyInFlight
<1>1. Inv /\ [Next]_vars =>
        [\A s \in Sessions : Ended(s) =>
           /\ On(s, {"lock", "exec", "follow"})' \subseteq On(s, {"lock", "exec", "follow"})
           /\ Open(s)' => On(s, {"exec", "follow"}) # {}]_vars
  <2>1. ASSUME Inv, [Next]_vars, NEW s \in Sessions, Ended(s) PROVE ReopenSafe(s)
        BY <2>1, ReopenStep
  <2>2. ASSUME NEW s \in Sessions, ReopenSafe(s)
        PROVE  On(s, {"lock", "exec", "follow"})' \subseteq On(s, {"lock", "exec", "follow"})
        BY <2>2 DEF ReopenSafe, On
  <2> QED BY <2>1, <2>2 DEF ReopenSafe
<1> QED BY <1>1, Invariant, PTL DEF Spec, ReopenedOnlyInFlight
=============================================================================
