---------------------------- MODULE HandoffsProofs ----------------------------
(***************************************************************************)
(* Theorems about Handoffs, for any number of threads, requests, sessions, *)
(* calls and restarts.                                                     *)
(***************************************************************************)
EXTENDS Handoffs, TLAPS

\* What the handlers may be called for.
Targets(op) == CASE op = "runtime_request"        -> Handoff
                 [] op = "request"                -> Handoff
                 [] op \in {"session", "opening"} -> TuaSessions
                 [] op = "message"                -> TuaSessions \cup VoiceSessions
                 [] op = "note"                   -> BrowserSessions
                 [] op = "return"                 -> TuaSessions \cup BrowserSessions
                 [] op = "close"                  -> Sessions
                 [] op \in {"context", "approval"} -> {Agent}
                 [] op = "refused"                -> Sessions \cup Requests

Works == {"message", "note", "return", "close"}

\* A busy handler is somewhere in the plan of its call, which it may be called for.
FollowsPlan(j) ==
  j # NoJob => /\ j.op # "idle" /\ j.on \in Targets(j.op)
               /\ j.at \in 1..Last(j)
               /\ j.op \in Works => state[j.on] # "absent"

\* The handler has still to make this call.
Due(j, step) == \E i \in j.at..Last(j) : Plan(j.op, j.on)[i] = step

\* Two handlers that touch the same thing have been noticed.
Noticed == \A g, h \in Handlers : g # h =>
             Touches(job[g]) \cap Touches(job[h]) \subseteq crossed

Agrees(s) == mirror[s] = [state |-> state[s], summary |-> summary[s]]

\* Half way through a call the mirror is behind the row by what is still due.
MirrorFollows(j) ==
  LET s == j.on IN
  /\ ~Due(j, "mirror") => Agrees(s)
  /\ Due(j, "mirror") /\ Creates(j.op) =>
       /\ mirror[s].summary = summary[s]
       /\ j.op = "runtime_request" /\ ~Due(j, "insert") => state[s] = Target(j.op, s)
       /\ j.op # "runtime_request" /\ ~Due(j, "row") => j.seen = state[s]
  /\ Due(j, "mirror") /\ ~Creates(j.op) =>
       IF Due(j, "update") \/ Due(j, "note") THEN Agrees(s)
       ELSE /\ mirror[s].state # "absent" /\ state[s] = Target(j.op, s)
            /\ summary[s] = Summary(j.op, s, mirror[s].summary)

\* The notes that a handler has read, and has still to write.
NotesFollow(j) ==
  j.op = "note" /\ ~Due(j, "notes") /\ Due(j, "note") =>
    /\ j.notes <= given[j.on]
    /\ j.on \notin crossed => j.notes = remarks[j.on]

\* The capabilities that a handler has read, and has still to write back.
ListFollows(j) ==
  Agent \in Touches(j) \ crossed /\ j.op # "context" /\ ~Due(j, "agent") =>
    j.list = capabilities

\* What the mirror will get has been read.
HasRead(j) ==
  j.on \in Sessions /\ Creates(j.op) /\ j.op # "runtime_request" /\ ~Due(j, "row") => j.seen # None

\* What is half done by a handler.
JobOK(j) == /\ HasRead(j) /\ NotesFollow(j) /\ ListFollows(j)
            /\ \A s \in Touches(j) \cap Sessions : s \notin crossed => MirrorFollows(j)

JobsOK == \A h \in Handlers : job[h] # NoJob => JobOK(job[h])

\* A session's summary is its own, and a request lists sessions of its own.
OwnOK == /\ \A s \in Sessions : summary[s] \in {None, s}
         /\ \A r \in Requests : newest[r] # None => RequestOf[newest[r]] = r

Inv == /\ TypeOK
       /\ \A h \in Handlers : FollowsPlan(job[h])
       /\ Noticed /\ JobsOK /\ OwnOK
       /\ Consistent /\ ToldItsOwn

-----------------------------------------------------------------------------
(* The plans.                                                              *)

\* Which calls a plan has, and in which order.
WhoCalls(op, x, step) ==
  /\ step = "insert"    => Creates(op)
  /\ step = "row"       => op \in {"request", "session", "opening"} /\ x \in Sessions
  /\ step = "mirror"    => x \in Sessions /\ op \notin {"message", "context", "approval", "refused"}
  /\ step = "remark"    => x \in Sessions /\ op \in {"opening", "message"}
  /\ step = "update"    => op \in {"return", "close"}
  /\ step \in {"notes", "note"} => op = "note"
  /\ step = "agent"     => op \in {"runtime_request", "context", "approval"}
  /\ step = "writeback" => op = "approval" \/ (op = "runtime_request" /\ KindOf(x) # "voice")
  /\ step = "register"  => op = "context"

Ordered(p, i, k) ==
  /\ p[i] = p[k] /\ p[i] \notin {"audit", "event"} => i = k
  /\ p[k] = "mirror" /\ p[i] \in {"insert", "row", "update", "note"} => i < k
  /\ p[k] = "row" /\ p[i] = "insert" => i < k
  /\ p[k] = "note" /\ p[i] = "notes" => i < k
  /\ p[k] = "writeback" /\ p[i] = "agent" => i < k

Has(p, step) == \E i \in 1..Len(p) : p[i] = step

PlanOK(op, x, p) ==
  /\ Len(p) \in 1..7
  /\ \A i \in 1..Len(p) : WhoCalls(op, x, p[i])
  /\ \A i, k \in 1..Len(p) : Ordered(p, i, k)
  /\ Creates(op) => Has(p, "insert")
  /\ Creates(op) /\ x \in Sessions => Has(p, "mirror") /\ (op = "runtime_request" \/ Has(p, "row"))
  /\ op = "approval" \/ (op = "runtime_request" /\ KindOf(x) # "voice") => Has(p, "agent")
  /\ op \in {"return", "close"} => Has(p, "update") /\ Has(p, "mirror")
  /\ op = "note" => Has(p, "notes") /\ Has(p, "note") /\ Has(p, "mirror")

LEMMA PlansFit ==
  ASSUME NEW op \in Ops \ {"idle"}, NEW x \in Targets(op)
  PROVE  PlanOK(op, x, Plan(op, x))
<1> USE DEF PlanOK, Creates
<1>1. CASE op = "runtime_request" /\ KindOf(x) = "tua"
  <2>1. Plan(op, x) = <<"insert", "agent", "writeback", "event", "audit", "event">> BY <1>1 DEF Plan
  <2>2. x \in Requests /\ x \notin Sessions
        BY HandoffAssumption, <1>1 DEF Targets, Handoff, KindOf, Sessions
  <2>3. Len(Plan(op, x)) = 6 BY <2>1
  <2>4. \A i \in 1..6 : WhoCalls(op, x, Plan(op, x)[i]) BY <1>1, <2>1, <2>2 DEF WhoCalls
  <2>5. \A i, k \in 1..6 : Ordered(Plan(op, x), i, k) BY <2>1 DEF Ordered
  <2>6. Has(Plan(op, x), "insert") /\ Has(Plan(op, x), "agent") BY <2>1 DEF Has
  <2>7. Len(Plan(op, x)) \in 1..7 BY <2>3
  <2>8. \A i \in 1..Len(Plan(op, x)) : WhoCalls(op, x, Plan(op, x)[i]) BY <2>3, <2>4
  <2>9. \A i, k \in 1..Len(Plan(op, x)) : Ordered(Plan(op, x), i, k) BY <2>3, <2>5
  <2> QED BY <1>1, <2>2, <2>6, <2>7, <2>8, <2>9, Zenon DEF Creates
<1>2. CASE op = "runtime_request" /\ KindOf(x) = "browser_assistance"
  <2>1. Plan(op, x) = <<"insert", "mirror", "agent", "writeback", "event", "audit", "event">> BY <1>2 DEF Plan
  <2>2. x \in Sessions BY HandoffAssumption, <1>2 DEF Targets, Handoff, KindOf, Sessions
  <2>3. Len(Plan(op, x)) = 7 BY <2>1
  <2>4. \A i \in 1..7 : WhoCalls(op, x, Plan(op, x)[i]) BY <1>2, <2>1, <2>2 DEF WhoCalls
  <2>5. \A i, k \in 1..7 : Ordered(Plan(op, x), i, k) BY <2>1 DEF Ordered
  <2>6. Has(Plan(op, x), "insert") /\ Has(Plan(op, x), "mirror") /\ Has(Plan(op, x), "agent")
        BY <2>1 DEF Has
  <2>7. Len(Plan(op, x)) \in 1..7 BY <2>3
  <2>8. \A i \in 1..Len(Plan(op, x)) : WhoCalls(op, x, Plan(op, x)[i]) BY <2>3, <2>4
  <2>9. \A i, k \in 1..Len(Plan(op, x)) : Ordered(Plan(op, x), i, k) BY <2>3, <2>5
  <2> QED BY <1>2, <2>6, <2>7, <2>8, <2>9, Zenon DEF Creates
<1>3. CASE op = "runtime_request" /\ KindOf(x) = "voice"
  <2>1. Plan(op, x) = <<"insert", "mirror", "audit", "event">> BY <1>3 DEF Plan
  <2>2. x \in Sessions BY HandoffAssumption, <1>3 DEF Targets, Handoff, KindOf, Sessions
  <2> QED BY <1>3, <2>1, <2>2 DEF WhoCalls, Ordered, Has
<1>4. CASE op = "request" /\ KindOf(x) = "tua"
  <2>1. Plan(op, x) = <<"insert", "audit", "event">> BY <1>4 DEF Plan
  <2>2. x \in Requests /\ x \notin Sessions BY HandoffAssumption, <1>4 DEF Targets, Handoff, KindOf, Sessions
  <2> QED BY <1>4, <2>1, <2>2 DEF WhoCalls, Ordered, Has
<1>5. CASE op = "request" /\ KindOf(x) # "tua"
  <2>1. Plan(op, x) = <<"insert", "row", "audit", "mirror", "event">> BY <1>5 DEF Plan
  <2>2. x \in Sessions BY HandoffAssumption, <1>5 DEF Targets, Handoff, KindOf, Sessions
  <2> QED BY <1>5, <2>1, <2>2 DEF WhoCalls, Ordered, Has
<1>6. CASE op = "session"
  <2>1. Plan(op, x) = <<"insert", "row", "audit", "mirror", "event">> BY <1>6 DEF Plan
  <2>2. x \in Sessions BY HandoffAssumption, <1>6 DEF Targets, Handoff, KindOf, Sessions
  <2> QED BY <1>6, <2>1, <2>2 DEF WhoCalls, Ordered, Has
<1>7. CASE op = "opening"
  <2>1. Plan(op, x) = <<"insert", "remark", "row", "audit", "mirror", "event">> BY <1>7 DEF Plan
  <2>2. x \in Sessions BY HandoffAssumption, <1>7 DEF Targets, Handoff, KindOf, Sessions
  <2>3. Len(Plan(op, x)) = 6 BY <2>1
  <2>4. \A i \in 1..6 : WhoCalls(op, x, Plan(op, x)[i]) BY <1>7, <2>1, <2>2 DEF WhoCalls
  <2>5. \A i, k \in 1..6 : Ordered(Plan(op, x), i, k) BY <2>1 DEF Ordered
  <2>6. Has(Plan(op, x), "insert") /\ Has(Plan(op, x), "row") /\ Has(Plan(op, x), "mirror")
        BY <2>1 DEF Has
  <2>7. Len(Plan(op, x)) \in 1..7 BY <2>3
  <2>8. \A i \in 1..Len(Plan(op, x)) : WhoCalls(op, x, Plan(op, x)[i]) BY <2>3, <2>4
  <2>9. \A i, k \in 1..Len(Plan(op, x)) : Ordered(Plan(op, x), i, k) BY <2>3, <2>5
  <2> QED BY <1>7, <2>6, <2>7, <2>8, <2>9, Zenon DEF Creates
<1>8. CASE op = "message"
  <2>1. Plan(op, x) = <<"remark", "audit", "event">> BY <1>8 DEF Plan
  <2>2. x \in Sessions BY HandoffAssumption, <1>8 DEF Targets, Handoff, KindOf, Sessions
  <2> QED BY <1>8, <2>1, <2>2 DEF WhoCalls, Ordered, Has
<1>9. CASE op = "note"
  <2>1. Plan(op, x) = <<"notes", "note", "audit", "event", "mirror">> BY <1>9 DEF Plan
  <2>2. x \in Sessions BY HandoffAssumption, <1>9 DEF Targets, Handoff, KindOf, Sessions
  <2> QED BY <1>9, <2>1, <2>2 DEF WhoCalls, Ordered, Has
<1>10. CASE op \in {"return", "close"}
  <2>1. Plan(op, x) = <<"update", "audit", "event", "mirror">> BY <1>10 DEF Plan
  <2>2. x \in Sessions BY HandoffAssumption, <1>10 DEF Targets, Handoff, KindOf, Sessions
  <2> QED BY <1>10, <2>1, <2>2 DEF WhoCalls, Ordered, Has
<1>11. CASE op = "context"
  <2>1. Plan(op, x) = <<"agent", "register", "audit", "event">> BY <1>11 DEF Plan
  <2> QED BY <1>11, <2>1 DEF WhoCalls, Ordered, Has
<1>12. CASE op = "approval"
  <2>1. Plan(op, x) = <<"agent", "writeback", "event", "audit", "event">> BY <1>12 DEF Plan
  <2>2. Len(Plan(op, x)) = 5 BY <2>1
  <2>3. \A i \in 1..5 : WhoCalls(op, x, Plan(op, x)[i])
    <3>1. \A i \in 1..5 : Plan(op, x)[i] \in {"agent", "writeback", "event", "audit"} BY <2>1
    <3> QED BY <1>12, <3>1 DEF WhoCalls
  <2>4. \A i, k \in 1..5 : Ordered(Plan(op, x), i, k) BY <2>1 DEF Ordered
  <2>5. Len(Plan(op, x)) \in 1..7 BY <2>2
  <2>6. \A i \in 1..Len(Plan(op, x)) : WhoCalls(op, x, Plan(op, x)[i]) BY <2>2, <2>3
  <2>7. \A i, k \in 1..Len(Plan(op, x)) : Ordered(Plan(op, x), i, k) BY <2>2, <2>4
  <2>8. Has(Plan(op, x), "agent") BY <2>1 DEF Has
  <2> QED BY <1>12, <2>5, <2>6, <2>7, <2>8 DEF Creates
<1>13. CASE op = "refused"
  <2>1. Plan(op, x) = <<"audit">> BY <1>13 DEF Plan
  <2> QED BY <1>13, <2>1 DEF WhoCalls, Ordered, Has
<1>14. KindOf(x) \in Kinds BY DEF KindOf, Kinds
<1> QED BY <1>1, <1>2, <1>3, <1>4, <1>5, <1>6, <1>7, <1>8, <1>9, <1>10, <1>11, <1>12, <1>13, <1>14
    DEF Ops, Kinds

\* The call that comes now.
Here(j) == Plan(j.op, j.on)[j.at]

\* What is known of a busy handler.
LEMMA BusyHandler ==
  ASSUME Inv, NEW h \in Handlers, job[h] # NoJob
  PROVE  /\ job[h] \in Job /\ FollowsPlan(job[h]) /\ JobOK(job[h])
         /\ PlanOK(job[h].op, job[h].on, Plan(job[h].op, job[h].on))
         /\ job[h].at \in 1..7
<1>1. job[h] \in Job /\ FollowsPlan(job[h]) /\ JobOK(job[h]) BY DEF Inv, TypeOK, JobsOK
<1>2. job[h].op \in Ops \ {"idle"} /\ job[h].on \in Targets(job[h].op) BY <1>1 DEF FollowsPlan, Job
<1>3. job[h].at \in 1..7 BY <1>1 DEF Job
<1> QED BY <1>1, <1>2, <1>3, PlansFit

\* What remains of a plan after the call that comes now.
LEMMA Coming ==
  ASSUME NEW j, FollowsPlan(j), j # NoJob, PlanOK(j.op, j.on, Plan(j.op, j.on)), j.at \in 1..7,
         NEW k, k.op = j.op, k.on = j.on, k.at = j.at + 1
  PROVE  /\ WhoCalls(j.op, j.on, Here(j)) /\ Due(j, Here(j))
         /\ \A step : Due(j, step) <=> (step = Here(j) \/ Due(k, step))
         /\ \A step : Due(k, step) => WhoCalls(j.op, j.on, step)
         /\ Here(j) \notin {"audit", "event"} => ~Due(k, Here(j))
         /\ j.at = Last(j) => \A step : ~Due(k, step)
<1> DEFINE p == Plan(j.op, j.on)
<1>1. /\ j.at \in 1..Len(p) /\ Len(p) \in 1..7 /\ Last(j) = Len(p) /\ Last(k) = Len(p)
      /\ \A i \in 1..Len(p) : WhoCalls(j.op, j.on, p[i])
      /\ \A i, l \in 1..Len(p) : Ordered(p, i, l)
      BY DEF FollowsPlan, PlanOK, Last
<1> HIDE DEF p
<1>2. \A step : /\ Due(j, step) <=> \E i \in j.at..Len(p) : p[i] = step
                /\ Due(k, step) <=> \E i \in j.at + 1..Len(p) : p[i] = step
      BY <1>1 DEF Due, p
<1>3. Here(j) = p[j.at] BY DEF Here, p
<1>4. ASSUME NEW step PROVE Due(j, step) <=> (step = Here(j) \/ Due(k, step))
      BY <1>1, <1>2, <1>3
<1>5. ASSUME Here(j) \notin {"audit", "event"} PROVE ~Due(k, Here(j))
      BY <1>1, <1>2, <1>3, <1>5 DEF Ordered
<1>6. ASSUME j.at = Last(j), NEW step PROVE ~Due(k, step) BY <1>1, <1>2, <1>6
<1>7. ASSUME NEW step, Due(k, step) PROVE WhoCalls(j.op, j.on, step) BY <1>1, <1>2, <1>7
<1> QED BY <1>1, <1>3, <1>4, <1>5, <1>6, <1>7

\* What is still due, and what is not any more, when a call comes.
LEMMA InOrder ==
  ASSUME NEW j, FollowsPlan(j), j # NoJob, PlanOK(j.op, j.on, Plan(j.op, j.on)), j.at \in 1..7,
         NEW k, k.op = j.op, k.on = j.on, k.at = j.at + 1
  PROVE  /\ Here(j) = "mirror" => \A step \in {"insert", "row", "update", "note"} : ~Due(j, step)
         /\ Here(j) = "note" => ~Due(j, "notes")
         /\ Here(j) = "writeback" => ~Due(j, "agent")
         /\ Here(j) = "insert" /\ j.on \in Sessions =>
              Due(k, "mirror") /\ (j.op = "runtime_request" \/ Due(k, "row"))
         /\ Here(j) \in {"update", "note"} => Due(k, "mirror")
<1> DEFINE p == Plan(j.op, j.on)
<1>1. /\ j.at \in 1..Len(p) /\ Len(p) \in 1..7
      /\ \A i \in 1..Len(p) : WhoCalls(j.op, j.on, p[i])
      /\ \A i, l \in 1..Len(p) : Ordered(p, i, l)
      BY DEF FollowsPlan, PlanOK, Last
<1>2. /\ Creates(j.op) /\ j.on \in Sessions =>
           Has(p, "mirror") /\ (j.op = "runtime_request" \/ Has(p, "row"))
      /\ j.op \in {"return", "close", "note"} => Has(p, "mirror")
      BY DEF PlanOK
<1> HIDE DEF p
<1>3. \A step : /\ Due(j, step) <=> \E i \in j.at..Len(p) : p[i] = step
                /\ Due(k, step) <=> \E i \in j.at + 1..Len(p) : p[i] = step
      BY <1>1 DEF Due, p, Last
<1>4. Here(j) = p[j.at] BY DEF Here, p
<1>5. WhoCalls(j.op, j.on, Here(j)) BY <1>1, <1>4
<1>6. ASSUME Here(j) = "mirror", NEW step \in {"insert", "row", "update", "note"} PROVE ~Due(j, step)
  <2>1. ASSUME NEW i \in j.at..Len(p), p[i] = step PROVE FALSE
    <3>1. i \in 1..Len(p) /\ j.at <= i BY <1>1, <2>1
    <3>2. Ordered(p, i, j.at) BY <1>1, <3>1
    <3> QED BY <1>1, <1>4, <1>6, <2>1, <3>1, <3>2 DEF Ordered
  <2> QED BY <1>3, <2>1
<1>7. /\ Here(j) = "note" => ~Due(j, "notes")
      /\ Here(j) = "writeback" => ~Due(j, "agent")
      BY <1>1, <1>3, <1>4 DEF Ordered
<1>8. ASSUME NEW first \in {"insert", "update", "note"}, NEW then \in {"mirror", "row"},
             Here(j) = first, Has(p, then), first = "insert" \/ then = "mirror"
      PROVE  Due(k, then)
  <2>1. PICK i \in 1..Len(p) : p[i] = then BY <1>8 DEF Has
  <2>2. j.at < i BY <1>1, <1>4, <1>8, <2>1 DEF Ordered
  <2> QED BY <1>1, <1>3, <2>1, <2>2
<1>9. ASSUME Here(j) = "insert", j.on \in Sessions
      PROVE  Due(k, "mirror") /\ (j.op = "runtime_request" \/ Due(k, "row"))
      BY <1>2, <1>5, <1>8, <1>9 DEF WhoCalls
<1>10. ASSUME Here(j) \in {"update", "note"} PROVE Due(k, "mirror")
       BY <1>2, <1>5, <1>8, <1>10 DEF WhoCalls
<1> QED BY <1>6, <1>7, <1>9, <1>10

-----------------------------------------------------------------------------
(* One call of a handler.                                                  *)

NextJob == [op : Ops, on : Sessions \cup Requests \cup {Agent, None}, at : 1..8,
            seen : SessionStates \cup {"absent", None}, notes : Nat, list : SUBSET Kinds]

\* Handler h has made its call, and holds k.
Moves(h, k) == /\ k.op = job[h].op /\ k.on = job[h].on /\ k.at = job[h].at + 1
               /\ job' = [job EXCEPT ![h] = IF job[h].at = Last(job[h]) THEN NoJob ELSE k]

LEMMA Moving ==
  ASSUME Inv, NEW h \in Handlers, job[h] # NoJob,
         NEW j \in Job, j.op = job[h].op, j.on = job[h].on, j.at = job[h].at, Advance(h, j)
  PROVE  \E k \in NextJob : Moves(h, k) /\ k.seen = j.seen /\ k.notes = j.notes /\ k.list = j.list
<1> DEFINE k == [j EXCEPT !.at = @ + 1]
<1>1. /\ k \in NextJob /\ k.op = j.op /\ k.on = j.on /\ k.at = j.at + 1
      /\ k.seen = j.seen /\ k.notes = j.notes /\ k.list = j.list
      BY DEF Job, NextJob
<1>2. Last(j) = Last(job[h]) BY DEF Last
<1>3. Moves(h, k) BY <1>1, <1>2 DEF Moves, Advance
<1> QED BY <1>1, <1>3

LEMMA Proceeding ==
  ASSUME Inv, NEW h \in Handlers, job[h] # NoJob, Proceed(h)
  PROVE  \E k \in NextJob : /\ Moves(h, k) /\ k.seen = job[h].seen
                            /\ k.notes = job[h].notes /\ k.list = job[h].list
BY BusyHandler, Moving DEF Proceed

\* What is known when a handler makes a call.
LEMMA AtCall ==
  ASSUME Inv, NEW h \in Handlers, job[h] # NoJob, NEW k, Moves(h, k)
  PROVE  LET j == job[h] IN
         /\ WhoCalls(j.op, j.on, Here(j)) /\ Due(j, Here(j))
         /\ \A step : Due(j, step) <=> (step = Here(j) \/ Due(k, step))
         /\ \A step : Due(k, step) => WhoCalls(j.op, j.on, step)
         /\ Here(j) \notin {"audit", "event"} => ~Due(k, Here(j))
         /\ j.at = Last(j) => \A step : ~Due(k, step)
         /\ Here(j) = "mirror" => \A step \in {"insert", "row", "update", "note"} : ~Due(j, step)
         /\ Here(j) = "note" => ~Due(j, "notes")
         /\ Here(j) = "writeback" => ~Due(j, "agent")
         /\ Here(j) = "insert" /\ j.on \in Sessions =>
              Due(k, "mirror") /\ (j.op = "runtime_request" \/ Due(k, "row"))
         /\ Here(j) \in {"update", "note"} => Due(k, "mirror")
<1>1. /\ FollowsPlan(job[h]) /\ job[h].at \in 1..7
      /\ PlanOK(job[h].op, job[h].on, Plan(job[h].op, job[h].on))
      BY BusyHandler
<1>2. k.op = job[h].op /\ k.on = job[h].on /\ k.at = job[h].at + 1 BY DEF Moves
<1>3. PICK j : j = job[h] OBVIOUS
<1>4. /\ FollowsPlan(j) /\ j # NoJob /\ PlanOK(j.op, j.on, Plan(j.op, j.on)) /\ j.at \in 1..7
      /\ k.op = j.op /\ k.on = j.on /\ k.at = j.at + 1
      BY <1>1, <1>2, <1>3
<1> HIDE <1>3
<1>5. /\ WhoCalls(j.op, j.on, Here(j)) /\ Due(j, Here(j))
      /\ \A step : Due(j, step) <=> (step = Here(j) \/ Due(k, step))
      /\ \A step : Due(k, step) => WhoCalls(j.op, j.on, step)
      /\ Here(j) \notin {"audit", "event"} => ~Due(k, Here(j))
      /\ j.at = Last(j) => \A step : ~Due(k, step)
      BY <1>4, Coming
<1>6. /\ Here(j) = "mirror" => \A step \in {"insert", "row", "update", "note"} : ~Due(j, step)
      /\ Here(j) = "note" => ~Due(j, "notes")
      /\ Here(j) = "writeback" => ~Due(j, "agent")
      /\ Here(j) = "insert" /\ j.on \in Sessions =>
           Due(k, "mirror") /\ (j.op = "runtime_request" \/ Due(k, "row"))
      /\ Here(j) \in {"update", "note"} => Due(k, "mirror")
      BY <1>4, InOrder
<1> QED BY <1>3, <1>5, <1>6

\* A session that a handler works on, and nobody else that has not been noticed.
LEMMA Alone ==
  ASSUME Inv, NEW g \in Handlers, NEW h \in Handlers, g # h, NEW x \in Touches(job[g]), x \notin crossed
  PROVE  x \notin Touches(job[h])
BY DEF Inv, Noticed

LEMMA WorksOnSessions == ASSUME NEW op \in Works, NEW x \in Targets(op) PROVE x \in Sessions
BY DEF Works, Targets, Sessions

\* Its half done work is as it was when others leave its session alone.
LEMMA JobStays ==
  ASSUME Inv, NEW j \in Job, JobOK(j), j # NoJob, FollowsPlan(j), crossed' = crossed,
         \A s \in (Sessions \cap Touches(j)) \ crossed :
           /\ state'[s] = state[s] /\ summary'[s] = summary[s] /\ mirror'[s] = mirror[s]
           /\ remarks'[s] = remarks[s],
         \A s \in Sessions : given[s] <= given'[s] /\ given[s] \in Nat /\ given'[s] \in Nat,
         Agent \in Touches(j) \ crossed => UNCHANGED capabilities
  PROVE  JobOK(j)'
<1>1. NotesFollow(j)'
  <2>0. CASE ~(j.op = "note" /\ ~Due(j, "notes") /\ Due(j, "note"))
        BY <2>0 DEF NotesFollow, Due, Last
  <2>1. CASE j.op = "note" /\ ~Due(j, "notes") /\ Due(j, "note")
    <3>1. j.on \in Sessions /\ j.on \in Touches(j) /\ NotesFollow(j)
          BY <2>1 DEF JobOK, FollowsPlan, Targets, Sessions, Touches
    <3>2. j.notes <= given[j.on] /\ (j.on \notin crossed => j.notes = remarks[j.on])
          BY <2>1, <3>1 DEF NotesFollow
    <3>3. j.notes \in Nat BY DEF Job
    <3>4. j.notes <= given'[j.on] /\ (j.on \notin crossed' => j.notes = remarks'[j.on])
          BY <3>1, <3>2, <3>3
    <3> QED BY <3>4 DEF NotesFollow
  <2> QED BY <2>0, <2>1
<1>2. ListFollows(j)' BY DEF JobOK, ListFollows
<1>3. ASSUME NEW s \in Touches(j) \cap Sessions, s \notin crossed PROVE MirrorFollows(j)'
  <2>1. MirrorFollows(j) /\ s = j.on BY <1>3, HandoffAssumption DEF JobOK, Touches
  <2>2. UNCHANGED <<state[s], summary[s], mirror[s]>> BY <1>3
  <2> QED BY <2>1, <2>2 DEF MirrorFollows, Agrees
<1>4. HasRead(j)' BY DEF JobOK, HasRead
<1> QED BY <1>1, <1>2, <1>3, <1>4 DEF JobOK

LEMMA TouchesIdle == Touches(NoJob) = {}
BY HandoffAssumption DEF Touches, NoJob

\* The rest of the invariant follows when what the handler has half done is in order, and
\* it has left alone the sessions that it does not work on.
LEMMA CallStep ==
  ASSUME Inv, NEW h \in Handlers, job[h] # NoJob, NEW k \in NextJob, Moves(h, k), JobOK(k)',
         job' \in [Handlers -> Job] => TypeOK', crossed' = crossed,
         \A s \in Sessions \ Touches(job[h]) :
           /\ state'[s] = state[s] /\ summary'[s] = summary[s] /\ mirror'[s] = mirror[s]
           /\ remarks'[s] = remarks[s] /\ given'[s] = given[s],
         \A s \in Sessions : /\ state[s] # "absent" => state'[s] # "absent"
                            /\ given[s] <= given'[s],
         Agent \notin Touches(job[h]) => UNCHANGED capabilities,
         RemarksAreKept', AgentIsAsRegistered', OwnOK', ToldItsOwn'
  PROVE  Inv'
<1>1. /\ k.op = job[h].op /\ k.on = job[h].on /\ k.at = job[h].at + 1 /\ Last(k) = Last(job[h])
      /\ job \in [Handlers -> Job]
      BY DEF Moves, Last, Inv, TypeOK
<1>2. /\ FollowsPlan(job[h]) /\ job[h].at \in 1..7
      /\ PlanOK(job[h].op, job[h].on, Plan(job[h].op, job[h].on))
      BY BusyHandler
<1>3. Last(job[h]) \in 1..7 BY <1>2 DEF PlanOK, Last
<1>4. /\ job'[h] = IF job[h].at = Last(job[h]) THEN NoJob ELSE k
      /\ \A g \in Handlers \ {h} : job'[g] = job[g]
      BY <1>1 DEF Moves
<1>5. NoJob \in Job BY DEF NoJob, Job, Ops
<1>6. job[h].at # Last(job[h]) => k \in Job /\ k.at \in 1..Last(k)
      BY <1>1, <1>2, <1>3 DEF FollowsPlan, Job, NextJob
<1>7. TypeOK' BY <1>1, <1>4, <1>5, <1>6 DEF Moves
<1>8. Touches(job'[h]) \subseteq Touches(job[h])
      BY <1>1, <1>4, TouchesIdle DEF Touches
<1>9. ASSUME NEW g \in Handlers PROVE FollowsPlan(job[g])'
  <2>1. FollowsPlan(job[g]) BY DEF Inv
  <2>2. CASE g # h
    <3>1. job'[g] = job[g] BY <1>4, <2>2
    <3>2. job[g] # NoJob /\ job[g].op \in Works => job[g].on \in Sessions
          BY <2>1, WorksOnSessions DEF FollowsPlan
    <3> QED BY <2>1, <3>1, <3>2 DEF FollowsPlan, Last
  <2>3. CASE g = h /\ job[h].at # Last(job[h])
    <3>1. job'[g] = k BY <1>4, <2>3
    <3>2. job[h].op \in Works => job[h].on \in Sessions
          BY <1>2, WorksOnSessions DEF FollowsPlan
    <3>3. /\ k.op # "idle" /\ k.on \in Targets(k.op) /\ k.at \in 1..Last(k)
          /\ k.op \in Works => state'[k.on] # "absent"
          BY <1>1, <1>2, <1>6, <2>3, <3>2 DEF FollowsPlan
    <3> QED BY <3>1, <3>3 DEF FollowsPlan, Last
  <2> QED BY <1>4, <2>2, <2>3 DEF FollowsPlan
<1>10. Noticed' BY <1>4, <1>8 DEF Inv, Noticed
<1>11. ASSUME NEW g \in Handlers, job'[g] # NoJob PROVE JobOK(job[g])'
  <2>1. CASE g = h BY <1>4, <1>11, <2>1
  <2>2. CASE g # h
    <3>1. PICK j : j = job[g] OBVIOUS
    <3>2. /\ j \in Job /\ j # NoJob /\ FollowsPlan(j) /\ JobOK(j) /\ job'[g] = j
          BY <1>4, <1>11, <2>2, <3>1, BusyHandler
    <3>3. ASSUME NEW x \in Touches(j) \ crossed PROVE x \notin Touches(job[h])
          BY <2>2, <3>1, <3>3, Alone
    <3>4. \A s \in Sessions : given[s] \in Nat /\ given'[s] \in Nat BY <1>7 DEF Inv, TypeOK
    <3>5. JobOK(j)' BY <3>2, <3>3, <3>4, JobStays
    <3> QED BY <3>2, <3>5
  <2> QED BY <2>1, <2>2
<1>12. ASSUME NEW s \in Sessions \ (crossed' \cup Busy') PROVE Agrees(s)'
  <2>1. CASE s \notin Touches(job[h])
    <3>1. s \notin Busy BY <1>4, <1>12, <2>1 DEF Busy
    <3>2. Agrees(s) BY <1>12, <3>1 DEF Inv, Consistent, MirrorAgrees, Agrees
    <3> QED BY <2>1, <3>2 DEF Agrees
  <2>2. CASE s \in Touches(job[h])
    <3>1. job'[h] = NoJob /\ job[h].at = Last(job[h])
          BY <1>1, <1>4, <1>12, <2>2 DEF Busy, Touches
    <3>2. s \in Touches(k) /\ s = k.on /\ MirrorFollows(k)'
          BY <1>1, <1>12, <2>2, HandoffAssumption DEF Touches, JobOK
    <3>3. ~Due(k, "mirror") BY <3>1, AtCall
    <3> QED BY <3>2, <3>3 DEF MirrorFollows
  <2> QED BY <2>1, <2>2
<1>13. MirrorAgrees' BY <1>12 DEF MirrorAgrees, Agrees
<1> QED BY <1>7, <1>9, <1>10, <1>11, <1>13 DEF Inv, JobsOK, Consistent

\* What a call leaves as it was half done.
LEMMA MirrorCarried ==
  ASSUME Inv, NEW h \in Handlers, job[h] # NoJob, NEW k, Moves(h, k), k.seen = job[h].seen,
         Here(job[h]) \notin {"insert", "row", "mirror", "update", "note"},
         UNCHANGED <<state, summary, mirror, crossed>>
  PROVE  \A s \in Touches(k) \cap Sessions : s \notin crossed' => MirrorFollows(k)'
<1> SUFFICES ASSUME NEW s \in Touches(k) \cap Sessions, s \notin crossed PROVE MirrorFollows(k)'
    OBVIOUS
<1>1. PICK j : j = job[h] OBVIOUS
<1>2. /\ k.op = j.op /\ k.on = j.on /\ k.seen = j.seen
      /\ Here(j) \notin {"insert", "row", "mirror", "update", "note"}
      /\ \A step : Due(j, step) <=> (step = Here(j) \/ Due(k, step))
      /\ JobOK(j)
      BY <1>1, AtCall, BusyHandler DEF Moves
<1>3. s \in Touches(j) BY <1>2 DEF Touches
<1>4. MirrorFollows(j) BY <1>2, <1>3 DEF JobOK
<1>5. \A step \in {"insert", "row", "mirror", "update", "note"} : Due(j, step) <=> Due(k, step)
      BY <1>2
<1> QED BY <1>2, <1>4, <1>5 DEF MirrorFollows, Agrees

LEMMA ReadCarried ==
  ASSUME Inv, NEW h \in Handlers, job[h] # NoJob, NEW k, Moves(h, k),
         k.seen = job[h].seen, Here(job[h]) # "row"
  PROVE  HasRead(k)
<1>1. PICK j : j = job[h] OBVIOUS
<1>2. /\ k.op = j.op /\ k.on = j.on /\ k.seen = j.seen /\ Here(j) # "row" /\ HasRead(j)
      /\ \A step : Due(j, step) <=> (step = Here(j) \/ Due(k, step))
      BY <1>1, AtCall, BusyHandler DEF Moves, JobOK
<1>3. Due(j, "row") <=> Due(k, "row") BY <1>2
<1> QED BY <1>2, <1>3 DEF HasRead

LEMMA NotesCarried ==
  ASSUME Inv, NEW h \in Handlers, job[h] # NoJob, NEW k, Moves(h, k),
         \/ k.op # "note"
         \/ /\ Here(job[h]) \notin {"notes", "note"} /\ k.notes = job[h].notes
            /\ UNCHANGED <<remarks, given, crossed>>
  PROVE  NotesFollow(k)'
<1>1. CASE k.op # "note" BY <1>1 DEF NotesFollow
<1>2. CASE /\ Here(job[h]) \notin {"notes", "note"} /\ k.notes = job[h].notes
           /\ UNCHANGED <<remarks, given, crossed>>
  <2>1. PICK j : j = job[h] OBVIOUS
  <2>2. /\ k.op = j.op /\ k.on = j.on /\ k.notes = j.notes
        /\ Here(j) \notin {"notes", "note"}
        /\ \A step : Due(j, step) <=> (step = Here(j) \/ Due(k, step))
        /\ NotesFollow(j)
        BY <1>2, <2>1, AtCall, BusyHandler DEF Moves, JobOK
  <2>3. \A step \in {"notes", "note"} : Due(j, step) <=> Due(k, step) BY <2>2
  <2> QED BY <1>2, <2>2, <2>3 DEF NotesFollow
<1> QED BY <1>1, <1>2

LEMMA ListCarried ==
  ASSUME Inv, NEW h \in Handlers, job[h] # NoJob, NEW k, Moves(h, k),
         \/ k.op \notin {"runtime_request", "approval"}
         \/ /\ Here(job[h]) # "agent" /\ k.list = job[h].list
            /\ UNCHANGED <<capabilities, crossed>>
  PROVE  ListFollows(k)'
<1>1. CASE k.op \notin {"runtime_request", "approval"}
  <2>1. Agent \in Touches(k) => k.op = "context" BY <1>1, HandoffAssumption DEF Touches
  <2> QED BY <2>1 DEF ListFollows, Touches
<1>2. CASE /\ Here(job[h]) # "agent" /\ k.list = job[h].list
           /\ UNCHANGED <<capabilities, crossed>>
  <2>1. PICK j : j = job[h] OBVIOUS
  <2>2. /\ k.op = j.op /\ k.on = j.on /\ k.list = j.list
        /\ Here(j) # "agent"
        /\ \A step : Due(j, step) <=> (step = Here(j) \/ Due(k, step))
        /\ ListFollows(j)
        BY <1>2, <2>1, AtCall, BusyHandler DEF Moves, JobOK
  <2>3. Touches(k) = Touches(j) BY <2>2 DEF Touches
  <2> QED BY <1>2, <2>2, <2>3 DEF ListFollows
<1> QED BY <1>1, <1>2

\* The rows of the calls that change none of what the handlers have half done.
Quiet == UNCHANGED <<state, summary, remarks, mirror, capabilities, newest, given, registered, crossed>>

LEMMA QuietStep ==
  ASSUME Inv, NEW h \in Handlers, job[h] # NoJob, NEW k \in NextJob, Moves(h, k), JobOK(k)',
         job' \in [Handlers -> Job] => TypeOK', Quiet,
         \A w \in Handoff : told'[w] \in Sessions => told[w] = told'[w]
  PROVE  Inv'
<1>1. RemarksAreKept' BY DEF Inv, Consistent, RemarksAreKept, Quiet
<1>2. AgentIsAsRegistered' BY DEF Inv, Consistent, AgentIsAsRegistered, Quiet
<1>3. OwnOK' BY DEF Inv, OwnOK, Quiet
<1>4. ToldItsOwn' BY DEF Inv, ToldItsOwn, Quiet
<1>5. \A s \in Sessions : given[s] <= given'[s] BY DEF Quiet, Inv, TypeOK
<1> QED BY <1>1, <1>2, <1>3, <1>4, <1>5, CallStep DEF Quiet

LEMMA AtHere ==
  ASSUME Inv, NEW h \in Handlers, NEW step, At(h, step)
  PROVE  job[h] # NoJob /\ Here(job[h]) = step /\ job[h] \in Job
BY BusyHandler DEF At, Here

LEMMA RecordStep == ASSUME Inv, NEW h \in Handlers, Record(h) PROVE Inv'
<1>1. /\ job[h] # NoJob /\ Here(job[h]) \in {"audit", "event"} /\ job[h] \in Job
      /\ Proceed(h) /\ UNCHANGED <<tables, calls, crashes, history>>
      BY AtHere DEF Record
<1>2. PICK k \in NextJob : /\ Moves(h, k) /\ k.seen = job[h].seen
                           /\ k.notes = job[h].notes /\ k.list = job[h].list
      BY <1>1, Proceeding
<1>3. Quiet BY <1>1 DEF Quiet, tables, history
<1>4. JobOK(k)' BY ReadCarried, <1>1, <1>2, <1>3, MirrorCarried, NotesCarried, ListCarried DEF JobOK, Quiet
<1>5. job[h].op = "runtime_request" => job[h].on \in Handoff
      BY <1>1, BusyHandler DEF FollowsPlan, Targets
<1>6. \A w \in Handoff : told'[w] \in Sessions => told[w] = told'[w]
      BY HandoffAssumption DEF Record, Inv, TypeOK
<1>7. job' \in [Handlers -> Job] => TypeOK'
      BY <1>1, <1>5 DEF Record, Inv, TypeOK, tables, history
<1> QED BY <1>1, <1>2, <1>3, <1>4, <1>6, <1>7, QuietStep

LEMMA InsertRequestStep == ASSUME Inv, NEW h \in Handlers, InsertRequest(h) PROVE Inv'
<1>1. /\ job[h] # NoJob /\ Here(job[h]) = "insert" /\ job[h] \in Job
      /\ job[h].on \in Requests /\ request' = [request EXCEPT ![job[h].on] = "requested"] /\ Proceed(h)
      /\ UNCHANGED <<state, summary, remarks, newest, mirror, capabilities, told, calls, crashes, history>>
      BY AtHere DEF InsertRequest
<1>2. PICK k \in NextJob : /\ Moves(h, k) /\ k.seen = job[h].seen
                           /\ k.notes = job[h].notes /\ k.list = job[h].list
      BY <1>1, Proceeding
<1>3. Quiet BY <1>1 DEF Quiet, history
<1>4. Touches(k) \cap Sessions = {} BY <1>1, <1>2, HandoffAssumption DEF Touches, Moves
<1>5. JobOK(k)' BY ReadCarried, <1>1, <1>2, <1>3, <1>4, NotesCarried, ListCarried DEF JobOK, Quiet
<1>6. job' \in [Handlers -> Job] => TypeOK' BY <1>1 DEF Inv, TypeOK, history
<1> QED BY <1>1, <1>2, <1>3, <1>5, <1>6, QuietStep

LEMMA ReadRowStep == ASSUME Inv, NEW h \in Handlers, ReadRow(h) PROVE Inv'
<1> DEFINE j == [job[h] EXCEPT !.seen = state[job[h].on]]
<1>1. /\ job[h] # NoJob /\ Here(job[h]) = "row" /\ job[h] \in Job /\ Advance(h, j)
      /\ UNCHANGED <<tables, told, calls, crashes, history>>
      BY AtHere DEF ReadRow
<1>2. WhoCalls(job[h].op, job[h].on, "row") BY <1>1, BusyHandler DEF PlanOK, FollowsPlan, Here, Last
<1>3. job[h].on \in Sessions /\ job[h].op \in {"request", "session", "opening"}
      BY <1>2 DEF WhoCalls
<1>4. /\ j \in Job /\ j.op = job[h].op /\ j.on = job[h].on /\ j.at = job[h].at
      /\ j.seen = state[job[h].on]
      BY <1>1, <1>3 DEF Job, Inv, TypeOK
<1>5. PICK k \in NextJob : Moves(h, k) /\ k.seen = state[job[h].on]
      BY <1>1, <1>4, Moving
<1>6. Quiet /\ UNCHANGED <<told, calls, crashes, request>> BY <1>1 DEF Quiet, tables, history
<1>7. MirrorFollows(k)' \/ k.on \in crossed
  <2>1. PICK i : i = job[h] OBVIOUS
  <2>2. /\ k.op = i.op /\ k.on = i.on /\ k.seen = state[k.on] /\ Here(i) = "row"
        /\ \A step : Due(i, step) <=> (step = Here(i) \/ Due(k, step))
        /\ JobOK(i) /\ i.op \in {"request", "session", "opening"} /\ i.on \in Sessions
        BY <1>1, <1>3, <1>5, <2>1, AtCall, BusyHandler DEF Moves
  <2>3. i.on \notin crossed => MirrorFollows(i) BY <2>2 DEF JobOK, Touches
  <2>4. /\ Due(i, "mirror") <=> Due(k, "mirror")
        /\ Creates(k.op) /\ k.op # "runtime_request"
        BY <2>2 DEF Creates
  <2> QED BY <1>6, <2>2, <2>3, <2>4 DEF MirrorFollows, Agrees, Quiet
<1>8. k.op \notin {"note", "runtime_request", "approval"} BY <1>3, <1>5 DEF Moves
<1>9. HasRead(k)
  <2>1. k.seen \in SessionStates \cup {"absent"} BY <1>3, <1>5 DEF Inv, TypeOK
  <2> QED BY <2>1 DEF HasRead, SessionStates, None
<1>10. JobOK(k)'
       BY <1>1, <1>5, <1>6, <1>7, <1>8, <1>9, NotesCarried, ListCarried, HandoffAssumption
       DEF JobOK, Quiet, Touches
<1>11. job' \in [Handlers -> Job] => TypeOK' BY <1>6 DEF Quiet, Inv, TypeOK
<1> QED BY <1>1, <1>5, <1>6, <1>10, <1>11, QuietStep

LEMMA ReadNotesStep == ASSUME Inv, NEW h \in Handlers, ReadNotes(h) PROVE Inv'
<1> DEFINE j == [job[h] EXCEPT !.notes = remarks[job[h].on]]
<1>1. /\ job[h] # NoJob /\ Here(job[h]) = "notes" /\ job[h] \in Job /\ Advance(h, j)
      /\ UNCHANGED <<tables, told, calls, crashes, history>>
      BY AtHere DEF ReadNotes
<1>2. WhoCalls(job[h].op, job[h].on, "notes") BY <1>1, BusyHandler DEF PlanOK, FollowsPlan, Here, Last
<1>3. job[h].on \in Sessions /\ job[h].op = "note"
      BY <1>1, <1>2, BusyHandler DEF WhoCalls, FollowsPlan, Targets, Sessions
<1>4. /\ j \in Job /\ j.op = job[h].op /\ j.on = job[h].on /\ j.at = job[h].at
      /\ j.seen = job[h].seen /\ j.notes = remarks[job[h].on]
      BY <1>1, <1>3 DEF Job, Inv, TypeOK
<1>5. PICK k \in NextJob : Moves(h, k) /\ k.seen = job[h].seen /\ k.notes = remarks[job[h].on]
      BY <1>1, <1>4, Moving
<1>6. Quiet /\ UNCHANGED <<told, calls, crashes, request>> BY <1>1 DEF Quiet, tables, history
<1>7. k.op = "note" /\ k.on = job[h].on BY <1>3, <1>5 DEF Moves
<1>8. remarks[k.on] <= given[k.on] BY <1>3, <1>7 DEF Inv, Consistent, RemarksAreKept
<1>9. NotesFollow(k)' BY <1>5, <1>6, <1>7, <1>8 DEF NotesFollow, Quiet
<1>10. JobOK(k)' BY ReadCarried, <1>1, <1>5, <1>6, <1>7, <1>9, MirrorCarried, ListCarried DEF JobOK, Quiet
<1>11. job' \in [Handlers -> Job] => TypeOK' BY <1>6 DEF Quiet, Inv, TypeOK
<1> QED BY <1>1, <1>5, <1>6, <1>10, <1>11, QuietStep

LEMMA ReadAgentStep == ASSUME Inv, NEW h \in Handlers, ReadAgent(h) PROVE Inv'
<1> DEFINE j == [job[h] EXCEPT !.list = IF job[h].op = "context" /\ @ # {} THEN @
                                        ELSE capabilities]
<1>1. /\ job[h] # NoJob /\ Here(job[h]) = "agent" /\ job[h] \in Job /\ Advance(h, j)
      /\ UNCHANGED <<tables, told, calls, crashes, history>>
      BY AtHere DEF ReadAgent
<1>2. /\ j \in Job /\ j.op = job[h].op /\ j.on = job[h].on /\ j.at = job[h].at
      /\ j.seen = job[h].seen /\ j.notes = job[h].notes
      /\ job[h].op # "context" => j.list = capabilities
      BY <1>1 DEF Job, Inv, TypeOK
<1> HIDE DEF j
<1>3. PICK k \in NextJob : /\ Moves(h, k) /\ k.seen = job[h].seen /\ k.notes = job[h].notes
                           /\ job[h].op # "context" => k.list = capabilities
      BY <1>1, <1>2, Moving
<1>4. Quiet /\ UNCHANGED <<told, calls, crashes, request>> BY <1>1 DEF Quiet, tables, history
<1>5. ListFollows(k)' BY <1>3, <1>4 DEF ListFollows, Quiet, Moves
<1>6. JobOK(k)' BY ReadCarried, <1>1, <1>3, <1>4, <1>5, MirrorCarried, NotesCarried DEF JobOK, Quiet
<1>7. job' \in [Handlers -> Job] => TypeOK' BY <1>4 DEF Quiet, Inv, TypeOK
<1> QED BY <1>1, <1>3, <1>4, <1>6, <1>7, QuietStep

-----------------------------------------------------------------------------
(* The calls that write what handlers have half done.                      *)

LEMMA TargetTyped == ASSUME NEW op, NEW x PROVE Target(op, x) \in SessionStates
BY DEF Target, SessionStates

LEMMA FrontTyped ==
  ASSUME Inv, NEW s \in Sessions
  PROVE  /\ Front(s) \in [Requests -> TuaSessions \cup {None}]
         /\ \A r \in Requests : Front(s)[r] # None => RequestOf[Front(s)[r]] = r
BY HandoffAssumption DEF Inv, TypeOK, OwnOK, Front

\* What a runtime was told stays true while the summaries stay.
LEMMA ToldStays ==
  ASSUME Inv, told' = told, \A s \in Sessions : summary[s] # None => summary'[s] # None
  PROVE  ToldItsOwn'
BY DEF Inv, ToldItsOwn, SessionsOf

LEMMA InsertRowStep ==
  ASSUME Inv, NEW h \in Handlers, InsertRow(h), job[h].on \in Sessions,
         request' \in [Requests -> {"absent", "requested", "active"}], newest' = Front(job[h].on)
  PROVE  Inv'
<1> DEFINE s == job[h].on
<1>1. /\ job[h] # NoJob /\ Here(job[h]) = "insert" /\ job[h] \in Job /\ Proceed(h)
      /\ state' = [state EXCEPT ![s] = Target(job[h].op, s)]
      /\ UNCHANGED <<summary, remarks, mirror, capabilities, told, calls, crashes, history>>
      BY AtHere DEF InsertRow
<1>2. PICK k \in NextJob : /\ Moves(h, k) /\ k.seen = job[h].seen
                           /\ k.notes = job[h].notes /\ k.list = job[h].list
      BY <1>1, Proceeding
<1>3. UNCHANGED <<given, registered, crossed>> BY <1>1 DEF history
<1>4. MirrorFollows(k)' \/ s \in crossed
  <2>1. PICK i : i = job[h] OBVIOUS
  <2>2. /\ k.op = i.op /\ k.on = i.on /\ Here(i) = "insert" /\ i.on = s /\ JobOK(i)
        BY <1>1, <1>2, <2>1, BusyHandler DEF Moves
  <2>3. /\ ~Due(k, "insert") /\ Due(k, "mirror") /\ (k.op = "runtime_request" \/ Due(k, "row"))
        /\ WhoCalls(i.op, i.on, "insert")
        BY <1>1, <1>2, <2>1, <2>2, AtCall
  <2>4. \A step : Due(i, step) <=> (step = "insert" \/ Due(k, step))
        BY <1>1, <1>2, <2>1, AtCall
  <2>5. Due(i, "mirror") /\ Creates(i.op) BY <2>3, <2>4 DEF WhoCalls
  <2>6. s \notin crossed => MirrorFollows(i) BY <2>2, <2>5 DEF JobOK, Touches, Creates
  <2>7. s \notin crossed => mirror[s].summary = summary[s] BY <2>2, <2>5, <2>6 DEF MirrorFollows
  <2>8. state'[s] = Target(k.op, s) BY <1>1, <2>1, <2>2 DEF Inv, TypeOK
  <2> QED BY <1>1, <2>2, <2>5, <2>7, <2>8, <2>3 DEF MirrorFollows, Creates
<1>5. job[h].op # "note" /\ job[h].op # "refused"
      BY <1>1, <1>2, AtCall DEF WhoCalls, Creates
<1>6. JobOK(k)'
      BY ReadCarried, <1>1, <1>2, <1>3, <1>4, <1>5, NotesCarried, ListCarried, HandoffAssumption
      DEF JobOK, Touches, Moves
<1>7. s \in Touches(job[h]) BY <1>5 DEF Touches
<1>8. Target(job[h].op, s) \in SessionStates BY TargetTyped
<1>9. job' \in [Handlers -> Job] => TypeOK' BY <1>1, <1>3, <1>8, FrontTyped DEF Inv, TypeOK
<1>10. OwnOK' BY <1>1, FrontTyped DEF Inv, OwnOK
<1>11. ToldItsOwn' BY <1>1, ToldStays
<1>12. RemarksAreKept' /\ AgentIsAsRegistered'
       BY <1>1, <1>3 DEF Inv, Consistent, RemarksAreKept, AgentIsAsRegistered
<1>13. \A o \in Sessions : given[o] <= given'[o] /\ (state[o] # "absent" => state'[o] # "absent")
       BY <1>1, <1>3, <1>8 DEF Inv, TypeOK, SessionStates
<1>14. \A o \in Sessions \ Touches(job[h]) :
         /\ state'[o] = state[o] /\ summary'[o] = summary[o] /\ mirror'[o] = mirror[o]
         /\ remarks'[o] = remarks[o] /\ given'[o] = given[o]
       BY <1>1, <1>3, <1>7
<1> QED BY <1>1, <1>2, <1>3, <1>6, <1>9, <1>10, <1>11, <1>12, <1>13, <1>14, CallStep

LEMMA InsertTuaSessionStep == ASSUME Inv, NEW h \in Handlers, InsertTuaSession(h) PROVE Inv'
BY HandoffAssumption, InsertRowStep DEF InsertTuaSession, Sessions, Inv, TypeOK

LEMMA InsertBrowserSessionStep == ASSUME Inv, NEW h \in Handlers, InsertBrowserSession(h) PROVE Inv'
BY HandoffAssumption, InsertRowStep DEF InsertBrowserSession, Front, Sessions, Inv, TypeOK

LEMMA InsertVoiceSessionStep == ASSUME Inv, NEW h \in Handlers, InsertVoiceSession(h) PROVE Inv'
BY HandoffAssumption, InsertRowStep DEF InsertVoiceSession, Front, Sessions, Inv, TypeOK

LEMMA RemarkStep == ASSUME Inv, NEW h \in Handlers, Remark(h) PROVE Inv'
<1> DEFINE s == job[h].on
<1>1. /\ job[h] # NoJob /\ Here(job[h]) = "remark" /\ job[h] \in Job /\ Proceed(h)
      /\ remarks' = [remarks EXCEPT ![s] = @ + 1] /\ given' = [given EXCEPT ![s] = @ + 1]
      /\ UNCHANGED <<request, state, summary, newest, mirror, capabilities, told,
                     calls, crashes, registered, crossed>>
      BY AtHere DEF Remark
<1>2. PICK k \in NextJob : /\ Moves(h, k) /\ k.seen = job[h].seen
                           /\ k.notes = job[h].notes /\ k.list = job[h].list
      BY <1>1, Proceeding
<1>3. s \in Sessions /\ job[h].op \in {"opening", "message"} BY <1>1, <1>2, AtCall DEF WhoCalls
<1>4. s \in Touches(job[h]) /\ k.op # "note" BY <1>2, <1>3 DEF Touches, Moves
<1>5. JobOK(k)' BY ReadCarried, <1>1, <1>2, <1>4, MirrorCarried, NotesCarried, ListCarried DEF JobOK
<1>6. /\ \A o \in Sessions : remarks[o] \in Nat /\ given[o] \in Nat
      /\ \A o \in Sessions \ {s} : remarks'[o] = remarks[o] /\ given'[o] = given[o]
      /\ remarks'[s] = remarks[s] + 1 /\ given'[s] = given[s] + 1
      BY <1>1, <1>3 DEF Inv, TypeOK
<1>7. job' \in [Handlers -> Job] => TypeOK' BY <1>1, <1>3 DEF Inv, TypeOK
<1>8. RemarksAreKept' BY <1>1, <1>3, <1>6 DEF Inv, Consistent, RemarksAreKept
<1>9. AgentIsAsRegistered' BY <1>1 DEF Inv, Consistent, AgentIsAsRegistered
<1>10. OwnOK' BY <1>1 DEF Inv, OwnOK
<1>11. ToldItsOwn' BY <1>1, ToldStays
<1>12. \A o \in Sessions : given[o] <= given'[o] BY <1>6
<1>13. \A o \in Sessions \ Touches(job[h]) : remarks'[o] = remarks[o] /\ given'[o] = given[o]
       BY <1>4, <1>6
<1> QED BY <1>1, <1>2, <1>5, <1>7, <1>8, <1>9, <1>10, <1>11, <1>12, <1>13, CallStep

LEMMA NoteStep == ASSUME Inv, NEW h \in Handlers, Note(h) PROVE Inv'
<1> DEFINE s == job[h].on
<1>1. /\ job[h] # NoJob /\ Here(job[h]) = "note" /\ job[h] \in Job /\ Proceed(h)
      /\ remarks' = [remarks EXCEPT ![s] = job[h].notes + 1]
      /\ state' = [state EXCEPT ![s] = Target("note", s)]
      /\ given' = [given EXCEPT ![s] = @ + 1]
      /\ UNCHANGED <<request, summary, newest, mirror, capabilities, told,
                     calls, crashes, registered, crossed>>
      BY AtHere DEF Note
<1>2. PICK k \in NextJob : /\ Moves(h, k) /\ k.seen = job[h].seen
                           /\ k.notes = job[h].notes /\ k.list = job[h].list
      BY <1>1, Proceeding
<1>3. PICK i : i = job[h] OBVIOUS
<1>4. /\ k.op = i.op /\ k.on = i.on /\ i.on = s /\ JobOK(i) /\ FollowsPlan(i) /\ i # NoJob
      BY <1>1, <1>2, <1>3, BusyHandler DEF Moves
<1>5. /\ i.op = "note" /\ ~Due(i, "notes") /\ Due(i, "note") /\ ~Due(k, "note") /\ Due(k, "mirror")
      BY <1>1, <1>2, <1>3, AtCall DEF WhoCalls
<1>6. /\ \A step : Due(i, step) <=> (step = "note" \/ Due(k, step))
      /\ \A step : Due(k, step) => WhoCalls(i.op, i.on, step)
      BY <1>1, <1>2, <1>3, AtCall
<1>7. ~Due(k, "update") BY <1>5, <1>6 DEF WhoCalls
<1>8. s \in Sessions /\ state[s] # "absent" /\ s \in Touches(i)
      BY <1>4, <1>5 DEF FollowsPlan, Targets, Sessions, Works, Touches
<1>9. i.notes <= given[s] /\ (s \notin crossed => i.notes = remarks[s])
      BY <1>4, <1>5 DEF JobOK, NotesFollow
<1>10. Target("note", s) \in SessionStates BY TargetTyped
<1>11. /\ i.notes \in Nat /\ \A o \in Sessions : remarks[o] \in Nat /\ given[o] \in Nat
       /\ \A o \in Sessions \ {s} : /\ remarks'[o] = remarks[o] /\ given'[o] = given[o]
                                    /\ state'[o] = state[o]
       /\ remarks'[s] = i.notes + 1 /\ given'[s] = given[s] + 1 /\ state'[s] = Target("note", s)
       BY <1>1, <1>3, <1>8 DEF Inv, TypeOK, Job
<1>12. MirrorFollows(k)' \/ s \in crossed
  <2>1. s \notin crossed => MirrorFollows(i) BY <1>4, <1>8 DEF JobOK
  <2>2. Due(i, "mirror") /\ ~Creates(i.op) BY <1>5, <1>6 DEF Creates
  <2>3. s \notin crossed => Agrees(s) BY <1>4, <1>5, <2>1, <2>2 DEF MirrorFollows
  <2>4. s \notin crossed => mirror[s].state # "absent" /\ summary[s] = mirror[s].summary
        BY <1>8, <2>3 DEF Agrees
  <2>5. Summary("note", s, mirror[s].summary) = mirror[s].summary BY DEF Summary
  <2> QED BY <1>1, <1>4, <1>5, <1>7, <1>11, <2>2, <2>4, <2>5 DEF MirrorFollows
<1>13. NotesFollow(k)' BY <1>5 DEF NotesFollow, Due, Last
<1>14. JobOK(k)'
       BY ReadCarried, <1>1, <1>2, <1>4, <1>5, <1>12, <1>13, ListCarried, HandoffAssumption DEF JobOK, Touches
<1>15. job' \in [Handlers -> Job] => TypeOK' BY <1>1, <1>3, <1>8, <1>10, <1>11 DEF Inv, TypeOK
<1>16. RemarksAreKept' BY <1>1, <1>9, <1>11 DEF Inv, Consistent, RemarksAreKept
<1>17. AgentIsAsRegistered' BY <1>1 DEF Inv, Consistent, AgentIsAsRegistered
<1>18. OwnOK' BY <1>1 DEF Inv, OwnOK
<1>19. ToldItsOwn' BY <1>1, ToldStays
<1>20. \A o \in Sessions : given[o] <= given'[o] /\ (state[o] # "absent" => state'[o] # "absent")
       BY <1>10, <1>11 DEF SessionStates
<1>21. \A o \in Sessions \ Touches(job[h]) :
         /\ state'[o] = state[o] /\ summary'[o] = summary[o] /\ mirror'[o] = mirror[o]
         /\ remarks'[o] = remarks[o] /\ given'[o] = given[o]
       BY <1>1, <1>3, <1>8, <1>11
<1> QED BY <1>1, <1>2, <1>14, <1>15, <1>16, <1>17, <1>18, <1>19, <1>20, <1>21, CallStep

LEMMA UpdateStep == ASSUME Inv, NEW h \in Handlers, Update(h) PROVE Inv'
<1> DEFINE s == job[h].on
<1>1. /\ job[h] # NoJob /\ Here(job[h]) = "update" /\ job[h] \in Job /\ Proceed(h)
      /\ state' = [state EXCEPT ![s] = Target(job[h].op, s)]
      /\ summary' = [summary EXCEPT ![s] = Summary(job[h].op, s, @)]
      /\ newest' = Front(s)
      /\ UNCHANGED <<request, remarks, mirror, capabilities, told, calls, crashes, history>>
      BY AtHere DEF Update
<1>2. PICK k \in NextJob : /\ Moves(h, k) /\ k.seen = job[h].seen
                           /\ k.notes = job[h].notes /\ k.list = job[h].list
      BY <1>1, Proceeding
<1>3. PICK i : i = job[h] OBVIOUS
<1>4. /\ k.op = i.op /\ k.on = i.on /\ i.on = s /\ JobOK(i) /\ FollowsPlan(i) /\ i # NoJob
      BY <1>1, <1>2, <1>3, BusyHandler DEF Moves
<1>5. /\ i.op \in {"return", "close"} /\ Due(i, "update") /\ ~Due(k, "update") /\ Due(k, "mirror")
      BY <1>1, <1>2, <1>3, AtCall DEF WhoCalls
<1>6. /\ \A step : Due(i, step) <=> (step = "update" \/ Due(k, step))
      /\ \A step : Due(k, step) => WhoCalls(i.op, i.on, step)
      BY <1>1, <1>2, <1>3, AtCall
<1>7. ~Due(k, "note") BY <1>5, <1>6 DEF WhoCalls
<1>8. s \in Sessions /\ state[s] # "absent" /\ s \in Touches(i)
      BY <1>4, <1>5, WorksOnSessions DEF FollowsPlan, Works, Touches
<1>9. Target(i.op, s) \in SessionStates BY TargetTyped
<1>10. summary[s] \in {None, s} /\ summary[s] \in Sessions \cup {None}
       BY <1>8 DEF Inv, OwnOK, TypeOK
<1>11. /\ \A o \in Sessions \ {s} : state'[o] = state[o] /\ summary'[o] = summary[o]
       /\ state'[s] = Target(i.op, s) /\ summary'[s] = Summary(i.op, s, summary[s])
       BY <1>1, <1>3, <1>8 DEF Inv, TypeOK
<1>12. MirrorFollows(k)' \/ s \in crossed
  <2>1. s \notin crossed => MirrorFollows(i) BY <1>4, <1>8 DEF JobOK
  <2>2. Due(i, "mirror") /\ ~Creates(i.op) BY <1>5, <1>6 DEF Creates
  <2>3. s \notin crossed => Agrees(s) BY <1>4, <1>5, <2>1, <2>2 DEF MirrorFollows
  <2>4. s \notin crossed => mirror[s].state # "absent" /\ summary[s] = mirror[s].summary
        BY <1>8, <2>3 DEF Agrees
  <2> QED BY <1>1, <1>4, <1>5, <1>7, <1>11, <2>2, <2>4 DEF MirrorFollows
<1>13. UNCHANGED <<given, registered, crossed>> BY <1>1 DEF history
<1>14. JobOK(k)'
       BY ReadCarried, <1>1, <1>2, <1>4, <1>5, <1>12, NotesCarried, ListCarried, <1>13, HandoffAssumption
       DEF JobOK, Touches
<1>15. Summary(i.op, s, summary[s]) \in {None, s} BY <1>10 DEF Summary
<1>16. job' \in [Handlers -> Job] => TypeOK'
       BY <1>1, <1>3, <1>8, <1>9, <1>13, <1>15, FrontTyped DEF Inv, TypeOK
<1>17. RemarksAreKept' /\ AgentIsAsRegistered'
       BY <1>1, <1>13 DEF Inv, Consistent, RemarksAreKept, AgentIsAsRegistered
<1>18. OwnOK' BY <1>1, <1>8, <1>11, <1>15, FrontTyped DEF Inv, OwnOK
<1>19. \A o \in Sessions : summary[o] # None => summary'[o] # None
       BY <1>8, <1>11, HandoffAssumption DEF Summary
<1>20. ToldItsOwn' BY <1>1, <1>19, ToldStays
<1>21. \A o \in Sessions : given[o] <= given'[o] /\ (state[o] # "absent" => state'[o] # "absent")
       BY <1>9, <1>11, <1>13 DEF SessionStates, Inv, TypeOK
<1>22. \A o \in Sessions \ Touches(job[h]) :
         /\ state'[o] = state[o] /\ summary'[o] = summary[o] /\ mirror'[o] = mirror[o]
         /\ remarks'[o] = remarks[o] /\ given'[o] = given[o]
       BY <1>1, <1>3, <1>8, <1>11, <1>13
<1> QED BY <1>1, <1>2, <1>13, <1>14, <1>16, <1>17, <1>18, <1>20, <1>21, <1>22, CallStep

LEMMA MirrorStep == ASSUME Inv, NEW h \in Handlers, Mirror(h) PROVE Inv'
<1> DEFINE s == job[h].on
           new == IF ~Creates(job[h].op)
                    THEN IF mirror[s].state = "absent" THEN mirror[s]
                         ELSE [state |-> Target(job[h].op, s),
                               summary |-> Summary(job[h].op, s, mirror[s].summary)]
                    ELSE [mirror[s] EXCEPT !.state = IF job[h].op = "runtime_request"
                                                       THEN Target(job[h].op, s) ELSE job[h].seen]
<1>1. /\ job[h] # NoJob /\ Here(job[h]) = "mirror" /\ job[h] \in Job /\ Proceed(h)
      /\ mirror' = [mirror EXCEPT ![s] = new]
      /\ UNCHANGED <<request, state, summary, remarks, newest, capabilities, told,
                     calls, crashes, history>>
      BY AtHere DEF Mirror
<1>2. PICK k \in NextJob : /\ Moves(h, k) /\ k.seen = job[h].seen
                           /\ k.notes = job[h].notes /\ k.list = job[h].list
      BY <1>1, Proceeding
<1>3. PICK i : i = job[h] OBVIOUS
<1>4. /\ k.op = i.op /\ k.on = i.on /\ i.on = s /\ JobOK(i) /\ FollowsPlan(i) /\ i # NoJob
      BY <1>1, <1>2, <1>3, BusyHandler DEF Moves
<1>5. /\ Due(i, "mirror") /\ ~Due(k, "mirror") /\ WhoCalls(i.op, i.on, "mirror")
      /\ ~Due(i, "insert") /\ ~Due(i, "row") /\ ~Due(i, "update") /\ ~Due(i, "note")
      BY <1>1, <1>2, <1>3, AtCall
<1>6. s \in Sessions /\ s \in Touches(i) BY <1>4, <1>5 DEF WhoCalls, Touches
<1>7. mirror[s] = [state |-> mirror[s].state, summary |-> mirror[s].summary]
      BY <1>6 DEF Inv, TypeOK
<1>8. s \notin crossed => new = [state |-> state[s], summary |-> summary[s]]
  <2> SUFFICES ASSUME s \notin crossed PROVE new = [state |-> state[s], summary |-> summary[s]]
      OBVIOUS
  <2>2. MirrorFollows(i) BY <1>4, <1>6 DEF JobOK
  <2>3. CASE Creates(i.op)
    <3>1. /\ mirror[s].summary = summary[s]
          /\ i.op = "runtime_request" => state[s] = Target(i.op, s)
          /\ i.op # "runtime_request" => i.seen = state[s]
          BY <1>4, <1>5, <2>2, <2>3 DEF MirrorFollows
    <3> QED BY <1>3, <1>7, <2>3, <3>1
  <2>4. CASE ~Creates(i.op)
    <3>1. /\ mirror[s].state # "absent" /\ state[s] = Target(i.op, s)
          /\ summary[s] = Summary(i.op, s, mirror[s].summary)
          BY <1>4, <1>5, <2>2, <2>4 DEF MirrorFollows
    <3> QED BY <1>3, <1>7, <2>4, <3>1
  <2> QED BY <2>3, <2>4
<1>9. Creates(i.op) /\ i.op # "runtime_request" => i.seen # None
      BY <1>4, <1>5, <1>6 DEF JobOK, HasRead
<1>10. new \in [state : SessionStates \cup {"absent"}, summary : Sessions \cup {None}]
  <2>1. /\ mirror[s] \in [state : SessionStates \cup {"absent"}, summary : Sessions \cup {None}]
        /\ Target(job[h].op, s) \in SessionStates /\ job[h].seen \in SessionStates \cup {"absent", None}
        /\ Summary(job[h].op, s, mirror[s].summary) \in Sessions \cup {None}
        BY <1>1, <1>6, TargetTyped DEF Inv, TypeOK, Job, Summary
  <2> QED BY <1>3, <1>9, <2>1
<1> HIDE DEF new
<1>11. /\ mirror'[s] = new /\ \A o \in Sessions \ {s} : mirror'[o] = mirror[o]
       /\ UNCHANGED <<given, registered, crossed>>
       BY <1>1, <1>6 DEF Inv, TypeOK, history
<1>12. MirrorFollows(k)' \/ s \in crossed
       BY <1>1, <1>4, <1>5, <1>8, <1>11 DEF MirrorFollows, Agrees
<1>13. JobOK(k)'
       BY ReadCarried, <1>1, <1>2, <1>4, <1>11, <1>12, NotesCarried, ListCarried, HandoffAssumption
       DEF JobOK, Touches
<1>14. job' \in [Handlers -> Job] => TypeOK' BY <1>1, <1>10, <1>11 DEF Inv, TypeOK
<1>15. RemarksAreKept' /\ AgentIsAsRegistered'
       BY <1>1, <1>11 DEF Inv, Consistent, RemarksAreKept, AgentIsAsRegistered
<1>16. OwnOK' BY <1>1 DEF Inv, OwnOK
<1>17. ToldItsOwn' BY <1>1, ToldStays
<1>18. \A o \in Sessions : given[o] <= given'[o] BY <1>11 DEF Inv, TypeOK
<1>19. \A o \in Sessions \ Touches(job[h]) :
         /\ state'[o] = state[o] /\ summary'[o] = summary[o] /\ mirror'[o] = mirror[o]
         /\ remarks'[o] = remarks[o] /\ given'[o] = given[o]
       BY <1>1, <1>3, <1>6, <1>11
<1> QED BY <1>1, <1>2, <1>11, <1>13, <1>14, <1>15, <1>16, <1>17, <1>18, <1>19, CallStep

LEMMA RegisterStep == ASSUME Inv, NEW h \in Handlers, Register(h) PROVE Inv'
<1>1. /\ job[h] # NoJob /\ Here(job[h]) = "register" /\ job[h] \in Job /\ Proceed(h)
      /\ capabilities' = job[h].list /\ registered' = job[h].list
      /\ UNCHANGED <<request, state, summary, remarks, newest, mirror, told,
                     calls, crashes, given, crossed>>
      BY AtHere DEF Register
<1>2. PICK k \in NextJob : /\ Moves(h, k) /\ k.seen = job[h].seen
                           /\ k.notes = job[h].notes /\ k.list = job[h].list
      BY <1>1, Proceeding
<1>3. job[h].op = "context" BY <1>1, <1>2, AtCall DEF WhoCalls
<1>4. Agent \in Touches(job[h]) /\ k.op = "context" BY <1>2, <1>3 DEF Touches, Moves
<1>5. JobOK(k)'
      BY ReadCarried, <1>1, <1>2, <1>4, MirrorCarried, NotesCarried, ListCarried DEF JobOK
<1>6. job' \in [Handlers -> Job] => TypeOK' BY <1>1 DEF Inv, TypeOK, Job
<1>7. RemarksAreKept' /\ AgentIsAsRegistered'
      BY <1>1 DEF Inv, Consistent, RemarksAreKept, AgentIsAsRegistered
<1>8. OwnOK' BY <1>1 DEF Inv, OwnOK
<1>9. ToldItsOwn' BY <1>1, ToldStays
<1>10. \A o \in Sessions : given[o] <= given'[o] BY <1>1 DEF Inv, TypeOK
<1> QED BY <1>1, <1>2, <1>4, <1>5, <1>6, <1>7, <1>8, <1>9, <1>10, CallStep

LEMMA WriteBackStep == ASSUME Inv, NEW h \in Handlers, WriteBack(h) PROVE Inv'
<1>1. /\ job[h] # NoJob /\ Here(job[h]) = "writeback" /\ job[h] \in Job /\ Proceed(h)
      /\ capabilities' = job[h].list
      /\ UNCHANGED <<request, state, summary, remarks, newest, mirror, told,
                     calls, crashes, history>>
      BY AtHere DEF WriteBack
<1>2. PICK k \in NextJob : /\ Moves(h, k) /\ k.seen = job[h].seen
                           /\ k.notes = job[h].notes /\ k.list = job[h].list
      BY <1>1, Proceeding
<1>3. PICK i : i = job[h] OBVIOUS
<1>4. /\ \/ i.op = "approval"
         \/ i.op = "runtime_request" /\ KindOf(i.on) # "voice"
      /\ ~Due(i, "agent")
      BY <1>1, <1>2, <1>3, AtCall DEF WhoCalls
<1>5. Agent \in Touches(i) BY <1>4 DEF Touches
<1>6. Agent \notin crossed => i.list = capabilities
      BY <1>1, <1>3, <1>4, <1>5, BusyHandler DEF JobOK, ListFollows
<1>7. UNCHANGED <<given, registered, crossed>> /\ k.op # "context" /\ k.list = capabilities'
      BY <1>1, <1>2, <1>3, <1>4 DEF history, Moves
<1>8. ListFollows(k)' BY <1>7 DEF ListFollows
<1>9. JobOK(k)' BY ReadCarried, <1>1, <1>2, <1>7, <1>8, MirrorCarried, NotesCarried DEF JobOK
<1>10. job' \in [Handlers -> Job] => TypeOK' BY <1>1, <1>7 DEF Inv, TypeOK, Job
<1>11. RemarksAreKept' BY <1>1, <1>7 DEF Inv, Consistent, RemarksAreKept
<1>12. AgentIsAsRegistered'
       BY <1>1, <1>3, <1>6, <1>7 DEF Inv, Consistent, AgentIsAsRegistered
<1>13. OwnOK' BY <1>1 DEF Inv, OwnOK
<1>14. ToldItsOwn' BY <1>1, ToldStays
<1>15. \A o \in Sessions : given[o] <= given'[o] BY <1>7 DEF Inv, TypeOK
<1> QED BY <1>1, <1>2, <1>3, <1>5, <1>7, <1>9, <1>10, <1>11, <1>12, <1>13, <1>14, <1>15, CallStep

-----------------------------------------------------------------------------
(* Calls, answers and restarts.                                            *)

\* A call begins with nothing half done: a session that nobody else works on is in order.
LEMMA NewJob ==
  ASSUME Inv, NEW op \in Ops \ {"idle"}, NEW x \in Targets(op), NEW list \in SUBSET Kinds,
         NEW j, j = [NoJob EXCEPT !.op = op, !.on = x, !.list = list],
         UNCHANGED <<tables, given, registered>>, crossed' = crossed \cup (Touches(j) \cap Busy)
  PROVE  JobOK(j)' /\ j \in Job /\ j # NoJob /\ j.at \in 1..Last(j)
<1>1. j.op = op /\ j.on = x /\ j.at = 1 /\ j.list = list /\ j.seen = None /\ j.notes = 0
      BY DEF NoJob
<1>2. x \in Sessions \cup Requests \cup {Agent, None}
      BY DEF Targets, Handoff, Sessions, Ops
<1>3. j \in Job
  <2>1. NoJob \in Job BY DEF NoJob, Job, Ops
  <2>2. op \in Ops OBVIOUS
  <2> QED BY <1>2, <2>1, <2>2 DEF Job
<1>4. PlanOK(op, x, Plan(op, x)) BY PlansFit
<1>5. Last(j) \in 1..7 /\ \A step : Due(j, step) <=> Has(Plan(op, x), step)
      BY <1>1, <1>4 DEF PlanOK, Last, Due, Has
<1>6. /\ Creates(op) => Due(j, "insert")
      /\ Creates(op) /\ x \in Sessions => Due(j, "mirror") /\ (op = "runtime_request" \/ Due(j, "row"))
      /\ op = "approval" \/ (op = "runtime_request" /\ KindOf(x) # "voice") => Due(j, "agent")
      /\ op \in {"return", "close"} => Due(j, "update")
      /\ op = "note" => Due(j, "notes") /\ Due(j, "note")
      BY <1>4, <1>5 DEF PlanOK
<1>7. ASSUME Due(j, "mirror"), ~Creates(op) PROVE op \in {"return", "close", "note"}
  <2>1. PICK i \in 1..Len(Plan(op, x)) : Plan(op, x)[i] = "mirror" BY <1>5, <1>7 DEF Has
  <2>2. WhoCalls(op, x, "mirror") BY <1>4, <2>1 DEF PlanOK
  <2> QED BY <1>7, <2>2 DEF WhoCalls, Creates, Ops
<1>8. UNCHANGED <<state, summary, mirror, remarks, capabilities, given>> BY DEF tables
<1>9. NotesFollow(j)' BY <1>1, <1>6 DEF NotesFollow
<1>10. ListFollows(j)'
  <2>1. Agent \in Touches(j) /\ j.op # "context" =>
          op = "approval" \/ (op = "runtime_request" /\ KindOf(x) # "voice")
        BY <1>1, HandoffAssumption DEF Touches
  <2> QED BY <1>1, <1>6, <2>1 DEF ListFollows
<1>11. HasRead(j) BY <1>1, <1>6 DEF HasRead
<1>12. ASSUME NEW s \in Touches(j) \cap Sessions, s \notin crossed' PROVE MirrorFollows(j)'
  <2>1. s = j.on BY <1>12, HandoffAssumption DEF Touches
  <2>2. Agrees(s) BY <1>12 DEF Inv, Consistent, MirrorAgrees, Agrees
  <2>3. Creates(op) => op = "runtime_request" \/ Due(j, "row") BY <1>1, <1>6, <1>12, <2>1
  <2>4. Agrees(s)' /\ mirror'[s].summary = summary'[s] BY <1>8, <2>2 DEF Agrees
  <2> QED BY <1>1, <1>6, <1>7, <2>1, <2>3, <2>4 DEF MirrorFollows
<1>13. j # NoJob BY <1>1 DEF NoJob, Ops
<1>14. JobOK(j)' BY <1>9, <1>10, <1>11, <1>12 DEF JobOK
<1> QED BY <1>1, <1>3, <1>5, <1>13, <1>14

LEMMA BeginStep ==
  ASSUME Inv, NEW h \in Handlers, NEW op \in Ops \ {"idle"}, NEW x \in Targets(op),
         NEW list \in SUBSET Kinds, Begin(h, op, x, list), op \in Works => state[x] # "absent"
  PROVE  Inv'
<1>1. PICK j : j = [NoJob EXCEPT !.op = op, !.on = x, !.list = list] OBVIOUS
<1>2. /\ job[h] = NoJob /\ calls' = calls + 1 /\ calls < MaxCalls /\ job' = [job EXCEPT ![h] = j]
      /\ crossed' = crossed \cup (Touches(j) \cap Busy)
      /\ UNCHANGED <<tables, told, crashes, given, registered>>
      BY <1>1 DEF Begin
<1>3. JobOK(j)' /\ j \in Job /\ j # NoJob /\ j.at \in 1..Last(j) BY <1>1, <1>2, NewJob
<1>4. j.op = op /\ j.on = x BY <1>1 DEF NoJob
<1>5. /\ job'[h] = j /\ \A g \in Handlers \ {h} : job'[g] = job[g]
      /\ job' \in [Handlers -> Job]
      BY <1>2, <1>3 DEF Inv, TypeOK
<1>6. UNCHANGED <<request, state, summary, remarks, newest, mirror, capabilities>>
      BY <1>2 DEF tables
<1>7. Busy \subseteq Sessions \cup {Agent} BY DEF Busy, Touches
<1>8. TypeOK' BY <1>2, <1>5, <1>6, <1>7, HandoffAssumption DEF Inv, TypeOK
<1>9. ASSUME NEW g \in Handlers PROVE FollowsPlan(job[g])'
  <2>1. CASE g = h BY <1>3, <1>4, <1>5, <1>6, <2>1 DEF FollowsPlan, Last
  <2>2. CASE g # h BY <1>5, <1>6, <2>2 DEF Inv, FollowsPlan, Last
  <2> QED BY <2>1, <2>2
<1>10. \A g \in Handlers \ {h} : Touches(job[g]) \subseteq Busy BY DEF Busy
<1>11. Noticed' BY <1>2, <1>5, <1>10 DEF Inv, Noticed
<1>12. ASSUME NEW g \in Handlers, job'[g] # NoJob PROVE JobOK(job[g])'
  <2>1. CASE g = h BY <1>3, <1>5, <2>1
  <2>2. CASE g # h
    <3>1. PICK i : i = job[g] OBVIOUS
    <3>2. JobOK(i) /\ job'[g] = i BY <1>5, <1>12, <2>2, <3>1, BusyHandler
    <3>3. NotesFollow(i)' BY <1>2, <1>6, <3>2 DEF JobOK, NotesFollow
    <3>4. ListFollows(i)' BY <1>2, <1>6, <3>2 DEF JobOK, ListFollows
    <3>5. ASSUME NEW s \in Touches(i) \cap Sessions, s \notin crossed' PROVE MirrorFollows(i)'
          BY <1>2, <1>6, <3>2, <3>5 DEF JobOK, MirrorFollows, Agrees
    <3>6. HasRead(i)' BY <3>2 DEF JobOK, HasRead
    <3>7. JobOK(i)' BY <3>3, <3>4, <3>5, <3>6 DEF JobOK
    <3> QED BY <3>2, <3>7
  <2> QED BY <2>1, <2>2
<1>13. Busy \subseteq Busy'
  <2>1. Touches(job[h]) = {} BY <1>2, TouchesIdle
  <2> QED BY <1>5, <2>1 DEF Busy
<1>14. MirrorAgrees' BY <1>2, <1>6, <1>13 DEF Inv, Consistent, MirrorAgrees
<1>15. RemarksAreKept' /\ AgentIsAsRegistered'
       BY <1>2, <1>6 DEF Inv, Consistent, RemarksAreKept, AgentIsAsRegistered
<1>16. OwnOK' /\ ToldItsOwn' BY <1>2, <1>6, ToldStays DEF Inv, OwnOK
<1> QED BY <1>8, <1>9, <1>11, <1>12, <1>14, <1>15, <1>16 DEF Inv, JobsOK, Consistent

\* What handlers have half done is as it was.
LEMMA Still ==
  ASSUME Inv, UNCHANGED <<tables, job, history>>
  PROVE  /\ \A g \in Handlers : FollowsPlan(job[g])'
         /\ Noticed' /\ JobsOK' /\ OwnOK' /\ Consistent'
<1>1. UNCHANGED <<request, state, summary, remarks, newest, mirror, capabilities, job,
                  given, registered, crossed>>
      BY DEF tables, history
<1>2. \A g \in Handlers : FollowsPlan(job[g])' BY <1>1 DEF Inv, FollowsPlan, Last
<1>3. Noticed' /\ OwnOK' BY <1>1 DEF Inv, Noticed, OwnOK
<1>4. Consistent'
      BY <1>1 DEF Inv, Consistent, MirrorAgrees, RemarksAreKept, AgentIsAsRegistered, Busy
<1>5. ASSUME NEW g \in Handlers, job'[g] # NoJob PROVE JobOK(job[g])'
  <2>1. JobOK(job[g]) BY <1>1, <1>5 DEF Inv, JobsOK
  <2> QED BY <1>1, <2>1
          DEF JobOK, HasRead, NotesFollow, ListFollows, MirrorFollows, Agrees, Due, Last
<1> QED BY <1>2, <1>3, <1>4, <1>5 DEF JobsOK

LEMMA PollStep == ASSUME Inv, NEW w \in Handoff, Poll(w) PROVE Inv'
<1> DEFINE answer == IF Result(w).summary # None THEN Result(w).summary ELSE "ended"
<1>1. told' = [told EXCEPT ![w] = answer] /\ UNCHANGED <<tables, job, calls, crashes, history>>
      BY DEF Poll
<1>2. /\ answer \in Sessions \cup {"ended"}
      /\ answer \in Sessions => /\ IF w \in Requests THEN answer \in SessionsOf(w) ELSE answer = w
                                /\ summary[answer] # None
  <2>1. CASE w \in Requests
    <3>1. newest[w] \in TuaSessions \cup {None} /\ (newest[w] # None => RequestOf[newest[w]] = w)
          BY <2>1 DEF Inv, TypeOK, OwnOK
    <3>2. newest[w] # None => newest[w] \in Sessions /\ summary[newest[w]] \in {None, newest[w]}
          BY <3>1 DEF Inv, OwnOK, Sessions
    <3> QED BY <2>1, <3>1, <3>2, HandoffAssumption DEF Result, SessionsOf
  <2>2. CASE w \notin Requests
    <3>1. w \in Sessions BY <2>2 DEF Handoff, Sessions
    <3>2. summary[w] \in {None, w} BY <3>1 DEF Inv, OwnOK
    <3> QED BY <2>2, <3>1, <3>2, HandoffAssumption DEF Result
  <2> QED BY <2>1, <2>2
<1> HIDE DEF answer
<1>3. TypeOK' BY <1>1, <1>2 DEF Inv, TypeOK, tables, history
<1>4. ToldItsOwn' BY <1>1, <1>2 DEF Inv, ToldItsOwn, SessionsOf, tables, TypeOK
<1> QED BY <1>1, <1>3, <1>4, Still DEF Inv

LEMMA CrashStep == ASSUME Inv, Crash PROVE Inv'
<1>1. /\ crashes' = crashes + 1 /\ crashes < MaxCrashes /\ job' = [h \in Handlers |-> NoJob]
      /\ crossed' = crossed \cup Busy /\ UNCHANGED <<told, calls, given, registered>>
      /\ UNCHANGED <<request, state, summary, remarks, newest, mirror, capabilities>>
      BY DEF Crash, tables
<1>2. Busy \subseteq Sessions \cup {Agent} BY DEF Busy, Touches
<1>3. NoJob \in Job BY DEF NoJob, Job, Ops
<1>4. TypeOK' BY <1>1, <1>2, <1>3, HandoffAssumption DEF Inv, TypeOK
<1>5. \A h \in Handlers : FollowsPlan(job[h])' BY <1>1 DEF FollowsPlan
<1>6. Noticed' /\ JobsOK' BY <1>1, TouchesIdle DEF Noticed, JobsOK
<1>7. MirrorAgrees' BY <1>1 DEF Inv, Consistent, MirrorAgrees
<1>8. RemarksAreKept' /\ AgentIsAsRegistered'
      BY <1>1 DEF Inv, Consistent, RemarksAreKept, AgentIsAsRegistered
<1>9. OwnOK' /\ ToldItsOwn' BY <1>1, ToldStays DEF Inv, OwnOK
<1> QED BY <1>4, <1>5, <1>6, <1>7, <1>8, <1>9 DEF Inv, Consistent

LEMMA InitHolds == Init => Inv
<1> SUFFICES ASSUME Init PROVE Inv OBVIOUS
<1>1. NoJob \in Job BY DEF NoJob, Job, Ops
<1>2. TypeOK BY <1>1, HandoffAssumption DEF Init, TypeOK, NoMirror
<1>3. (\A h \in Handlers : FollowsPlan(job[h])) /\ Noticed /\ JobsOK
      BY TouchesIdle DEF Init, FollowsPlan, Noticed, JobsOK
<1>4. OwnOK /\ ToldItsOwn BY HandoffAssumption DEF Init, OwnOK, ToldItsOwn, Handoff, Sessions
<1>5. Consistent
      BY DEF Init, Consistent, MirrorAgrees, RemarksAreKept, AgentIsAsRegistered, NoMirror
<1> QED BY <1>2, <1>3, <1>4, <1>5 DEF Inv

\* The calls that the environment makes.
LEMMA WorkStep ==
  ASSUME Inv, NEW h \in Handlers, NEW s \in Sessions, Operate(h, s)
  PROVE  Inv'
<1>1. PICK op \in Works : op \in Ops \ {"idle"} /\ s \in Targets(op) /\ state[s] # "absent" /\ Begin(h, op, s, {})
      BY DEF Operate, CreateTuaMessage, ReturnTuaControl, CloseTuaSession, AddBrowserAssistanceEvent,
             ReturnBrowserAssistanceControl, CloseBrowserAssistanceSession, CreateVoiceMessage,
             CloseVoiceSession, Work, Works, Targets, Ops, Sessions
<1> QED BY <1>1, BeginStep

LEMMA CallMade ==
  ASSUME Inv, NEW h \in Handlers,
         \/ \E w \in Handoff : \/ RuntimeRequest(h, w) \/ CreateTuaRequest(h, w)
                               \/ CreateBrowserAssistanceSession(h, w) \/ CreateVoiceSession(h, w)
         \/ \E s \in Sessions : CreateTuaSession(h, s) \/ Deny(h, s)
         \/ \E list \in CapabilityLists : RegisterContext(h, list)
         \/ RequestApproval(h)
  PROVE  Inv'
<1>1. ASSUME NEW w \in Handoff, RuntimeRequest(h, w) PROVE Inv'
  <2>1. PICK op \in {"runtime_request", "refused"} : Begin(h, op, w, {})
        BY <1>1 DEF RuntimeRequest
  <2>2. w \in Targets(op) /\ op \in Ops \ {"idle"} /\ op \notin Works
        BY <2>1 DEF Targets, Handoff, Sessions, Ops, Works
  <2> QED BY <2>1, <2>2, BeginStep
<1>2. ASSUME NEW w \in Handoff, \/ CreateTuaRequest(h, w) \/ CreateBrowserAssistanceSession(h, w)
                                \/ CreateVoiceSession(h, w)
      PROVE  Inv'
  <2>1. Begin(h, "request", w, {})
        BY <1>2 DEF CreateTuaRequest, CreateBrowserAssistanceSession, CreateVoiceSession
  <2>2. w \in Targets("request") /\ "request" \in Ops \ {"idle"} /\ "request" \notin Works
        BY DEF Targets, Ops, Works
  <2> QED BY <2>1, <2>2, BeginStep
<1>3. ASSUME NEW s \in Sessions, CreateTuaSession(h, s) PROVE Inv'
  <2>1. PICK op \in {"session", "opening"} : Begin(h, op, s, {}) BY <1>3 DEF CreateTuaSession
  <2>2. s \in Targets(op) /\ op \in Ops \ {"idle"} /\ op \notin Works
        BY <1>3, <2>1 DEF CreateTuaSession, Targets, Ops, Works
  <2> QED BY <2>1, <2>2, BeginStep
<1>4. ASSUME NEW s \in Sessions, Deny(h, s) PROVE Inv'
  <2>1. s \in Targets("refused") /\ "refused" \in Ops \ {"idle"} /\ "refused" \notin Works
        BY DEF Targets, Ops, Works
  <2> QED BY <1>4, <2>1, BeginStep DEF Deny
<1>5. ASSUME NEW list \in CapabilityLists, RegisterContext(h, list) PROVE Inv'
  <2>1. /\ Agent \in Targets("context") /\ "context" \in Ops \ {"idle"} /\ "context" \notin Works
        /\ list \in SUBSET Kinds
        BY HandoffAssumption DEF Targets, Ops, Works
  <2> QED BY <1>5, <2>1, BeginStep DEF RegisterContext
<1>6. ASSUME RequestApproval(h) PROVE Inv'
  <2>1. Agent \in Targets("approval") /\ "approval" \in Ops \ {"idle"} /\ "approval" \notin Works
        BY DEF Targets, Ops, Works
  <2> QED BY <1>6, <2>1, BeginStep DEF RequestApproval
<1> QED BY <1>1, <1>2, <1>3, <1>4, <1>5, <1>6

LEMMA NextStep == ASSUME Inv, [Next]_vars PROVE Inv'
<1>1. ASSUME NEW h \in Handlers, Step(h) PROVE Inv'
      BY <1>1, InsertRequestStep, InsertTuaSessionStep, InsertBrowserSessionStep,
         InsertVoiceSessionStep, ReadRowStep, RemarkStep, ReadNotesStep, NoteStep, UpdateStep,
         MirrorStep, ReadAgentStep, RegisterStep, WriteBackStep, RecordStep DEF Step
<1>2. CASE UNCHANGED vars
  <2>1. UNCHANGED <<tables, job, told, calls, crashes, history>> BY <1>2 DEF vars
  <2>2. TypeOK' BY <2>1 DEF Inv, TypeOK, tables, history
  <2>3. ToldItsOwn' BY <2>1, ToldStays DEF tables
  <2> QED BY <2>1, <2>2, <2>3, Still DEF Inv
<1> QED BY <1>1, <1>2, WorkStep, CallMade, PollStep, CrashStep DEF Next

LEMMA Invariant == Spec => []Inv
BY InitHolds, NextStep, PTL DEF Spec

-----------------------------------------------------------------------------
(* The properties.                                                         *)

\* Type correctness, for any number of threads, sessions, calls and restarts.
THEOREM HandoffsTyped == Spec => []TypeOK
<1>1. Inv => TypeOK BY DEF Inv
<1> QED BY <1>1, Invariant, PTL

\* The operator-session list, the remarks and the agent's row agree with what was done,
\* whatever the endpoints are called for and in which order, as long as no two of them work
\* on the same thing at once and no restart cuts one short (app.py, runtime_adapter.py).
THEOREM HandoffsConsistent == Spec => []Consistent
<1>1. Inv => Consistent BY DEF Inv
<1> QED BY <1>1, Invariant, PTL

\* The runtime is told the summary of a session of its own hand-off, however the calls
\* interleave (tua_result, browser_result, voice_result).
THEOREM HandoffsToldItsOwn == Spec => []ToldItsOwn
<1>1. Inv => ToldItsOwn BY DEF Inv
<1> QED BY <1>1, Invariant, PTL

LEMMA SummaryStep ==
  ASSUME Inv, [Next]_vars, NEW s \in Sessions, summary[s] # None
  PROVE  summary'[s] # None
<1>1. ASSUME NEW h \in Handlers, Step(h) PROVE summary'[s] # None
  <2>1. CASE Update(h)
    <3>1. summary' = [summary EXCEPT ![job[h].on] = Summary(job[h].op, job[h].on, @)]
          BY <2>1 DEF Update
    <3> QED BY <3>1, HandoffAssumption DEF Inv, TypeOK, Summary
  <2>2. CASE ~Update(h)
        BY <1>1, <2>2 DEF Step, InsertRequest, InsertTuaSession, InsertBrowserSession,
           InsertVoiceSession, InsertRow, ReadRow, Remark, ReadNotes, Note, Mirror, ReadAgent,
           Register, WriteBack, Record, tables
  <2> QED BY <2>1, <2>2
<1>2. ASSUME NEW h \in Handlers, NEW op, NEW x, NEW list, Begin(h, op, x, list) PROVE summary' = summary
      BY <1>2 DEF Begin, tables
<1>3. ASSUME NEW h \in Handlers,
             \/ \E w \in Handoff : \/ RuntimeRequest(h, w) \/ CreateTuaRequest(h, w)
                                   \/ CreateBrowserAssistanceSession(h, w) \/ CreateVoiceSession(h, w)
             \/ \E o \in Sessions : CreateTuaSession(h, o) \/ Operate(h, o) \/ Deny(h, o)
             \/ \E list \in CapabilityLists : RegisterContext(h, list)
             \/ RequestApproval(h)
      PROVE  summary' = summary
      BY <1>2, <1>3 DEF RuntimeRequest, CreateTuaRequest, CreateBrowserAssistanceSession,
         CreateVoiceSession, CreateTuaSession, Deny, RegisterContext, RequestApproval, Operate, Work,
         CreateTuaMessage, ReturnTuaControl, CloseTuaSession, AddBrowserAssistanceEvent,
         ReturnBrowserAssistanceControl, CloseBrowserAssistanceSession, CreateVoiceMessage,
         CloseVoiceSession
<1>4. ASSUME (\E w \in Handoff : Poll(w)) \/ Crash \/ UNCHANGED vars PROVE summary' = summary
      BY <1>4 DEF Poll, Crash, vars, tables
<1> QED BY <1>1, <1>3, <1>4 DEF Next

\* A summary that was returned is never lost again: only a return writes one (the COALESCE
\* of the update_..._state functions of store.py).
THEOREM HandoffsSummaryStays == Spec => SummaryStays
<1>1. Inv /\ [Next]_vars => [\A s \in Sessions : summary[s] # None => summary'[s] # None]_vars
      BY SummaryStep
<1> QED BY <1>1, Invariant, PTL DEF Spec, SummaryStays

-----------------------------------------------------------------------------
(* One thread.                                                             *)

\* A handler that runs alone is never crossed.
LEMMA SerialStep ==
  ASSUME NEW only, Handlers = {only}, MaxCrashes = 0, TypeOK, crossed = {}, [Next]_vars
  PROVE  crossed' = {}
<1>1. ASSUME NEW h \in Handlers, job[h] = NoJob PROVE Busy = {}
  <2>1. \A g \in Handlers : Touches(job[g]) = {} BY <1>1, TouchesIdle
  <2> QED BY <2>1 DEF Busy
<1>2. ASSUME NEW h \in Handlers, NEW op, NEW x, NEW list, Begin(h, op, x, list) PROVE crossed' = crossed
  <2>1. PICK j : crossed' = crossed \cup (Touches(j) \cap Busy) BY <1>2 DEF Begin
  <2>2. Busy = {} BY <1>1, <1>2 DEF Begin
  <2> QED BY <2>1, <2>2
<1>3. ASSUME NEW h \in Handlers,
             \/ \E w \in Handoff : \/ RuntimeRequest(h, w) \/ CreateTuaRequest(h, w)
                                   \/ CreateBrowserAssistanceSession(h, w) \/ CreateVoiceSession(h, w)
             \/ \E o \in Sessions : CreateTuaSession(h, o) \/ Operate(h, o) \/ Deny(h, o)
             \/ \E list \in CapabilityLists : RegisterContext(h, list)
             \/ RequestApproval(h)
      PROVE  crossed' = crossed
      BY <1>2, <1>3 DEF RuntimeRequest, CreateTuaRequest, CreateBrowserAssistanceSession,
         CreateVoiceSession, CreateTuaSession, Deny, RegisterContext, RequestApproval, Operate, Work,
         CreateTuaMessage, ReturnTuaControl, CloseTuaSession, AddBrowserAssistanceEvent,
         ReturnBrowserAssistanceControl, CloseBrowserAssistanceSession, CreateVoiceMessage,
         CloseVoiceSession
<1>4. ASSUME NEW h \in Handlers, Step(h) PROVE crossed' = crossed
      BY <1>4 DEF Step, InsertRequest, InsertTuaSession, InsertBrowserSession,
         InsertVoiceSession, InsertRow, ReadRow, Remark, ReadNotes, Note, Update, Mirror, ReadAgent,
         Register, WriteBack, Record, history
<1>5. ASSUME (\E w \in Handoff : Poll(w)) \/ UNCHANGED vars PROVE crossed' = crossed
      BY <1>5 DEF Poll, vars, history
<1>6. ~Crash BY DEF Crash, TypeOK
<1> QED BY <1>3, <1>4, <1>5, <1>6 DEF Next

\* One handler after the other, and without a restart, every row agrees with its mirror
\* when its calls are over, no remark is lost and no capability changes by itself.
THEOREM HandoffsSerialAgree ==
  ASSUME NEW only, Handlers = {only}, MaxCrashes = 0
  PROVE  Spec => [](/\ \A s \in Sessions \ Busy : Agrees(s)
                    /\ \A s \in Sessions : remarks[s] = given[s]
                    /\ capabilities = registered)
<1>1. Init => crossed = {} BY DEF Init
<1>2. Inv /\ crossed = {} /\ [Next]_vars => (crossed = {})' BY SerialStep DEF Inv
<1>3. Inv /\ crossed = {} => /\ \A s \in Sessions \ Busy : Agrees(s)
                             /\ \A s \in Sessions : remarks[s] = given[s]
                             /\ capabilities = registered
      BY DEF Inv, Consistent, MirrorAgrees, RemarksAreKept, AgentIsAsRegistered, Agrees
<1> QED BY <1>1, <1>2, <1>3, Invariant, PTL DEF Spec
=============================================================================
