---------------------------- MODULE RuntimeClient ----------------------------
(***************************************************************************)
(* A runtime that asks for an approval and waits for it: approval,         *)
(* wait_for_approval, cancel_approval, _request and _wait of               *)
(* runtime_client.py, over a connection that may lose or delay a call.     *)
(*                                                                         *)
(* The gateway it talks to is the one Clearance promises: whatever the     *)
(* handlers are, an approval is settled by threads that have read it as    *)
(* pending.  To it this module adds what the client and the operator see:  *)
(* which call an approval was created for, its lifetime, the structured    *)
(* responses, and that a decision that arrives past the lifetime never     *)
(* approves (LateDecisionNeverCounts and OverdueIsNeverAnsweredPending of  *)
(* Approvals).  Time is kept as what is left of each lifetime and wait.    *)
(***************************************************************************)
EXTENDS Clearance, Sequences

CONSTANTS Calls,          \* calls of approval() that a runtime makes
          RetryAttempts,  \* retry_attempts of RuntimeClientConfig
          ExpiresIn,      \* expires_in_seconds
          Timeouts,       \* values of timeout_seconds; 0 is also the None of approval()
          ResponseTypes,  \* structured responses the operator sends
          MaxResponses,   \* bound: responses to one approval
          MaxWaits        \* bound: waits for one approval

ASSUME ClientAssumption == /\ RetryAttempts \in Nat \ {0}
                           /\ ExpiresIn \in Nat \ {0}
                           /\ Timeouts \subseteq Nat
                           /\ {"approved", "cancelled"} \subseteq Outcomes
                           /\ "nobody" \notin Calls

VARIABLES for,            \* for[c]: the call that approval c was created for
          life,           \* life[c]: time left until expires_at
          inTime,         \* inTime[c]: deciders that arrived before expires_at
          responses,      \* responses[c]: decision types, the newest first
          overwritten,    \* approvals settled twice, differently
          pc, attempt,    \* where call k is, and the attempt of its POST
          flights,        \* <<k, n>>: POST n of call k is on its way to the gateway
          replies,        \* <<k, n, c>>: so is the answer that names approval c
          followed,       \* followed[k]: the approval the call waits for
          left,           \* left[k]: time left until the deadline of the wait
          patient,        \* calls whose wait was to last for the lifetime or longer
          seen,           \* seen[k]: the result that was fetched last
          waits           \* waits[k]: how often the call has waited

gateway == <<for, life, inTime, responses, overwritten>>
client  == <<pc, attempt, flights, replies, followed, left, patient, seen, waits>>
clientVars == <<vars, gateway, client>>

Nobody  == "nobody"
Nothing == "nothing"
Unread  == [state |-> "absent", responses |-> <<>>]

\* What ends a wait although the approval is pending.
Conversational == {"modified", "needs_info", "propose_policy"}
Ended == {"returned", "timedout", "failed"}

ClientInit ==
  /\ Init
  /\ for = [c \in Clearances |-> Nobody]
  /\ life = [c \in Clearances |-> 0]
  /\ inTime = [c \in Clearances |-> {}]
  /\ responses = [c \in Clearances |-> <<>>]
  /\ overwritten = {}
  /\ pc = [k \in Calls |-> "idle"]
  /\ attempt = [k \in Calls |-> 0]
  /\ flights = {} /\ replies = {}
  /\ followed = [k \in Calls |-> Nothing]
  /\ left = [k \in Calls |-> 0]
  /\ patient = {}
  /\ seen = [k \in Calls |-> Unread]
  /\ waits = [k \in Calls |-> 0]

-----------------------------------------------------------------------------
(* The gateway and its operators.                                          *)

\* new_id of the gateway: which unused identifier it makes up is immaterial.
NewId == CHOOSE c \in Clearances : outcome[c] = "absent"

\* POST n of call k arrives, perhaps long after the client has given it up.  The body
\* names no approval, so each POST that arrives creates one.
Arrive(k, n, c) ==
  /\ <<k, n>> \in flights
  /\ Request(c) /\ c = NewId
  /\ for' = [for EXCEPT ![c] = k]
  /\ life' = [life EXCEPT ![c] = ExpiresIn]
  /\ flights' = flights \ {<<k, n>>}
  /\ replies' = replies \cup {<<k, n, c>>}
  /\ UNCHANGED <<inTime, responses, overwritten, pc, attempt, followed, left, patient, seen, waits>>

Read(d, C) ==
  /\ Admit(d, C)
  /\ inTime' = [c \in Clearances |-> IF c \in C /\ life[c] > 0 THEN inTime[c] \cup {d}
                                     ELSE inTime[c]]
  /\ UNCHANGED <<for, life, responses, overwritten, client>>

LetGo == /\ Withdraw
         /\ inTime' = [c \in Clearances |-> inTime[c] \cap deciding'[c]]
         /\ UNCHANGED <<for, life, responses, overwritten, client>>

\* A decision, an expiry or a cancellation; only one that was in time approves.
Decide(c, d, o) ==
  /\ Settle(c, d, o)
  /\ o = "approved" => d \in inTime[c]
  /\ inTime' = [inTime EXCEPT ![c] = @ \ {d}]
  /\ overwritten' = overwritten \cup {x \in {c} : outcome[x] \in Outcomes \ {o}}
  /\ UNCHANGED <<for, life, responses, client>>

\* list_approval_responses returns the newest row first.
Respond(c, type) ==
  /\ outcome[c] # "absent" /\ Len(responses[c]) < MaxResponses
  /\ responses' = [responses EXCEPT ![c] = <<type>> \o @]
  /\ UNCHANGED <<vars, for, life, inTime, overwritten, client>>

-----------------------------------------------------------------------------
(* _request: the POST and its retries.                                     *)

Send(k, n) == /\ pc' = [pc EXCEPT ![k] = "post"]
              /\ attempt' = [attempt EXCEPT ![k] = n]
              /\ \/ flights' = flights \cup {<<k, n>>}
                 \/ UNCHANGED flights                       \* lost on the way

Start(k) == /\ pc[k] = "idle"
            /\ Send(k, 1)
            /\ UNCHANGED <<vars, gateway, replies, followed, left, patient, seen, waits>>

\* Bug: one attempt more than retry_attempts.
MayRepeatOnceMore(k) == attempt[k] <= RetryAttempts

MayRepeat(k) == attempt[k] < RetryAttempts

\* Bug: the attempts are not counted.
AttemptFailsUncounted(k) ==
  /\ pc[k] = "post"
  /\ Send(k, attempt[k])
  /\ UNCHANGED <<vars, gateway, replies, followed, left, patient, seen, waits>>

\* URLError or TimeoutError: what was sent may still arrive, its answer is not read.
AttemptFails(k) ==
  /\ pc[k] = "post"
  /\ IF MayRepeat(k) THEN Send(k, attempt[k] + 1)
                     ELSE pc' = [pc EXCEPT ![k] = "failed"] /\ UNCHANGED <<attempt, flights>>
  /\ UNCHANGED <<vars, gateway, replies, followed, left, patient, seen, waits>>

\* HTTPError: the gateway refuses, and nothing is repeated; nor is it when the
\* connection breaks in any other way, which may be after the POST has got through.
Refused(k) == /\ pc[k] = "post"
              /\ \/ /\ <<k, attempt[k]>> \in flights
                    /\ flights' = flights \ {<<k, attempt[k]>>}
                 \/ UNCHANGED flights
              /\ pc' = [pc EXCEPT ![k] = "failed"]
              /\ UNCHANGED <<vars, gateway, attempt, replies, followed, left, patient, seen, waits>>

\* Bug: a timeout that is not given is one of zero.
TimeoutAsGiven(t) == t

\* timeout_seconds or float(expires_in_seconds).
Timeout(t) == IF t = 0 THEN ExpiresIn ELSE t

\* The clock of the wait starts now, that of the approval had started before.
BeginWait(k, c, t, whole) ==
  /\ followed' = [followed EXCEPT ![k] = c]
  /\ left' = [left EXCEPT ![k] = t]
  /\ patient' = IF whole THEN patient \cup {k} ELSE patient \ {k}
  /\ waits' = [waits EXCEPT ![k] = @ + 1]
  /\ pc' = [pc EXCEPT ![k] = "wait"]

\* The answer to the attempt that is waited for; each has a connection of its own.
\* approval() goes on to wait, as long as its caller says or else for the lifetime.
Answered(k, c) ==
  /\ pc[k] = "post"
  /\ <<k, attempt[k], c>> \in replies
  /\ \E t \in Timeouts : BeginWait(k, c, Timeout(t), t = 0 \/ t >= ExpiresIn)
  /\ UNCHANGED <<vars, gateway, attempt, flights, replies, seen>>

-----------------------------------------------------------------------------
(* _wait: poll, judge the result, look at the clock, sleep.                *)

\* A poll, approval_result of the gateway: it expires what is overdue, then reads the
\* row...  The answer to a cancellation leaves no row pending for the GET that follows.
Poll(k) ==
  /\ pc[k] \in {"wait", "cancel"}
  /\ outcome[followed[k]] = "pending" => pc[k] = "wait" /\ life[followed[k]] > 0
  /\ seen' = [seen EXCEPT ![k] = [state |-> outcome[followed[k]], responses |-> <<>>]]
  /\ pc' = [pc EXCEPT ![k] = "list"]
  /\ UNCHANGED <<vars, gateway, attempt, flights, replies, followed, left, patient, waits>>

\* ... and in another transaction the responses.
ListResponses(k) ==
  /\ pc[k] = "list"
  /\ seen' = [seen EXCEPT ![k] = [state |-> @.state, responses |-> responses[followed[k]]]]
  /\ pc' = [pc EXCEPT ![k] = "judge"]
  /\ UNCHANGED <<vars, gateway, attempt, flights, replies, followed, left, patient, waits>>

\* Every attempt of the GET fails, or the gateway refuses it.
PollFails(k) ==
  /\ pc[k] \in {"wait", "list", "cancel"}
  /\ pc' = [pc EXCEPT ![k] = "failed"]
  /\ UNCHANGED <<vars, gateway, attempt, flights, replies, followed, left, patient, seen, waits>>

\* _latest_response takes the last of the list.
LatestResponse(list) == IF list = <<>> THEN Nothing ELSE list[Len(list)]

IsDone(result) == \/ result.state \in Outcomes
                  \/ LatestResponse(result.responses) \in Conversational

\* Bug: the runtime takes its own timeout for a cancellation.
JudgeAsCancelled(k) ==
  /\ pc[k] = "judge"
  /\ IF ~IsDone(seen[k]) /\ left[k] = 0
       THEN /\ seen' = [seen EXCEPT ![k].state = "cancelled"]
            /\ pc' = [pc EXCEPT ![k] = "returned"]
       ELSE /\ pc' = [pc EXCEPT ![k] = IF IsDone(seen[k]) THEN "returned" ELSE "wait"]
            /\ UNCHANGED seen
  /\ UNCHANGED <<vars, gateway, attempt, flights, replies, followed, left, patient, waits>>

\* Bug: a wait that runs out ends in a state of its own.
JudgeAsGivenUp(k) ==
  /\ pc[k] = "judge"
  /\ pc' = [pc EXCEPT ![k] = IF IsDone(seen[k]) THEN "returned"
                             ELSE IF left[k] = 0 THEN "givenup" ELSE "wait"]
  /\ UNCHANGED <<vars, gateway, attempt, flights, replies, followed, left, patient, seen, waits>>

\* The result is looked at before the deadline: a late one that is done still counts.
\* cancel_approval returns what it fetched without a look; it is settled, hence done.
Judge(k) ==
  /\ pc[k] = "judge"
  /\ pc' = [pc EXCEPT ![k] = IF IsDone(seen[k]) THEN "returned"
                             ELSE IF left[k] = 0 THEN "timedout" ELSE "wait"]
  /\ UNCHANGED <<vars, gateway, attempt, flights, replies, followed, left, patient, seen, waits>>

\* wait_for_approval: the runtime has answered a response, or had given up, and waits for
\* the same approval again, for as long as it likes.
WaitAgain(k) ==
  /\ \/ pc[k] = "timedout"
     \/ pc[k] = "returned" /\ seen[k].state = "pending"
  /\ waits[k] < MaxWaits
  /\ \E t \in Timeouts : BeginWait(k, followed[k], t, t >= ExpiresIn)
  /\ UNCHANGED <<vars, gateway, attempt, flights, replies, seen>>

\* cancel_approval: the POST, which a decider of the gateway carries out, then one GET.
Cancel(k) ==
  /\ pc[k] = "timedout"
  /\ pc' = [pc EXCEPT ![k] = "cancel"]
  /\ UNCHANGED <<vars, gateway, attempt, flights, replies, followed, left, patient, seen, waits>>

Less(n) == IF n = 0 THEN 0 ELSE n - 1

Tick == /\ (\E c \in Clearances : life[c] > 0) \/ (\E k \in Calls : left[k] > 0)
        /\ life' = [c \in Clearances |-> Less(life[c])]
        /\ left' = [k \in Calls |-> Less(left[k])]
        /\ UNCHANGED <<vars, for, inTime, responses, overwritten,
                       pc, attempt, flights, replies, followed, patient, seen, waits>>

ClientNext ==
  \/ \E f \in flights, c \in Clearances : Arrive(f[1], f[2], c)
  \/ \E d \in Deciders, C \in SUBSET Clearances : Read(d, C)
  \/ LetGo
  \/ \E c \in Clearances, d \in Deciders, o \in Outcomes : Decide(c, d, o)
  \/ \E c \in Clearances, type \in ResponseTypes : Respond(c, type)
  \/ \E k \in Calls : \/ Start(k) \/ AttemptFails(k) \/ Refused(k)
                      \/ Poll(k) \/ ListResponses(k) \/ PollFails(k) \/ Judge(k)
                      \/ WaitAgain(k) \/ Cancel(k)
  \/ \E k \in Calls, c \in Clearances : Answered(k, c)
  \/ Tick

ClientSpec == ClientInit /\ [][ClientNext]_clientVars

\* The runtime's own thread and the clock go on; of the gateway nothing is asked.
ClientFairness ==
  /\ WF_clientVars(Tick)
  /\ \A k \in Calls : /\ WF_clientVars(AttemptFails(k))
                      /\ WF_clientVars(Poll(k) \/ ListResponses(k) \/ PollFails(k))
                      /\ WF_clientVars(Judge(k))

FairClientSpec == ClientSpec /\ ClientFairness

-----------------------------------------------------------------------------
ClientTypeOK ==
  /\ for \in [Clearances -> Calls \cup {Nobody}]
  /\ life \in [Clearances -> 0..ExpiresIn]
  /\ inTime \in [Clearances -> SUBSET Deciders]
  /\ responses \in [Clearances -> Seq(ResponseTypes)]
  /\ overwritten \subseteq Clearances
  /\ pc \in [Calls -> {"idle", "post", "wait", "list", "judge", "cancel"} \cup Ended]
  /\ attempt \in [Calls -> 0..RetryAttempts]
  /\ flights \subseteq Calls \X (1..RetryAttempts)
  /\ replies \subseteq Calls \X (1..RetryAttempts) \X Clearances
  /\ followed \in [Calls -> Clearances \cup {Nothing}]
  /\ left \in [Calls -> Nat] /\ patient \subseteq Calls
  /\ seen \in [Calls -> [state : {"absent", "pending"} \cup Outcomes,
                         responses : Seq(ResponseTypes)]]
  /\ waits \in [Calls -> Nat]

\* Retries, and attempts that arrive after they were given up, leave an action with at
\* most retry_attempts approvals for the operator to decide.
FewDuplicates ==
  \A k \in Calls : Cardinality({c \in Clearances : for[c] = k}) <= RetryAttempts

\* What a wait returns is the outcome of an approval that was created for this call, and
\* stays its outcome unless a thread that was still deciding overwrites it.
VerdictStands ==
  \A k \in Calls : (pc[k] = "returned" /\ seen[k].state \in Outcomes) =>
    /\ for[followed[k]] = k
    /\ seen[k].state = outcome[followed[k]] \/ followed[k] \in overwritten

\* A runtime that leaves the length of its wait to approval(), or asks for the lifetime
\* of the approval or more, gives up only when that is over: no further decision arrives in
\* time, and it can be approved behind the runtime's back only by one that had arrived
\* before.  A shorter wait promises nothing of the kind.
GivenUpIsOver ==
  [][\A k \in patient : pc[k] \in {"timedout", "cancel"} =>
       inTime'[followed[k]] \subseteq inTime[followed[k]]]_clientVars

\* Whatever the gateway and the network do, a call comes to an end.
CallsEnd == \A k \in Calls : pc[k] \in {"post", "wait", "list", "judge"} ~> pc[k] \in Ended
=============================================================================
