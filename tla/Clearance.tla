------------------------------ MODULE Clearance ------------------------------
(***************************************************************************)
(* What the gateway's approval engine promises about an approval request,  *)
(* with every handler, audit record and event left out.                    *)
(*                                                                         *)
(* A decider is a server thread that has read the approval as pending and  *)
(* may therefore still write an outcome.  Nobody becomes a decider of an   *)
(* approval that already has an outcome, so the set of deciders of a       *)
(* settled approval only drains, every further overwrite of the outcome    *)
(* uses one of them up, and once it is empty the outcome is final.         *)
(* Approvals.tla is shown to implement this specification.                 *)
(***************************************************************************)
EXTENDS Naturals, FiniteSets

CONSTANTS Clearances,   \* the approval identifiers
          Deciders,     \* the threads that may settle one
          Outcomes      \* the terminal states

ASSUME OutcomesAssumption == "absent" \notin Outcomes /\ "pending" \notin Outcomes

VARIABLES outcome,      \* outcome[c]: "absent", "pending" or a terminal state
          deciding      \* deciding[c]: who has seen c pending and not let go

vars == <<outcome, deciding>>

Init == /\ outcome  = [c \in Clearances |-> "absent"]
        /\ deciding = [c \in Clearances |-> {}]

Request(c) == /\ outcome[c] = "absent"
              /\ outcome' = [outcome EXCEPT ![c] = "pending"]
              /\ UNCHANGED deciding

\* d reads the approvals of C as pending, all in one query.
Admit(d, C) == /\ \A c \in C : outcome[c] = "pending"
               /\ deciding' = [c \in Clearances |->
                                 deciding[c] \cup (IF c \in C THEN {d} ELSE {})]
               /\ UNCHANGED outcome

\* Some deciders give up: a deadline not reached yet, or a crash of the server.
Withdraw == /\ deciding' \in [Clearances -> SUBSET Deciders]
            /\ \A c \in Clearances : deciding'[c] \subseteq deciding[c]
            /\ UNCHANGED outcome

\* d writes its outcome over whatever is there, and lets go.
Settle(c, d, o) == /\ d \in deciding[c]
                   /\ outcome'  = [outcome  EXCEPT ![c] = o]
                   /\ deciding' = [deciding EXCEPT ![c] = @ \ {d}]

Next == \/ \E c \in Clearances : Request(c)
        \/ \E d \in Deciders, C \in SUBSET Clearances : Admit(d, C)
        \/ Withdraw
        \/ \E c \in Clearances, d \in Deciders, o \in Outcomes : Settle(c, d, o)

Spec == Init /\ [][Next]_vars

-----------------------------------------------------------------------------

TypeOK == /\ outcome  \in [Clearances -> {"absent", "pending"} \cup Outcomes]
          /\ deciding \in [Clearances -> SUBSET Deciders]

\* Only an approval that has been requested has deciders.
DecidersNeedARequest == \A c \in Clearances : outcome[c] = "absent" => deciding[c] = {}

Inv == TypeOK /\ DecidersNeedARequest

\* Once an approval has an outcome, no thread joins its deciders, and a step that
\* changes the outcome uses one of them up (_transition_approval and the expiry
\* scans write only what they have read as pending).
WindowDrains ==
  [][\A c \in Clearances : outcome[c] \in Outcomes =>
       /\ outcome'[c] \in Outcomes
       /\ deciding'[c] \subseteq deciding[c]
       /\ outcome'[c] # outcome[c] => deciding'[c] # deciding[c]]_vars

\* An outcome that nobody is still deciding never changes again.
DrainedIsFinal ==
  [][\A c \in Clearances : (outcome[c] \in Outcomes /\ deciding[c] = {}) =>
       /\ outcome'[c] = outcome[c]
       /\ deciding'[c] = {}]_vars
=============================================================================
