----------------------------- MODULE MCApprovals -----------------------------
(* Instances of Approvals for TLC. *)
EXTENDS ApprovalsInductive, TLC

CONSTANTS alice, bob, w1, w2, w3, a1, a2

\* Decisions that set the scope, clear it, or contradict each other.
Yes      == {<<"approved", "once">>}
YesNo    == {<<"approved", "once">>, <<"denied", "session">>}

\* Threads run the same code, and approvals are judged by the same rules.
Symmetry == Permutations(Workers) \cup Permutations(Approvals)
=============================================================================
