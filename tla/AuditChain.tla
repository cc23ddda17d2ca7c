------------------------------ MODULE AuditChain ------------------------------
(***************************************************************************)
(* The append-only, hash-chained audit log: append_audit_event of          *)
(* store.py.  Every handler of the gateway appends to it, those on the     *)
(* threads of the pool concurrently.  An append is two transactions: read  *)
(* the hash of the newest row, then insert a row that carries it as        *)
(* previous_hash.                                                          *)
(*                                                                         *)
(* The content that is hashed includes a fresh audit_event_id, so distinct *)
(* rows have distinct hashes: the hash of a row is modelled by its         *)
(* sequence number, and the NULL previous_hash of the first row by 0.      *)
(***************************************************************************)
EXTENDS Naturals, Sequences

CONSTANTS Writers,      \* threads that append
          MaxRows,      \* bound: the length of the log
          MaxCrashes    \* bound: how often the server restarts

ASSUME BoundsAssumption == MaxRows \in Nat /\ MaxCrashes \in Nat

VARIABLES log,          \* table audit_events, in the order of its sequence column
          pc,           \* per writer: "idle", or "insert" once it has read the hash
          previous,     \* per writer: the hash it has read
          crashes

vars == <<log, pc, previous, crashes>>

Init == /\ log = <<>>
        /\ pc = [w \in Writers |-> "idle"]
        /\ previous = [w \in Writers |-> 0]
        /\ crashes = 0

\* SELECT hash ... ORDER BY sequence DESC LIMIT 1
LatestHash == Len(log)

ReadLatest(w) == /\ pc[w] = "idle"
                 /\ previous' = [previous EXCEPT ![w] = LatestHash]
                 /\ pc' = [pc EXCEPT ![w] = "insert"]
                 /\ UNCHANGED <<log, crashes>>

\* Bug: the hash that was read is used again for the next row.
InsertAndRetry(w) == /\ pc[w] = "insert"
                     /\ Len(log) < MaxRows
                     /\ log' = Append(log, [by |-> w, previous |-> previous[w]])
                     /\ UNCHANGED <<pc, previous, crashes>>

\* The row's request_id tells whose request it records: here, which writer's.
Insert(w) == /\ pc[w] = "insert"
             /\ Len(log) < MaxRows
             /\ log' = Append(log, [by |-> w, previous |-> previous[w]])
             /\ pc' = [pc EXCEPT ![w] = "idle"]
             /\ UNCHANGED <<previous, crashes>>

Crash == /\ crashes < MaxCrashes
         /\ crashes' = crashes + 1
         /\ pc' = [w \in Writers |-> "idle"]
         /\ UNCHANGED <<log, previous>>

Next == \/ \E w \in Writers : ReadLatest(w) \/ Insert(w)
        \/ Crash

Spec == Init /\ [][Next]_vars

-----------------------------------------------------------------------------
Entry == [by : Writers, previous : Nat]

TypeOK == /\ log \in Seq(Entry)
          /\ pc \in [Writers -> {"idle", "insert"}]
          /\ previous \in [Writers -> Nat]
          /\ crashes \in Nat

\* A row points to a row that was there before it: following previous_hash from any
\* row ends at the first one, whatever the writers' interleaving and restarts.
PointsBack == \A i \in 1..Len(log) : log[i].previous < i

\* The chain forks only between writers: no writer gives two of its own rows the same
\* predecessor, so a fork has at most as many branches as there are writers.
NoForkByOneWriter ==
  \A i, j \in 1..Len(log) :
    (i # j /\ log[i].by = log[j].by) => log[i].previous # log[j].previous

\* What "hash-chained" promises (ADR 0007): each row carries the hash of the row
\* before it, so that changing or removing any row but the last breaks a link.
IsChain == \A i \in 1..Len(log) : log[i].previous = i - 1

\* A writer that is about to insert has read a hash not newer than the log, and no row
\* of its own is newer than what it read.
Snapshot == \A w \in Writers : pc[w] = "insert" =>
              /\ previous[w] <= Len(log)
              /\ \A i \in 1..Len(log) : log[i].by = w => i <= previous[w]

\* Nobody has inserted since the hash was read: true of a writer that has the log to
\* itself.
Undisturbed == \A w \in Writers : pc[w] = "insert" => previous[w] = Len(log)
=============================================================================
