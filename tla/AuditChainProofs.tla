--------------------------- MODULE AuditChainProofs ---------------------------
(* Theorems about the audit log, for any number of writers, rows and restarts. *)
EXTENDS AuditChain, TLAPS

Inv == TypeOK /\ PointsBack /\ NoForkByOneWriter /\ Snapshot

\* An inserted row is the last one, and the rows before it are the old ones.
LEMMA InsertedRow ==
  ASSUME TypeOK, NEW w \in Writers, Insert(w)
  PROVE  /\ Len(log') = Len(log) + 1
         /\ \A i \in 1..Len(log) : log'[i] = log[i]
         /\ log'[Len(log) + 1] = [by |-> w, previous |-> previous[w]]
         /\ log' \in Seq(Entry)
  BY DEF TypeOK, Insert, Entry

\* Every step keeps the strengthened invariant: a writer's snapshot is as recent as all
\* its own rows, so the row it inserts has a predecessor none of those rows has.
LEMMA InvIsInductive == Inv /\ [Next]_vars => Inv'
<1> SUFFICES ASSUME Inv, [Next]_vars PROVE Inv'
    OBVIOUS
<1> USE DEF Inv
<1>1. ASSUME NEW w \in Writers, ReadLatest(w) PROVE Inv'
  <2>1. TypeOK' BY <1>1 DEF TypeOK, ReadLatest, LatestHash
  <2>2. PointsBack' /\ NoForkByOneWriter'
        BY <1>1 DEF ReadLatest, PointsBack, NoForkByOneWriter
  <2>3. Snapshot' BY <1>1 DEF ReadLatest, Snapshot, LatestHash, TypeOK
  <2> QED BY <2>1, <2>2, <2>3
<1>2. ASSUME NEW w \in Writers, Insert(w) PROVE Inv'
  <2> DEFINE n == Len(log)
  <2>0. n \in Nat BY DEF TypeOK
  <2>1. /\ Len(log') = n + 1
        /\ \A i \in 1..n : log'[i] = log[i]
        /\ log'[n + 1] = [by |-> w, previous |-> previous[w]]
        /\ log' \in Seq(Entry)
        BY <1>2, InsertedRow
  <2>2. /\ previous[w] \in Nat
        /\ previous[w] <= n
        /\ \A i \in 1..n : log[i].by = w => i <= previous[w]
        BY <1>2 DEF Insert, Snapshot, TypeOK
  <2>3. TypeOK' BY <1>2, <2>1 DEF TypeOK, Insert
  <2>4. \A i \in 1..n : log[i] \in Entry BY DEF TypeOK
  <2>5. PointsBack'
    <3> SUFFICES ASSUME NEW i \in 1..(n + 1) PROVE log'[i].previous < i
        BY <2>1 DEF PointsBack
    <3>1. CASE i = n + 1 BY <3>1, <2>0, <2>1, <2>2
    <3>2. CASE i # n + 1
      <4>1. i \in 1..n BY <3>2, <2>0
      <4> QED BY <4>1, <2>1 DEF PointsBack
    <3> QED BY <3>1, <3>2
  <2>6. NoForkByOneWriter'
    <3>1. \A i \in 1..n : log[i].by = w => log[i].previous < previous[w]
          BY <2>0, <2>2, <2>4 DEF PointsBack, Entry
    <3> SUFFICES ASSUME NEW i \in 1..(n + 1), NEW j \in 1..(n + 1),
                        i # j, log'[i].by = log'[j].by
                 PROVE  log'[i].previous # log'[j].previous
        BY <2>1 DEF NoForkByOneWriter
    <3>2. CASE i \in 1..n /\ j \in 1..n BY <3>2, <2>1 DEF NoForkByOneWriter
    <3>3. CASE i = n + 1
      <4>1. j \in 1..n BY <3>3, <2>0
      <4>2. log[j].by = w /\ log[j] \in Entry BY <4>1, <3>3, <2>1, <2>4
      <4> QED BY <4>1, <4>2, <3>1, <3>3, <2>1, <2>2 DEF Entry
    <3>4. CASE j = n + 1
      <4>1. i \in 1..n BY <3>4, <2>0
      <4>2. log[i].by = w /\ log[i] \in Entry BY <4>1, <3>4, <2>1, <2>4
      <4> QED BY <4>1, <4>2, <3>1, <3>4, <2>1, <2>2 DEF Entry
    <3> QED BY <3>2, <3>3, <3>4, <2>0
  <2>7. Snapshot'
    <3> SUFFICES ASSUME NEW v \in Writers, pc'[v] = "insert"
                 PROVE  /\ previous'[v] <= n + 1
                        /\ \A i \in 1..(n + 1) : log'[i].by = v => i <= previous'[v]
        BY <2>1 DEF Snapshot
    <3>1. v # w /\ pc[v] = "insert" /\ previous'[v] = previous[v] /\ previous[v] \in Nat
          BY <1>2 DEF Insert, TypeOK
    <3> QED BY <3>1, <2>0, <2>1 DEF Snapshot
  <2> QED BY <2>3, <2>5, <2>6, <2>7
<1>3. CASE Crash
  <2>1. TypeOK' BY <1>3 DEF TypeOK, Crash
  <2> QED BY <1>3, <2>1 DEF Crash, PointsBack, NoForkByOneWriter, Snapshot
<1>4. CASE UNCHANGED vars
  BY <1>4 DEF vars, TypeOK, PointsBack, NoForkByOneWriter, Snapshot
<1> QED BY <1>1, <1>2, <1>3, <1>4 DEF Next

\* The audit log stays well typed.
THEOREM AuditTyped == Spec => []TypeOK
<1>1. Init => Inv
      BY DEF Init, Inv, TypeOK, Entry, PointsBack, NoForkByOneWriter, Snapshot
<1> QED BY <1>1, InvIsInductive, PTL DEF Spec, Inv

\* Whatever writers race, no row points forward: previous_hash leads back to the first
\* row (append_audit_event reads the hash before it inserts).
THEOREM AuditPointsBack == Spec => []PointsBack
<1>1. Init => Inv
      BY DEF Init, Inv, TypeOK, Entry, PointsBack, NoForkByOneWriter, Snapshot
<1> QED BY <1>1, InvIsInductive, PTL DEF Spec, Inv

\* One writer never forks the chain against itself: a fork has at most one branch per
\* concurrent writer.
THEOREM AuditForksOnlyBetweenWriters == Spec => []NoForkByOneWriter
<1>1. Init => Inv
      BY DEF Init, Inv, TypeOK, Entry, PointsBack, NoForkByOneWriter, Snapshot
<1> QED BY <1>1, InvIsInductive, PTL DEF Spec, Inv

-----------------------------------------------------------------------------
\* A writer that has the log to itself keeps it a chain: with one writer the hash it
\* has read is still the latest when it inserts.
THEOREM AuditSerialIsChain ==
  ASSUME NEW only, Writers = {only}
  PROVE  Spec => []IsChain
<1> DEFINE SInv == TypeOK /\ IsChain /\ Undisturbed
<1>1. Init => SInv
      BY DEF Init, TypeOK, Entry, IsChain, Undisturbed
<1>2. SInv /\ [Next]_vars => SInv'
  <2> SUFFICES ASSUME SInv, [Next]_vars PROVE SInv'
      OBVIOUS
  <2>1. ASSUME NEW w \in Writers, ReadLatest(w) PROVE SInv'
    <3>1. TypeOK' BY <2>1 DEF TypeOK, ReadLatest, LatestHash
    <3>2. IsChain' BY <2>1 DEF ReadLatest, IsChain
    <3>3. Undisturbed' BY <2>1 DEF ReadLatest, Undisturbed, LatestHash, TypeOK
    <3> QED BY <3>1, <3>2, <3>3
  <2>2. ASSUME NEW w \in Writers, Insert(w) PROVE SInv'
    <3> DEFINE n == Len(log)
    <3>0. n \in Nat BY DEF TypeOK
    <3>1. /\ Len(log') = n + 1
          /\ \A i \in 1..n : log'[i] = log[i]
          /\ log'[n + 1] = [by |-> w, previous |-> previous[w]]
          /\ log' \in Seq(Entry)
          BY <2>2, InsertedRow
    <3>2. previous[w] = n BY <2>2 DEF Insert, Undisturbed
    <3>3. TypeOK' BY <2>2, <3>1 DEF TypeOK, Insert
    <3>4. IsChain'
      <4> SUFFICES ASSUME NEW i \in 1..(n + 1) PROVE log'[i].previous = i - 1
          BY <3>1 DEF IsChain
      <4>1. CASE i = n + 1 BY <4>1, <3>0, <3>1, <3>2
      <4>2. CASE i # n + 1
        <5>1. i \in 1..n BY <4>2, <3>0
        <5> QED BY <5>1, <3>1 DEF IsChain
      <4> QED BY <4>1, <4>2
    <3>5. \A v \in Writers : pc'[v] # "insert" BY <2>2 DEF Insert, TypeOK
    <3> QED BY <3>3, <3>4, <3>5 DEF Undisturbed
  <2>3. CASE Crash
    <3>1. TypeOK' BY <2>3 DEF TypeOK, Crash
    <3> QED BY <2>3, <3>1 DEF Crash, IsChain, Undisturbed
  <2>4. CASE UNCHANGED vars
    BY <2>4 DEF vars, TypeOK, IsChain, Undisturbed
  <2> QED BY <2>1, <2>2, <2>3, <2>4 DEF Next
<1>3. SInv => IsChain
      OBVIOUS
<1> QED BY <1>1, <1>2, <1>3, PTL DEF Spec
=============================================================================
