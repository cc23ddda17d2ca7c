-------------------------- MODULE EventStreamProofs --------------------------
(***************************************************************************)
(* Theorems about EventStream, for any number of apps and readers, any     *)
(* backlog, limits and losses.                                             *)
(***************************************************************************)
EXTENDS EventStream, SequenceTheorems, TLAPS

Kinds == {"change", "beat"}

\* A run of cursors that fits the log: events of it, ascending, and where the run
\* steps over events it lands on a heartbeat.
Fits(s, l) == /\ s \in Seq(1..Len(l))
              /\ \A i \in 1..Len(s) : Before(s, i) < s[i]
              /\ \A i \in 1..Len(s) : s[i] > Before(s, i) + 1 => l[s[i]] = "beat"

-----------------------------------------------------------------------------
(* Runs and logs *)

LEMMA LastIn ==
  ASSUME NEW n \in Nat, NEW s \in Seq(1..n)
  PROVE  /\ Last(s) \in 0..n
         /\ Len(s) # 0 => Last(s) = s[Len(s)]
         /\ Len(s) = 0 => Last(s) = 0
<1>1. CASE s = <<>> BY <1>1 DEF Last
<1>2. CASE s # <<>>
  <2>1. Len(s) \in Nat \ {0} BY <1>2, EmptySeq
  <2>2. s[Len(s)] \in 1..n BY <2>1, ElementOfSeq
  <2> QED BY <1>2, <2>1, <2>2 DEF Last
<1> QED BY <1>1, <1>2

\* A longer log holds the same events where it held any.
LEMMA FitsLonger ==
  ASSUME NEW l \in Seq(Kinds), NEW s, Fits(s, l), NEW k \in Kinds
  PROVE  Fits(s, Append(l, k))
<1> DEFINE m == Append(l, k)
<1>1. /\ Len(m) = Len(l) + 1 /\ Len(l) \in Nat
      /\ \A i \in 1..Len(l) : m[i] = l[i]
      BY AppendProperties, LenProperties
<1>2. s \in Seq(1..Len(l)) BY DEF Fits
<1>3. s \in Seq(1..Len(m)) BY <1>1, <1>2, SeqMonotonic
<1>4. \A i \in 1..Len(s) : s[i] \in 1..Len(l) BY <1>2, ElementOfSeq
<1> QED BY <1>1, <1>3, <1>4 DEF Fits

\* What is kept of a run when the rest of it is lost still fits.
LEMMA FitsPrefix ==
  ASSUME NEW S, NEW l, NEW s \in Seq(S), NEW t \in Seq(S), Fits(s \o t, l)
  PROVE  Fits(s, l)
<1> DEFINE r == s \o t
<1>1. /\ Len(r) = Len(s) + Len(t) /\ Len(s) \in Nat /\ Len(t) \in Nat
      /\ \A i \in 1..Len(s) : r[i] = s[i]
      BY ConcatProperties, LenProperties
<1>2. r \in Seq(1..Len(l)) BY DEF Fits
<1>3. \A i \in 1..Len(s) : s[i] \in 1..Len(l)
      BY <1>1, <1>2, ElementOfSeq
<1>4. s \in Seq(1..Len(l))
  <2>1. s \in [1..Len(s) -> 1..Len(l)] BY <1>3, LenProperties
  <2> QED BY <1>1, <2>1, SeqDef
<1>5. \A i \in 1..Len(s) : i \in 1..Len(r) /\ r[i] = s[i] /\ Before(r, i) = Before(s, i)
      BY <1>1 DEF Before
<1>6. \A i \in 1..Len(s) : /\ Before(s, i) < s[i]
                           /\ s[i] > Before(s, i) + 1 => l[s[i]] = "beat"
      BY <1>5 DEF Fits
<1> QED BY <1>4, <1>6 DEF Fits

\* A heartbeat that has just been created goes to the end of the run.
LEMMA FitsBeat ==
  ASSUME NEW l \in Seq(Kinds), NEW s, Fits(s, l)
  PROVE  Fits(Append(s, Len(l) + 1), Append(l, "beat"))
<1> DEFINE m == Append(l, "beat")
           r == Append(s, Len(l) + 1)
<1>1. /\ Len(m) = Len(l) + 1 /\ Len(l) \in Nat /\ m[Len(l) + 1] = "beat"
      BY AppendProperties, LenProperties DEF Kinds
<1>2. Fits(s, m) BY FitsLonger DEF Kinds
<1>3. s \in Seq(1..Len(m)) /\ s \in Seq(1..Len(l)) /\ Len(s) \in Nat
      BY <1>2, LenProperties DEF Fits
<1>4. /\ r \in Seq(1..Len(m)) /\ Len(r) = Len(s) + 1
      /\ \A i \in 1..Len(s) : r[i] = s[i]
      /\ r[Len(s) + 1] = Len(l) + 1
  <2>1. Len(l) + 1 \in 1..Len(m) BY <1>1
  <2> QED BY <1>3, <2>1, AppendProperties
<1>5. \A i \in 1..Len(s) : Before(r, i) = Before(s, i) BY <1>3, <1>4 DEF Before
<1>6. Before(r, Len(s) + 1) < Len(l) + 1
  <2>1. CASE Len(s) = 0 BY <1>1, <2>1 DEF Before
  <2>2. CASE Len(s) # 0
    <3>1. Len(s) \in 1..Len(s) BY <1>3, <2>2
    <3>2. s[Len(s)] \in 1..Len(l) BY <1>3, <3>1, ElementOfSeq
    <3>3. Before(r, Len(s) + 1) = s[Len(s)] BY <1>3, <1>4, <3>1 DEF Before
    <3> QED BY <1>1, <3>2, <3>3
  <2> QED BY <2>1, <2>2
<1>7. \A i \in 1..Len(r) : i \in 1..Len(s) \/ i = Len(s) + 1 BY <1>3, <1>4
<1> QED BY <1>1, <1>2, <1>4, <1>5, <1>6, <1>7 DEF Fits

\* A backlog continues the run without a gap.
LEMMA FitsBacklog ==
  ASSUME NEW l, NEW s, Fits(s, l), Len(l) \in Nat, NEW n \in Nat, n <= Len(l) - Last(s)
  PROVE  /\ [i \in 1..n |-> Last(s) + i] \in Seq(1..Len(l))
         /\ Fits(s \o [i \in 1..n |-> Last(s) + i], l)
<1> DEFINE t == [i \in 1..n |-> Last(s) + i]
           r == s \o t
<1>1. s \in Seq(1..Len(l)) /\ Len(s) \in Nat BY LenProperties DEF Fits
<1>2. /\ Last(s) \in 0..Len(l)
      /\ Len(s) # 0 => Last(s) = s[Len(s)]
      /\ Len(s) = 0 => Last(s) = 0
      BY <1>1, LastIn
<1>3. t \in Seq(1..Len(l)) /\ Len(t) = n
  <2>1. t \in [1..n -> 1..Len(l)] BY <1>2
  <2>2. t \in Seq(1..Len(l)) BY <2>1, SeqDef
  <2>3. DOMAIN t = 1..Len(t) /\ Len(t) \in Nat BY <2>2, LenProperties
  <2> QED BY <2>1, <2>2, <2>3
<1>4. /\ r \in Seq(1..Len(l)) /\ Len(r) = Len(s) + n
      /\ \A i \in 1..Len(s) + n : r[i] = IF i <= Len(s) THEN s[i] ELSE t[i - Len(s)]
      BY <1>1, <1>3, ConcatProperties
<1>5. ASSUME NEW i \in 1..Len(r)
      PROVE  Before(r, i) < r[i] /\ (r[i] > Before(r, i) + 1 => l[r[i]] = "beat")
  <2>1. CASE i <= Len(s)
    <3>1. i \in 1..Len(s) /\ r[i] = s[i] /\ Before(r, i) = Before(s, i)
          BY <1>1, <1>4, <2>1 DEF Before
    <3> QED BY <3>1 DEF Fits
  <2>2. CASE i > Len(s)
    <3>1. r[i] = Last(s) + (i - Len(s)) BY <1>1, <1>4, <2>2
    <3>2. Before(r, i) = Last(s) + (i - 1 - Len(s))
      <4>1. CASE i = Len(s) + 1
        <5>1. CASE Len(s) = 0 BY <1>2, <4>1, <5>1 DEF Before
        <5>2. CASE Len(s) # 0 BY <1>1, <1>2, <1>4, <4>1, <5>2 DEF Before
        <5> QED BY <5>1, <5>2
      <4>2. CASE i # Len(s) + 1
        <5>1. i - 1 \in 1..Len(s) + n /\ i - 1 > Len(s) /\ i # 1
              /\ i - 1 - Len(s) \in 1..n
              BY <1>1, <1>4, <2>2, <4>2
        <5> QED BY <1>4, <5>1 DEF Before
      <4> QED BY <4>1, <4>2
    <3>3. i \in Int /\ Len(s) \in Int /\ Last(s) \in Int BY <1>1, <1>2, <1>4
    <3> HIDE DEF r
    <3>4. PICK b \in Int : b = Last(s) + (i - 1 - Len(s)) BY <3>3
    <3>5. Before(r, i) = b /\ r[i] = b + 1 BY <3>1, <3>2, <3>3, <3>4
    <3> QED BY <3>5
  <2> QED BY <1>1, <1>4, <2>1, <2>2
<1> QED BY <1>3, <1>4, <1>5 DEF Fits

\* The query answers the next events after a cursor.
LEMMA ListIsNext ==
  ASSUME NEW seq \in Nat, NEW limit \in Int, Len(log) \in Nat, seq <= Len(log)
  PROVE  \E n \in Nat : /\ n <= Len(log) - seq
                        /\ ListEventsAfter(seq, limit) = [i \in 1..n |-> seq + i]
<1> DEFINE found == Len(log) - seq
           n == IF limit >= 0 /\ limit < found THEN limit ELSE found
<1>1. n \in Nat /\ n <= found OBVIOUS
<1>2. ListEventsAfter(seq, limit) = [i \in 1..n |-> seq + i] BY DEF ListEventsAfter
<1> QED BY <1>1, <1>2

LEMMA EmptyFits == ASSUME NEW l PROVE Fits(<<>>, l)
<1>1. Len(<<>>) = 0 /\ <<>> \in Seq(1..Len(l)) BY EmptySeq
<1> QED BY <1>1 DEF Fits

\* The first of t goes to the end of s.
LEMMA MoveHead ==
  ASSUME NEW S, NEW s \in Seq(S), NEW t \in Seq(S), t # <<>>
  PROVE  /\ Append(s, Head(t)) \o Tail(t) = s \o t
         /\ Append(s, Head(t)) \in Seq(S) /\ Tail(t) \in Seq(S)
         /\ Last(Append(s, Head(t))) = Head(t)
<1> DEFINE h == Head(t)
<1>1. h \in S /\ Tail(t) \in Seq(S) /\ h = t[1]
  <2>1. Head(t) \in S /\ Tail(t) \in Seq(S) BY HeadTailProperties
  <2> QED BY <2>1
<1>2. <<h>> \in Seq(S) /\ Len(<<h>>) = 1 /\ <<h>>[1] = h BY <1>1
<1>3. <<h>> \o Tail(t) = t
  <2>1. /\ Len(Tail(t)) = Len(t) - 1 /\ Len(t) \in Nat
        /\ \A i \in 1..Len(Tail(t)) : Tail(t)[i] = t[i + 1]
        BY HeadTailProperties, LenProperties
  <2> DEFINE r == <<h>> \o Tail(t)
  <2>2. /\ r \in Seq(S) /\ Len(r) = 1 + Len(Tail(t))
        /\ \A i \in 1..1 + Len(Tail(t)) : r[i] = IF i <= 1 THEN <<h>>[i] ELSE Tail(t)[i - 1]
        BY <1>1, <1>2, ConcatProperties
  <2>3. ASSUME NEW i \in 1..Len(r) PROVE r[i] = t[i]
    <3>1. CASE i = 1 BY <1>1, <1>2, <2>1, <2>2, <3>1
    <3>2. CASE i # 1
      <4>1. i - 1 \in 1..Len(Tail(t)) /\ (i - 1) + 1 = i BY <2>1, <2>2, <3>2
      <4> QED BY <2>1, <2>2, <3>2, <4>1
    <3> QED BY <3>1, <3>2
  <2> QED BY <2>1, <2>2, <2>3, SeqEqual
<1>4. Append(s, h) = s \o <<h>> BY <1>1, AppendIsConcat
<1>5. (s \o <<h>>) \o Tail(t) = s \o (<<h>> \o Tail(t)) BY <1>1, <1>2, ConcatAssociative
<1>6. /\ Append(s, h) \in Seq(S) /\ Append(s, h) # <<>>
      /\ Len(Append(s, h)) = Len(s) + 1 /\ Append(s, h)[Len(s) + 1] = h
      BY <1>1, AppendProperties
<1> QED BY <1>1, <1>3, <1>4, <1>5, <1>6 DEF Last

LEMMA AppendAfter ==
  ASSUME NEW S, NEW s \in Seq(S), NEW t \in Seq(S), NEW e \in S
  PROVE  s \o Append(t, e) = Append(s \o t, e)
<1>1. <<e>> \in Seq(S) /\ s \o t \in Seq(S) BY ConcatProperties
<1>2. s \o (t \o <<e>>) = (s \o t) \o <<e>> BY <1>1, ConcatAssociative
<1> QED BY <1>1, <1>2, AppendIsConcat

\* Sending, receiving and a heartbeat, on the three parts of a run.
LEMMA SendRun ==
  ASSUME NEW g \in Cursors, NEW n \in Cursors, NEW t \in Cursors, t # <<>>
  PROVE  \E m \in Cursors, u \in Cursors : /\ m = Append(n, Head(t)) /\ u = Tail(t)
                                           /\ (g \o m) \o u = (g \o n) \o t
<1>1. PICK S : S = Nat \ {0} OBVIOUS
<1>2. g \in Seq(S) /\ n \in Seq(S) /\ t \in Seq(S) /\ Cursors = Seq(S)
      BY <1>1 DEF Cursors
<1>3. PICK r : r = g \o n OBVIOUS
<1>4. r \in Seq(S) BY <1>2, <1>3, ConcatProperties
<1>5. PICK h \in S : h = Head(t) BY <1>2, HeadTailProperties
<1>6. g \o Append(n, h) = Append(r, h) BY <1>2, <1>3, AppendAfter
<1>7. Append(r, h) \o Tail(t) = r \o t BY <1>2, <1>4, <1>5, MoveHead
<1>8. Append(n, h) \in Seq(S) /\ Tail(t) \in Seq(S) BY <1>2, <1>5, MoveHead
<1> QED BY <1>2, <1>3, <1>5, <1>6, <1>7, <1>8

LEMMA ReceiveRun ==
  ASSUME NEW g \in Cursors, NEW n \in Cursors, NEW t \in Cursors, n # <<>>
  PROVE  /\ (Append(g, Head(n)) \o Tail(n)) \o t = (g \o n) \o t
         /\ Append(g, Head(n)) \in Cursors /\ Tail(n) \in Cursors
         /\ Head(n) \in Nat \ {0} /\ Last(Append(g, Head(n))) = Head(n)
<1>1. PICK S : S = Nat \ {0} OBVIOUS
<1>2. g \in Seq(S) /\ n \in Seq(S) /\ Cursors = Seq(S) BY <1>1 DEF Cursors
<1>3. Head(n) \in S BY <1>2, HeadTailProperties
<1>4. /\ Append(g, Head(n)) \o Tail(n) = g \o n
      /\ Append(g, Head(n)) \in Seq(S) /\ Tail(n) \in Seq(S)
      /\ Last(Append(g, Head(n))) = Head(n)
      BY <1>2, MoveHead
<1> QED BY <1>1, <1>2, <1>3, <1>4

LEMMA BeatRun ==
  ASSUME NEW g \in Cursors, NEW n \in Cursors, NEW e \in Nat \ {0}
  PROVE  (g \o Append(n, e)) \o <<>> = Append((g \o n) \o <<>>, e)
<1>1. PICK S : S = Nat \ {0} OBVIOUS
<1>2. g \in Seq(S) /\ n \in Seq(S) /\ e \in S BY <1>1 DEF Cursors
<1>3. g \o n \in Seq(S) BY <1>2, ConcatProperties
<1>4. g \o Append(n, e) = Append(g \o n, e) /\ Append(g \o n, e) \in Seq(S)
      BY <1>2, <1>3, AppendAfter, AppendProperties
<1> QED BY <1>3, <1>4, ConcatEmptySeq

LEMMA LostRun == ASSUME NEW g \in Cursors PROVE (g \o <<>>) \o <<>> = g
BY ConcatEmptySeq DEF Cursors

LEMMA CountingIsCursors ==
  ASSUME NEW n \in Nat
  PROVE  /\ [i \in 1..n |-> i] \in Cursors /\ Len([i \in 1..n |-> i]) = n
<1> DEFINE u == [i \in 1..n |-> i]
<1>1. u \in [1..n -> Nat \ {0}] OBVIOUS
<1>2. u \in Seq(Nat \ {0}) BY <1>1, SeqDef
<1>3. DOMAIN u = 1..Len(u) /\ Len(u) \in Nat BY <1>2, LenProperties
<1> QED BY <1>1, <1>2, <1>3 DEF Cursors

\* Counting on from m is counting further.
LEMMA CountOn ==
  ASSUME NEW m \in Nat, NEW n \in Nat
  PROVE  [i \in 1..m |-> i] \o [i \in 1..n |-> m + i] = [i \in 1..m + n |-> i]
<1> DEFINE s == [i \in 1..m |-> i]
           t == [i \in 1..n |-> m + i]
           u == [i \in 1..m + n |-> i]
           r == s \o t
<1>1. s \in Seq(Nat) /\ Len(s) = m
  <2>1. s \in [1..m -> Nat] OBVIOUS
  <2>2. s \in Seq(Nat) BY <2>1, SeqDef
  <2>3. DOMAIN s = 1..Len(s) /\ Len(s) \in Nat BY <2>2, LenProperties
  <2> QED BY <2>1, <2>2, <2>3
<1>2. t \in Seq(Nat) /\ Len(t) = n
  <2>1. t \in [1..n -> Nat] OBVIOUS
  <2>2. t \in Seq(Nat) BY <2>1, SeqDef
  <2>3. DOMAIN t = 1..Len(t) /\ Len(t) \in Nat BY <2>2, LenProperties
  <2> QED BY <2>1, <2>2, <2>3
<1>3. u \in Seq(Nat) /\ Len(u) = m + n
  <2>1. u \in [1..m + n -> Nat] OBVIOUS
  <2>2. u \in Seq(Nat) BY <2>1, SeqDef
  <2>3. DOMAIN u = 1..Len(u) /\ Len(u) \in Nat BY <2>2, LenProperties
  <2> QED BY <2>1, <2>2, <2>3
<1>4. /\ r \in Seq(Nat) /\ Len(r) = m + n
      /\ \A i \in 1..m + n : r[i] = IF i <= m THEN s[i] ELSE t[i - m]
      BY <1>1, <1>2, ConcatProperties
<1>5. \A i \in 1..m + n : r[i] = i BY <1>4
<1> QED BY <1>3, <1>4, <1>5, SeqEqual

-----------------------------------------------------------------------------
(* The invariant *)

\* What an app has handled, what is on its way and what is still to be sent.
Run(c) == got[c] \o net[c] \o todo[c]

\* The run of every app fits the log, its cursor is the last one it has handled, and
\* the backlog is there only while it is replayed.
ConnOK(c) == /\ Fits(Run(c), log)
             /\ cursor[c] = Last(got[c])
             /\ stage[c] \in {"closed", "accepted"} => net[c] = <<>> /\ todo[c] = <<>>
             /\ stage[c] = "accepted" => after[c] = cursor[c]
             /\ stage[c] = "live" => todo[c] = <<>>

\* A reader has read the log up to where it is.
PagerOK(p) == /\ read[p] = [i \in 1..Len(read[p]) |-> i]
              /\ Len(read[p]) <= Len(log)

Inv == /\ TypeOK
       /\ \A c \in Clients : ConnOK(c)
       /\ \A p \in Pagers : PagerOK(p)

\* The log is left alone or grows by an event.
LogGrows == log' = log \/ \E k \in Kinds : log' = Append(log, k)

LEMMA LogGrowsBy ==
  ASSUME Inv, LogGrows
  PROVE  /\ log' \in Seq(Kinds) /\ Len(log) \in Nat /\ Len(log') \in Nat
         /\ Len(log) <= Len(log')
         /\ \A s : Fits(s, log) => Fits(s, log')
<1>1. log \in Seq(Kinds) /\ Len(log) \in Nat BY LenProperties DEF Inv, TypeOK, Kinds
<1>2. CASE log' = log BY <1>1, <1>2
<1>3. ASSUME NEW k \in Kinds, log' = Append(log, k)
      PROVE  /\ log' \in Seq(Kinds) /\ Len(log') = Len(log) + 1
             /\ \A s : Fits(s, log) => Fits(s, log')
      BY <1>1, <1>3, AppendProperties, FitsLonger
<1> QED BY <1>1, <1>2, <1>3 DEF LogGrows

\* A reader that does not step keeps its invariant.
LEMMA OthersKeepPagerOK ==
  ASSUME Inv, LogGrows, UNCHANGED read
  PROVE  \A p \in Pagers : PagerOK(p)'
<1> SUFFICES ASSUME NEW p \in Pagers PROVE PagerOK(p)'
    OBVIOUS
<1>1. read[p] \in Cursors BY DEF Inv, TypeOK
<1>2. Len(read[p]) \in Nat BY <1>1, LenProperties DEF Cursors
<1> QED BY <1>2, LogGrowsBy DEF Inv, PagerOK

\* An app whose connection does not step keeps its invariant.
LEMMA OthersKeepConnOK ==
  ASSUME Inv, LogGrows, NEW c \in Clients,
         stage'[c] = stage[c], after'[c] = after[c], todo'[c] = todo[c], net'[c] = net[c],
         cursor'[c] = cursor[c], got'[c] = got[c]
  PROVE  ConnOK(c)'
<1>1. Fits(Run(c), log') BY LogGrowsBy DEF Inv, ConnOK
<1>2. Run(c)' = Run(c) BY DEF Run
<1> QED BY <1>1, <1>2 DEF Inv, ConnOK

\* A step of one connection.
LEMMA ConnSteps ==
  ASSUME Inv, LogGrows, TypeOK', NEW c \in Clients, ConnOK(c)', UNCHANGED read,
         \A b \in Clients : b # c =>
           /\ stage'[b] = stage[b] /\ after'[b] = after[b] /\ todo'[b] = todo[b]
           /\ net'[b] = net[b] /\ cursor'[b] = cursor[b] /\ got'[b] = got[b]
  PROVE  Inv'
<1>1. \A b \in Clients : ConnOK(b)' BY OthersKeepConnOK
<1>2. \A p \in Pagers : PagerOK(p)' BY OthersKeepPagerOK
<1> QED BY <1>1, <1>2 DEF Inv

\* The parts of an app's run.
LEMMA Parts ==
  ASSUME Inv, NEW c \in Clients
  PROVE  /\ got[c] \in Cursors /\ net[c] \in Cursors /\ todo[c] \in Cursors
         /\ got[c] \o net[c] \in Cursors /\ Run(c) \in Cursors
         /\ Fits(got[c], log) /\ cursor[c] = Last(got[c])
<1>1. got[c] \in Cursors /\ net[c] \in Cursors /\ todo[c] \in Cursors BY DEF Inv, TypeOK
<1>2. got[c] \o net[c] \in Cursors /\ Run(c) \in Cursors
      BY <1>1, ConcatProperties DEF Cursors, Run
<1>3. Fits(Run(c), log) /\ cursor[c] = Last(got[c]) BY DEF Inv, ConnOK
<1>4. Fits(got[c] \o net[c], log) BY <1>1, <1>2, <1>3, FitsPrefix DEF Cursors, Run
<1>5. Fits(got[c], log) BY <1>1, <1>4, FitsPrefix DEF Cursors
<1> QED BY <1>1, <1>2, <1>3, <1>5

-----------------------------------------------------------------------------
(* One lemma per action *)

LEMMA PublishStep == ASSUME Inv, Publish PROVE Inv'
<1>1. /\ log' = Append(log, "change")
      /\ UNCHANGED <<stage, after, todo, net, cursor, got, losses, read>>
      BY DEF Publish, CreateEvent, conns, apps
<1>2. LogGrows BY <1>1 DEF LogGrows, Kinds
<1>3. TypeOK' BY <1>1, <1>2, LogGrowsBy DEF Inv, TypeOK, Kinds
<1>4. \A c \in Clients : ConnOK(c)' BY <1>1, <1>2, OthersKeepConnOK
<1>5. \A p \in Pagers : PagerOK(p)' BY <1>1, <1>2, OthersKeepPagerOK
<1> QED BY <1>3, <1>4, <1>5 DEF Inv

LEMMA ConnectStep == ASSUME Inv, NEW c \in Clients, Connect(c) PROVE Inv'
<1>1. /\ stage[c] = "closed" /\ log' = Append(log, "beat")
      /\ stage' = [stage EXCEPT ![c] = "accepted"] /\ after' = [after EXCEPT ![c] = cursor[c]]
      /\ UNCHANGED <<todo, net, cursor, got, losses, read>>
      BY DEF Connect, CreateEvent, apps
<1>2. LogGrows BY <1>1 DEF LogGrows, Kinds
<1>3. TypeOK' BY <1>1, <1>2, LogGrowsBy DEF Inv, TypeOK, Kinds
<1>4. Fits(Run(c), log') /\ Run(c)' = Run(c)
      BY <1>1, <1>2, LogGrowsBy DEF Inv, ConnOK, Run
<1>5. stage'[c] = "accepted" /\ after'[c] = cursor[c] BY <1>1 DEF Inv, TypeOK
<1>6. ConnOK(c)' BY <1>1, <1>4, <1>5 DEF Inv, ConnOK
<1> QED BY <1>1, <1>2, <1>3, <1>6, ConnSteps DEF Inv, TypeOK

LEMMA ReplayStep == ASSUME Inv, NEW c \in Clients, Replay(c) PROVE Inv'
<1> DEFINE t == ListEventsAfter(after[c], Backlog)
<1>1. /\ stage[c] = "accepted" /\ todo' = [todo EXCEPT ![c] = t]
      /\ stage' = [stage EXCEPT ![c] = "replaying"]
      /\ UNCHANGED <<log, after, net, cursor, got, losses, read>>
      BY DEF Replay, apps
<1>2. LogGrows BY <1>1 DEF LogGrows
<1>3. net[c] = <<>> /\ todo[c] = <<>> /\ after[c] = Last(got[c])
      BY <1>1 DEF Inv, ConnOK
<1>4. Len(log) \in Nat BY <1>2, LogGrowsBy
<1>5. Last(got[c]) \in 0..Len(log)
  <2>1. got[c] \in Seq(1..Len(log)) BY Parts DEF Fits
  <2> QED BY <1>4, <2>1, LastIn
<1>6. PICK n \in Nat : n <= Len(log) - Last(got[c]) /\ t = [i \in 1..n |-> Last(got[c]) + i]
  <2>1. Last(got[c]) \in Nat /\ Last(got[c]) <= Len(log) /\ Backlog \in Int
        BY <1>4, <1>5, ConstantsAssumption
  <2> QED BY <1>3, <1>4, <2>1, ListIsNext
<1>7. t \in Seq(1..Len(log)) /\ Fits(got[c] \o t, log)
      BY <1>4, <1>6, Parts, FitsBacklog
<1>8. t \in Cursors
  <2>1. 1..Len(log) \subseteq Nat \ {0} BY <1>4
  <2> QED BY <1>7, <2>1, SeqMonotonic DEF Cursors
<1>9. TypeOK' BY <1>1, <1>8 DEF Inv, TypeOK
<1>10. /\ todo'[c] = t /\ stage'[c] = "replaying" BY <1>1 DEF Inv, TypeOK
<1>11. Run(c)' = got[c] \o t
  <2>1. got[c] \o <<>> = got[c] BY Parts, ConcatEmptySeq DEF Cursors
  <2> QED BY <1>1, <1>3, <1>10, <2>1 DEF Run
<1>12. ConnOK(c)' BY <1>1, <1>7, <1>10, <1>11 DEF Inv, ConnOK
<1> QED BY <1>1, <1>2, <1>9, <1>12, ConnSteps DEF Inv, TypeOK

LEMMA SendStep == ASSUME Inv, NEW c \in Clients, Send(c) PROVE Inv'
<1>1. /\ stage[c] = "replaying" /\ todo[c] # <<>>
      /\ net' = [net EXCEPT ![c] = Append(net[c], Head(todo[c]))]
      /\ todo' = [todo EXCEPT ![c] = Tail(todo[c])]
      /\ UNCHANGED <<log, stage, after, cursor, got, losses, read>>
      BY DEF Send, apps
<1>2. LogGrows BY <1>1 DEF LogGrows
<1>3. /\ (got[c] \o Append(net[c], Head(todo[c]))) \o Tail(todo[c]) = Run(c)
      /\ Append(net[c], Head(todo[c])) \in Cursors /\ Tail(todo[c]) \in Cursors
  <2>1. got[c] \in Cursors /\ net[c] \in Cursors /\ todo[c] \in Cursors BY Parts
  <2>2. todo[c] # <<>> BY <1>1
  <2>3. \E m \in Cursors, u \in Cursors : /\ m = Append(net[c], Head(todo[c])) /\ u = Tail(todo[c])
                                          /\ (got[c] \o m) \o u = (got[c] \o net[c]) \o todo[c]
        BY <2>1, <2>2, SendRun
  <2> QED BY <2>3 DEF Run
<1>4. TypeOK' BY <1>1, <1>3 DEF Inv, TypeOK
<1>5. net'[c] = Append(net[c], Head(todo[c])) /\ todo'[c] = Tail(todo[c])
      BY <1>1 DEF Inv, TypeOK
<1>6. Run(c)' = Run(c) BY <1>1, <1>3, <1>5 DEF Run
<1>7. ConnOK(c)' BY <1>1, <1>6 DEF Inv, ConnOK
<1> QED BY <1>1, <1>2, <1>4, <1>7, ConnSteps DEF Inv, TypeOK

LEMMA ListenStep == ASSUME Inv, NEW c \in Clients, Listen(c) PROVE Inv'
<1>1. /\ stage[c] = "replaying" /\ todo[c] = <<>>
      /\ stage' = [stage EXCEPT ![c] = "live"]
      /\ UNCHANGED <<log, after, todo, net, cursor, got, losses, read>>
      BY DEF Listen, apps
<1>2. LogGrows BY <1>1 DEF LogGrows
<1>3. TypeOK' /\ stage'[c] = "live" BY <1>1 DEF Inv, TypeOK
<1>4. ConnOK(c)' BY <1>1, <1>3 DEF Inv, ConnOK, Run
<1> QED BY <1>1, <1>2, <1>3, <1>4, ConnSteps DEF Inv, TypeOK

LEMMA BeatStep == ASSUME Inv, NEW c \in Clients, Beat(c) PROVE Inv'
<1>1. /\ stage[c] = "live" /\ log' = Append(log, "beat")
      /\ net' = [net EXCEPT ![c] = Append(net[c], Len(log) + 1)]
      /\ UNCHANGED <<stage, after, todo, cursor, got, losses, read>>
      BY DEF Beat, CreateEvent, apps
<1>2. LogGrows BY <1>1 DEF LogGrows, Kinds
<1>3. log \in Seq(Kinds) /\ log' \in Seq(Kinds) /\ Len(log) \in Nat
      BY <1>2, LogGrowsBy DEF Inv, TypeOK, Kinds
<1>4. Append(net[c], Len(log) + 1) \in Cursors
  <2>1. Len(log) + 1 \in Nat \ {0} BY <1>3
  <2> QED BY <2>1, Parts, AppendProperties DEF Cursors
<1>5. TypeOK' BY <1>1, <1>3, <1>4 DEF Inv, TypeOK, Kinds
<1>6. net'[c] = Append(net[c], Len(log) + 1) BY <1>1 DEF Inv, TypeOK
<1>7. todo[c] = <<>> BY <1>1 DEF Inv, ConnOK
<1>8. Run(c)' = Append(Run(c), Len(log) + 1)
  <2>1. Len(log) + 1 \in Nat \ {0} BY <1>3
  <2>2. got[c] \in Cursors /\ net[c] \in Cursors /\ todo[c] \in Cursors BY Parts
  <2>3. (got[c] \o Append(net[c], Len(log) + 1)) \o <<>>
        = Append((got[c] \o net[c]) \o <<>>, Len(log) + 1)
        BY <2>1, <2>2, BeatRun
  <2> QED BY <1>1, <1>6, <1>7, <2>3 DEF Run
<1>9. Fits(Run(c)', log') BY <1>1, <1>3, <1>8, FitsBeat DEF Inv, ConnOK
<1>10. ConnOK(c)' BY <1>1, <1>9 DEF Inv, ConnOK
<1> QED BY <1>1, <1>2, <1>5, <1>10, ConnSteps DEF Inv, TypeOK

LEMMA ReceiveStep == ASSUME Inv, NEW c \in Clients, Receive(c) PROVE Inv'
<1>1. /\ net[c] # <<>>
      /\ cursor' = [cursor EXCEPT ![c] = Head(net[c])]
      /\ got' = [got EXCEPT ![c] = Append(got[c], Head(net[c]))]
      /\ net' = [net EXCEPT ![c] = Tail(net[c])]
      /\ UNCHANGED <<log, stage, after, todo, losses, read>>
      BY DEF Receive
<1>2. LogGrows BY <1>1 DEF LogGrows
<1>3. /\ (Append(got[c], Head(net[c])) \o Tail(net[c])) \o todo[c] = Run(c)
      /\ Append(got[c], Head(net[c])) \in Cursors /\ Tail(net[c]) \in Cursors
      /\ Head(net[c]) \in Nat \ {0}
      /\ Last(Append(got[c], Head(net[c]))) = Head(net[c])
  <2>1. got[c] \in Cursors /\ net[c] \in Cursors /\ todo[c] \in Cursors BY Parts
  <2> QED BY <1>1, <2>1, ReceiveRun DEF Run
<1>4. TypeOK' BY <1>1, <1>3 DEF Inv, TypeOK
<1>5. /\ net'[c] = Tail(net[c]) /\ got'[c] = Append(got[c], Head(net[c]))
      /\ cursor'[c] = Head(net[c])
      BY <1>1 DEF Inv, TypeOK
<1>6. Run(c)' = Run(c) BY <1>1, <1>3, <1>5 DEF Run
<1>7. stage[c] \notin {"closed", "accepted"} BY <1>1 DEF Inv, ConnOK
<1>8. ConnOK(c)' BY <1>1, <1>3, <1>5, <1>6, <1>7 DEF Inv, ConnOK
<1> QED BY <1>1, <1>2, <1>4, <1>8, ConnSteps DEF Inv, TypeOK

LEMMA LoseStep == ASSUME Inv, NEW c \in Clients, Lose(c) PROVE Inv'
<1>1. /\ losses' = [losses EXCEPT ![c] = losses[c] + 1]
      /\ stage' = [stage EXCEPT ![c] = "closed"]
      /\ todo' = [todo EXCEPT ![c] = <<>>] /\ net' = [net EXCEPT ![c] = <<>>]
      /\ UNCHANGED <<log, after, cursor, got, read>>
      BY DEF Lose, Hangup
<1>2. LogGrows BY <1>1 DEF LogGrows
<1>3. TypeOK' BY <1>1, EmptySeq DEF Inv, TypeOK, Cursors
<1>4. stage'[c] = "closed" /\ todo'[c] = <<>> /\ net'[c] = <<>> BY <1>1 DEF Inv, TypeOK
<1>5. Run(c)' = got[c]
  <2>1. got[c] \in Cursors BY Parts
  <2>2. (got[c] \o <<>>) \o <<>> = got[c] BY <2>1, LostRun
  <2> QED BY <1>1, <1>4, <2>2 DEF Run
<1>6. ConnOK(c)' BY <1>1, <1>4, <1>5, Parts DEF ConnOK
<1> QED BY <1>1, <1>2, <1>3, <1>6, ConnSteps DEF Inv, TypeOK

LEMMA RelaunchStep == ASSUME Inv, NEW c \in Clients, Relaunch(c) PROVE Inv'
<1>1. /\ losses' = [losses EXCEPT ![c] = losses[c] + 1]
      /\ stage' = [stage EXCEPT ![c] = "closed"]
      /\ todo' = [todo EXCEPT ![c] = <<>>] /\ net' = [net EXCEPT ![c] = <<>>]
      /\ cursor' = [cursor EXCEPT ![c] = 0] /\ got' = [got EXCEPT ![c] = <<>>]
      /\ UNCHANGED <<log, after, read>>
      BY DEF Relaunch, Hangup
<1>2. LogGrows BY <1>1 DEF LogGrows
<1>3. TypeOK' BY <1>1, EmptySeq DEF Inv, TypeOK, Cursors
<1>4. /\ stage'[c] = "closed" /\ todo'[c] = <<>> /\ net'[c] = <<>>
      /\ cursor'[c] = 0 /\ got'[c] = <<>>
      BY <1>1 DEF Inv, TypeOK
<1>5. Run(c)' = <<>> BY <1>4, EmptySeq, ConcatEmptySeq DEF Run
<1>6. Fits(<<>>, log') BY EmptyFits
<1>7. ConnOK(c)' BY <1>4, <1>5, <1>6 DEF ConnOK, Last
<1> QED BY <1>1, <1>2, <1>3, <1>7, ConnSteps DEF Inv, TypeOK

LEMMA PageStep ==
  ASSUME Inv, NEW p \in Pagers, NEW limit \in PageLimits, Page(p, limit) PROVE Inv'
<1> DEFINE m == Len(read[p])
           t == ListEventsAfter(NextCursor(p), limit)
<1>1. /\ read' = [read EXCEPT ![p] = read[p] \o t]
      /\ UNCHANGED <<log, stage, after, todo, net, cursor, got, losses>>
      BY DEF Page, conns, apps
<1>2. LogGrows BY <1>1 DEF LogGrows
<1>3. /\ read[p] \in Cursors /\ m \in Nat /\ Len(log) \in Nat
      /\ read[p] = [i \in 1..m |-> i] /\ m <= Len(log)
  <2>1. read[p] \in Cursors /\ PagerOK(p) BY DEF Inv, TypeOK
  <2> QED BY <1>2, <2>1, LogGrowsBy, LenProperties DEF Cursors, PagerOK
<1>4. NextCursor(p) = m
  <2>1. CASE m = 0 BY <1>3, <2>1, EmptySeq DEF NextCursor, Last, Cursors
  <2>2. CASE m # 0
    <3>1. read[p] # <<>> BY <2>2
    <3>2. m \in 1..m BY <1>3, <2>2
    <3> QED BY <1>3, <3>1, <3>2 DEF NextCursor, Last
  <2> QED BY <2>1, <2>2
<1>5. PICK n \in Nat : n <= Len(log) - m /\ t = [i \in 1..n |-> m + i]
  <2>1. limit \in Int BY ConstantsAssumption
  <2>2. \E n \in Nat : /\ n <= Len(log) - m
                       /\ ListEventsAfter(m, limit) = [i \in 1..n |-> m + i]
    <3>1. PICK k \in Nat : k = m BY <1>3
    <3>2. k <= Len(log) /\ Len(log) \in Nat BY <1>3, <3>1
    <3>3. \E n \in Nat : /\ n <= Len(log) - k
                         /\ ListEventsAfter(k, limit) = [i \in 1..n |-> k + i]
          BY <2>1, <3>2, ListIsNext
    <3> QED BY <3>1, <3>3
  <2> QED BY <1>4, <2>2
<1>6. read[p] \o t = [i \in 1..m + n |-> i] BY <1>3, <1>5, CountOn
<1>7. [i \in 1..m + n |-> i] \in Cursors /\ Len([i \in 1..m + n |-> i]) = m + n
  <2>1. m + n \in Nat BY <1>3, <1>5
  <2> QED BY <2>1, CountingIsCursors
<1>8. read'[p] = [i \in 1..m + n |-> i] BY <1>1, <1>6 DEF Inv, TypeOK
<1>9. TypeOK'
  <2>1. read' = [read EXCEPT ![p] = [i \in 1..m + n |-> i]] BY <1>1, <1>6
  <2> QED BY <1>1, <1>7, <2>1 DEF Inv, TypeOK
<1>10. \A c \in Clients : ConnOK(c)' BY <1>1, <1>2, OthersKeepConnOK
<1>11. PagerOK(p)'
  <2>1. Len(read'[p]) = m + n BY <1>7, <1>8
  <2>2. m + n <= Len(log') BY <1>1, <1>3, <1>5
  <2> QED BY <1>8, <2>1, <2>2 DEF PagerOK
<1>12. \A q \in Pagers : q # p => PagerOK(q)'
       BY <1>1 DEF Inv, TypeOK, PagerOK
<1> QED BY <1>9, <1>10, <1>11, <1>12 DEF Inv

-----------------------------------------------------------------------------
(* The theorems *)

LEMMA InitInv == Init => Inv
<1> SUFFICES ASSUME Init PROVE Inv
    OBVIOUS
<1>1. TypeOK BY EmptySeq DEF Init, TypeOK, Cursors
<1>2. ASSUME NEW c \in Clients PROVE ConnOK(c)
  <2>1. Run(c) = <<>> BY EmptySeq, ConcatEmptySeq DEF Init, Run
  <2>2. Fits(<<>>, log) BY EmptyFits
  <2> QED BY <2>1, <2>2 DEF Init, ConnOK, Last
<1>3. ASSUME NEW p \in Pagers PROVE PagerOK(p)
  <2>1. read[p] = <<>> /\ log = <<>> /\ Len(<<>>) = 0 BY EmptySeq DEF Init
  <2>2. [i \in 1..0 |-> i] = <<>>
    <3>1. [i \in 1..0 |-> i] \in Cursors /\ Len([i \in 1..0 |-> i]) = 0 BY CountingIsCursors
    <3> QED BY <3>1, EmptySeq DEF Cursors
  <2> QED BY <2>1, <2>2 DEF PagerOK
<1> QED BY <1>1, <1>2, <1>3 DEF Inv

LEMMA NextInv == Inv /\ [Next]_vars => Inv'
<1> SUFFICES ASSUME Inv, [Next]_vars PROVE Inv'
    OBVIOUS
<1>1. CASE Publish BY <1>1, PublishStep
<1>2. ASSUME NEW c \in Clients, Connect(c) PROVE Inv' BY <1>2, ConnectStep
<1>3. ASSUME NEW c \in Clients, Replay(c) PROVE Inv' BY <1>3, ReplayStep
<1>4. ASSUME NEW c \in Clients, Send(c) PROVE Inv' BY <1>4, SendStep
<1>5. ASSUME NEW c \in Clients, Listen(c) PROVE Inv' BY <1>5, ListenStep
<1>6. ASSUME NEW c \in Clients, Beat(c) PROVE Inv' BY <1>6, BeatStep
<1>7. ASSUME NEW c \in Clients, Receive(c) PROVE Inv' BY <1>7, ReceiveStep
<1>8. ASSUME NEW c \in Clients, Lose(c) PROVE Inv' BY <1>8, LoseStep
<1>9. ASSUME NEW c \in Clients, Relaunch(c) PROVE Inv' BY <1>9, RelaunchStep
<1>10. ASSUME NEW p \in Pagers, NEW limit \in PageLimits, Page(p, limit) PROVE Inv'
       BY <1>10, PageStep
<1>11. CASE UNCHANGED vars
       BY <1>11 DEF Inv, TypeOK, ConnOK, PagerOK, Run, vars, conns, apps
<1> QED BY <1>1, <1>2, <1>3, <1>4, <1>5, <1>6, <1>7, <1>8, <1>9, <1>10, <1>11 DEF Next

LEMMA Invariant == Spec => []Inv
BY InitInv, NextInv, PTL DEF Spec

\* Every variable has its type: cursors in particular stay positive numbers.
THEOREM EventStreamTyped == Spec => []TypeOK
<1>1. Inv => TypeOK BY DEF Inv
<1> QED BY <1>1, Invariant, PTL

\* What an app has handled, what is on its way and what is still to be sent form one
\* ascending run, over any number of lost connections, and the app resumes right after
\* what it has handled.
THEOREM OneAscendingRunHolds == Spec => []OneAscendingRun
<1>1. Inv => OneAscendingRun BY DEF Inv, ConnOK, Fits, Run, OneAscendingRun, Ascending
<1> QED BY <1>1, Invariant, PTL

\* An app is only ever made to step over events by a heartbeat of its own stream or of
\* another: no backlog, of whatever size, has a gap.
THEOREM OnlyBeatsJumpHolds == Spec => []OnlyBeatsJump
<1>1. Inv => OnlyBeatsJump
  <2> SUFFICES ASSUME Inv PROVE OnlyBeatsJump
      OBVIOUS
  <2>1. \A c \in Clients : Fits(got[c], log) BY Parts
  <2> QED BY <2>1 DEF OnlyBeatsJump, Fits
<1> QED BY <1>1, Invariant, PTL

\* A reader that follows next_cursor reads every event once and in order, whatever
\* limits it asks for: zero, fewer than there are, or negative for no limit.
THEOREM PagesMissNothingHolds == Spec => []PagesMissNothing
<1>1. Inv => PagesMissNothing BY DEF Inv, PagerOK, PagesMissNothing
<1> QED BY <1>1, Invariant, PTL
=============================================================================
