--------------------------- MODULE Tables_proofs ---------------------------
(***************************************************************************)
(* Proofs about three tables of the kernel.                                *)
(*                                                                         *)
(* Callout: its inductive invariant CInv, and that the table of differences*)
(* implements Timers (CalloutImplementsTimers).                            *)
(*                                                                         *)
(* The two allocators of malloc.c.  ResourceMap: the inductive invariant   *)
(* MapInv, the order of the list (MapStaysOrdered), and the refinement of  *)
(* FreeUnits (MapImplementsFirstFit).  CoreMap: the cache of frame numbers *)
(* and the scan of memall (CoreIInv).                                      *)
(***************************************************************************)
EXTENDS Callout, CoreMap, ResourceMap, FiniteSetTheorems, SequenceTheorems,
        WellFoundedInduction, TLAPS

\* A set of numbers that has a member has a least one.
LEMMA Least ==
    ASSUME NEW S \in SUBSET Nat, S # {}
    PROVE  \E n \in S : \A k \in S : n <= k
  <1> DEFINE R == OpToRel(<, Nat)
  <1>1. IsWellFoundedOn(R, Nat)
    BY NatLessThanWellFounded
  <1>2. \A x, y \in Nat : x < y => <<x, y>> \in R
    BY DEF OpToRel
  <1> HIDE DEF R
  <1>3. PICK n \in S : \A y \in S : ~ (<<y, n>> \in R)
    BY <1>1, WFMin
  <1>4. ASSUME NEW k \in S PROVE n <= k
    <2>1. n \in Nat /\ k \in Nat /\ <<k, n>> \notin R
      BY <1>3
    <2>2. ~ (k < n)
      BY <1>2, <2>1
    <2> QED  BY <2>1, <2>2
  <1> QED  BY <1>4

-----------------------------------------------------------------------------
(* Callout: the table as a sequence of entries.                            *)

Entries == [call : Call, time : Nat]

-----------------------------------------------------------------------------
(* Sums.                                                                   *)

\* An entry of a table.
LEMMA EntryType ==
    ASSUME NEW l \in Seq(Entries), NEW i \in 1..Len(l)
    PROVE  l[i] \in Entries /\ l[i].call \in Call /\ l[i].time \in Nat
  <1>1. l[i] \in Entries
    OBVIOUS
  <1> QED  BY <1>1 DEF Entries

\* g is what Sums computes.
AddsUp(g, l) == g = [i \in 0..Len(l) |-> IF i = 0 THEN 0 ELSE g[i - 1] + l[i].time]

\* There are sums for every table, as far as one looks.
LEMMA SumsExist ==
    ASSUME NEW l \in Seq(Entries)
    PROVE  \E g : AddsUp(g, l)
  <1> DEFINE Upto(g, k) == g = [i \in 0..k |-> IF i = 0 THEN 0 ELSE g[i - 1] + l[i].time]
             S == {k \in Nat : ~ \E g : Upto(g, k)}
  <1>0. Len(l) \in Nat
    OBVIOUS
  <1>1. SUFFICES ASSUME S # {} PROVE FALSE
    BY <1>0 DEF AddsUp
  <1>2. PICK k \in S : \A j \in S : k <= j
    BY <1>1, Least
  <1>3. k # 0
    <2>1. Upto([i \in 0..0 |-> 0], 0)
      OBVIOUS
    <2> QED  BY <2>1
  <1>4. PICK g : Upto(g, k - 1)
    <2>1. k - 1 \in Nat /\ ~ (k <= k - 1)
      BY <1>3
    <2>2. k - 1 \notin S
      BY <1>2, <2>1
    <2> QED  BY <2>1, <2>2
  <1> DEFINE h == [i \in 0..k |-> IF i = k THEN g[k - 1] + l[k].time ELSE g[i]]
  <1>5. Upto(h, k)
    <2>1. ASSUME NEW i \in 0..k
          PROVE  h[i] = IF i = 0 THEN 0 ELSE h[i - 1] + l[i].time
      <3>1. CASE i = k
        <4>1. i # 0 /\ i - 1 \in 0..k /\ i - 1 # k
          BY <1>3, <3>1
        <4>2. h[i - 1] = g[k - 1] /\ h[i] = g[k - 1] + l[k].time
          BY <4>1, <3>1
        <4> QED  BY <4>1, <4>2, <3>1
      <3>2. CASE i # k
        <4>1. i \in 0 .. k - 1 /\ h[i] = g[i]
          BY <3>2
        <4>2. g[i] = IF i = 0 THEN 0 ELSE g[i - 1] + l[i].time
          BY <1>4, <4>1
        <4>3. i # 0 => h[i - 1] = g[i - 1]
          BY <4>1
        <4> QED  BY <4>1, <4>2, <4>3
      <3> QED  BY <3>1, <3>2
    <2> HIDE DEF h
    <2>2. h = [i \in 0..k |-> h[i]]
      BY DEF h
    <2> QED  BY <2>1, <2>2
  <1> QED  BY <1>2, <1>5

\* What Sums computes.
LEMMA SumsAddUp ==
    ASSUME NEW l \in Seq(Entries)
    PROVE  /\ Sums(l)[0] = 0
           /\ \A i \in 1..Len(l) : Sums(l)[i] = Sums(l)[i - 1] + l[i].time
  <1>1. \E g : g = [i \in 0..Len(l) |-> IF i = 0 THEN 0 ELSE g[i - 1] + l[i].time]
    BY SumsExist DEF AddsUp
  <1>2. Sums(l) = CHOOSE g : g = [i \in 0..Len(l) |-> IF i = 0 THEN 0 ELSE g[i - 1] + l[i].time]
    BY DEF Sums
  <1> DEFINE s == Sums(l)
  <1>3. s = [i \in 0..Len(l) |-> IF i = 0 THEN 0 ELSE s[i - 1] + l[i].time]
    BY <1>1, <1>2
  <1>4. Len(l) \in Nat
    OBVIOUS
  <1> HIDE DEF s
  <1>5. s[0] = 0 /\ \A i \in 1..Len(l) : s[i] = s[i - 1] + l[i].time
    BY <1>3, <1>4
  <1> QED  BY <1>5 DEF s

\* The sums are numbers.
LEMMA SumsType ==
    ASSUME NEW l \in Seq(Entries)
    PROVE  \A i \in 0..Len(l) : Sums(l)[i] \in Nat
  <1> DEFINE s == Sums(l)
             S == {i \in 0..Len(l) : s[i] \notin Nat}
  <1>0. Len(l) \in Nat /\ s[0] = 0 /\ \A i \in 1..Len(l) : s[i] = s[i - 1] + l[i].time
    BY SumsAddUp
  <1>t. \A i \in 1..Len(l) : l[i].time \in Nat
    BY EntryType
  <1> HIDE DEF s
  <1>1. SUFFICES ASSUME S # {} PROVE FALSE
    BY DEF s
  <1>2. PICK k \in S : \A j \in S : k <= j
    <2>1. S \in SUBSET Nat
      BY <1>0
    <2> QED  BY <1>1, <2>1, Least
  <1>3. k # 0
    BY <1>0
  <1>4. k \in 1..Len(l) /\ k - 1 \in 0..Len(l) /\ ~ (k <= k - 1)
    BY <1>0, <1>3
  <1>5. s[k - 1] \in Nat
    BY <1>2, <1>4
  <1> QED  BY <1>0, <1>t, <1>4, <1>5

\* Only one function adds up.
SumsTo(g, l) == g[0] = 0 /\ \A i \in 1..Len(l) : g[i] = g[i - 1] + l[i].time
LEMMA SumsUnique ==
    ASSUME NEW l \in Seq(Entries), NEW g, SumsTo(g, l)
    PROVE  \A i \in 0..Len(l) : Sums(l)[i] = g[i]
  <1> DEFINE s == Sums(l)
             S == {i \in 0..Len(l) : s[i] # g[i]}
  <1>0. Len(l) \in Nat /\ s[0] = 0 /\ \A i \in 1..Len(l) : s[i] = s[i - 1] + l[i].time
    BY SumsAddUp
  <1> HIDE DEF s
  <1>1. SUFFICES ASSUME S # {} PROVE FALSE
    BY DEF s
  <1>2. PICK k \in S : \A j \in S : k <= j
    <2>1. S \in SUBSET Nat
      BY <1>0
    <2> QED  BY <1>1, <2>1, Least
  <1>6. g[0] = 0 /\ \A i \in 1..Len(l) : g[i] = g[i - 1] + l[i].time
    BY DEF SumsTo
  <1>3. k # 0
    <2>1. s[k] # g[k]
      BY <1>2
    <2> QED  BY <1>0, <1>6, <2>1
  <1>4. k \in 1..Len(l) /\ k - 1 \in 0..Len(l) /\ ~ (k <= k - 1)
    BY <1>0, <1>3
  <1>5. s[k - 1] = g[k - 1]
    BY <1>2, <1>4
  <1> QED  BY <1>0, <1>4, <1>5, <1>6

\* Later entries are due no earlier.
LEMMA SumsGrow ==
    ASSUME NEW l \in Seq(Entries), NEW i \in 0..Len(l), NEW j \in i..Len(l)
    PROVE  Sums(l)[i] <= Sums(l)[j]
  <1> DEFINE s == Sums(l)
             S == {k \in i..Len(l) : ~ (s[i] <= s[k])}
  <1>0. /\ Len(l) \in Nat /\ i \in Nat
        /\ \A k \in 1..Len(l) : s[k] = s[k - 1] + l[k].time
        /\ \A k \in 0..Len(l) : s[k] \in Nat
    BY SumsAddUp, SumsType
  <1>t. \A k \in 1..Len(l) : l[k].time \in Nat
    BY EntryType
  <1> HIDE DEF s
  <1>1. SUFFICES ASSUME S # {} PROVE FALSE
    BY DEF s
  <1>2. PICK k \in S : \A m \in S : k <= m
    <2>1. S \in SUBSET Nat
      BY <1>0
    <2> QED  BY <1>1, <2>1, Least
  <1>3. k # i
    BY <1>0
  <1>4. k \in 1..Len(l) /\ k - 1 \in i..Len(l) /\ ~ (k <= k - 1) /\ k - 1 \in 0..Len(l)
    BY <1>0, <1>3
  <1>5. s[i] <= s[k - 1]
    BY <1>2, <1>4
  <1>6. /\ s[k] = s[k - 1] + l[k].time /\ l[k].time \in Nat
        /\ s[k - 1] \in Nat /\ s[i] \in Nat
    <2>1. i \in 0..Len(l)
      OBVIOUS
    <2> QED  BY <1>0, <1>t, <1>4, <2>1
  <1>7. s[i] <= s[k]
    BY <1>5, <1>6
  <1>8. ~ (s[i] <= s[k])
    OBVIOUS
  <1> QED  BY <1>7, <1>8

\* An entry that is due now has nothing but zeros up to it, and the other way
\* round.
LEMMA SumsZero ==
    ASSUME NEW l \in Seq(Entries), NEW n \in 0..Len(l)
    PROVE  (Sums(l)[n] = 0) <=> (\A i \in 1..n : l[i].time = 0)
  <1> DEFINE s == Sums(l)
             S == {i \in 0..n : s[i] # 0}
  <1>0. /\ Len(l) \in Nat /\ n \in Nat /\ n <= Len(l) /\ s[0] = 0
        /\ \A k \in 1..Len(l) : s[k] = s[k - 1] + l[k].time
        /\ \A k \in 0..Len(l) : s[k] \in Nat
    BY SumsAddUp, SumsType
  <1>t. \A k \in 1..Len(l) : l[k].time \in Nat
    BY EntryType
  <1>g. \A i \in 0..n : s[i] <= s[n]
    <2> TAKE i \in 0..n
    <2>1. i \in 0..Len(l) /\ n \in i..Len(l)
      BY <1>0
    <2> QED  BY <2>1, SumsGrow
  <1> HIDE DEF s
  <1>1. ASSUME s[n] = 0, NEW i \in 1..n PROVE l[i].time = 0
    <2>1. i \in 0..n /\ i - 1 \in 0..n /\ i \in 1..Len(l)
      BY <1>0
    <2>2. s[i] = 0 /\ s[i - 1] = 0
      BY <1>0, <1>1, <1>g, <2>1
    <2> QED  BY <1>0, <1>t, <2>1, <2>2
  <1>2. ASSUME \A i \in 1..n : l[i].time = 0, S # {} PROVE FALSE
    <2>1. PICK k \in S : \A m \in S : k <= m
      <3>1. S \in SUBSET Nat
        BY <1>0
      <3> QED  BY <1>2, <3>1, Least
    <2>2. k # 0
      BY <1>0
    <2>3. k \in 1..n /\ k \in 1..Len(l) /\ k - 1 \in 0..n /\ ~ (k <= k - 1)
      BY <1>0, <2>2
    <2>4. s[k - 1] = 0
      BY <2>1, <2>3
    <2>5. l[k].time = 0 /\ s[k] = s[k - 1] + l[k].time /\ s[k] # 0
      BY <1>0, <1>2, <2>1, <2>3
    <2> QED  BY <2>4, <2>5
  <1>3. n \in 0..n
    BY <1>0
  <1>4. (\A i \in 1..n : l[i].time = 0) => s[n] = 0
    BY <1>2, <1>3
  <1> QED  BY <1>1, <1>4 DEF s

-----------------------------------------------------------------------------
(* Places in a sequence.                                                   *)

\* What is inserted, and where the rest is then.
LEMMA Insertion ==
    ASSUME NEW S, NEW s \in Seq(S), NEW i \in 1 .. Len(s) + 1, NEW e \in S
    PROVE  /\ InsertAt(s, i, e) \in Seq(S)
           /\ Len(InsertAt(s, i, e)) = Len(s) + 1
           /\ \A j \in 1 .. i - 1 : InsertAt(s, i, e)[j] = s[j]
           /\ InsertAt(s, i, e)[i] = e
           /\ \A j \in i + 1 .. Len(s) + 1 : InsertAt(s, i, e)[j] = s[j - 1]
  <1> DEFINE a == SubSeq(s, 1, i - 1)
             b == <<e>>
             d == SubSeq(s, i, Len(s))
             ab == a \o b
  <1>0. Len(s) \in Nat /\ i \in Nat /\ i - 1 \in Int /\ (\A j \in 1 .. Len(s) : s[j] \in S)
    OBVIOUS
  <1>1. a \in Seq(S) /\ Len(a) = i - 1 /\ \A j \in 1 .. i - 1 : a[j] = s[j]
    <2>1. \A j \in 1 .. i - 1 : s[j] \in S
      BY <1>0
    <2>2. /\ a \in Seq(S) /\ Len(a) = IF 1 <= i - 1 THEN (i - 1) - 1 + 1 ELSE 0
          /\ \A j \in 1 .. (i - 1) - 1 + 1 : a[j] = s[1 + j - 1]
      BY <1>0, <2>1, SubSeqProperties
    <2>3. Len(a) = i - 1
      BY <1>0, <2>2
    <2>4. ASSUME NEW j \in 1 .. i - 1 PROVE a[j] = s[j]
      <3>1. j \in 1 .. (i - 1) - 1 + 1 /\ 1 + j - 1 = j
        BY <1>0
      <3> QED  BY <2>2, <3>1
    <2> QED  BY <2>2, <2>3, <2>4
  <1>2. d \in Seq(S) /\ Len(d) = Len(s) - i + 1 /\ \A j \in 1 .. Len(s) - i + 1 : d[j] = s[i + j - 1]
    <2>1. \A j \in i .. Len(s) : s[j] \in S
      BY <1>0
    <2>2. /\ d \in Seq(S) /\ Len(d) = IF i <= Len(s) THEN Len(s) - i + 1 ELSE 0
          /\ \A j \in 1 .. Len(s) - i + 1 : d[j] = s[i + j - 1]
      BY <1>0, <2>1, SubSeqProperties
    <2> QED  BY <1>0, <2>2
  <1>3. b \in Seq(S) /\ Len(b) = 1 /\ b[1] = e
    OBVIOUS
  <1>4. InsertAt(s, i, e) = ab \o d
    BY DEF InsertAt
  <1> HIDE DEF a, b, d
  <1>5. ab \in Seq(S) /\ Len(ab) = i /\ \A j \in 1 .. i : ab[j] = IF j <= i - 1 THEN a[j] ELSE b[j - (i - 1)]
    <2>1. /\ ab \in Seq(S) /\ Len(ab) = Len(a) + Len(b)
          /\ \A j \in 1 .. Len(a) + Len(b) : ab[j] = IF j <= Len(a) THEN a[j] ELSE b[j - Len(a)]
      BY <1>1, <1>3, ConcatProperties
    <2>2. Len(a) + Len(b) = i
      BY <1>0, <1>1, <1>3
    <2> QED  BY <1>1, <2>1, <2>2
  <1> HIDE DEF ab
  <1>6. /\ ab \o d \in Seq(S) /\ Len(ab \o d) = Len(s) + 1
        /\ \A j \in 1 .. Len(s) + 1 : (ab \o d)[j] = IF j <= i THEN ab[j] ELSE d[j - i]
    <2>1. /\ ab \o d \in Seq(S) /\ Len(ab \o d) = Len(ab) + Len(d)
          /\ \A j \in 1 .. Len(ab) + Len(d) : (ab \o d)[j] = IF j <= Len(ab) THEN ab[j] ELSE d[j - Len(ab)]
      BY <1>2, <1>5, ConcatProperties
    <2>2. Len(ab) + Len(d) = Len(s) + 1
      BY <1>0, <1>2, <1>5
    <2> QED  BY <1>5, <2>1, <2>2
  <1>7. ASSUME NEW j \in 1 .. i - 1 PROVE (ab \o d)[j] = s[j]
    <2>1. j \in 1 .. i /\ j \in 1 .. Len(s) + 1 /\ j <= i /\ j <= i - 1
      BY <1>0
    <2> QED  BY <1>1, <1>5, <1>6, <2>1
  <1>8. (ab \o d)[i] = e
    <2>1. i \in 1 .. i /\ i \in 1 .. Len(s) + 1 /\ i <= i /\ ~ (i <= i - 1) /\ i - (i - 1) = 1
      BY <1>0
    <2> QED  BY <1>3, <1>5, <1>6, <2>1
  <1>9. ASSUME NEW j \in i + 1 .. Len(s) + 1 PROVE (ab \o d)[j] = s[j - 1]
    <2>1. /\ j \in 1 .. Len(s) + 1 /\ ~ (j <= i)
          /\ j - i \in 1 .. Len(s) - i + 1 /\ i + (j - i) - 1 = j - 1
      BY <1>0
    <2> QED  BY <1>2, <1>6, <2>1
  <1> QED  BY <1>4, <1>6, <1>7, <1>8, <1>9

\* The numbers up to n are n of those up to m.
LEMMA Prefix ==
    ASSUME NEW m \in Nat, NEW n \in 0..m, NEW P \in SUBSET (1..m),
           \A i \in 1..m : i \in P <=> i <= n
    PROVE  Cardinality(P) = n
  <1>1. P = 1..n
    <2>1. \A i \in 1..n : i \in 1..m /\ i <= n
      OBVIOUS
    <2>2. \A i \in P : i \in 1..m /\ i <= n
      OBVIOUS
    <2>3. \A i \in P : i \in 1..n
      BY <2>2
    <2>4. \A i \in 1..n : i \in P
      BY <2>1
    <2> QED  BY <2>3, <2>4, Zenon
  <1>2. Cardinality(1..n) = n
    BY FS_Interval
  <1> QED  BY <1>1, <1>2

\* timeout passes over the entries that are due no later, which are the first.
LEMMA Position ==
    ASSUME list \in Seq(Entries), NEW t \in Nat
    PROVE  /\ Passed(t) \in 0..Len(list) /\ Elapsed(Passed(t)) <= t
           /\ \A i \in 1..Len(list) : Elapsed(i) <= t <=> i <= Passed(t)
  <1> DEFINE S == {i \in Nat : i > Len(list) \/ (i \in 1..Len(list) /\ ~ (Elapsed(i) <= t))}
  <1>0. /\ Len(list) \in Nat /\ DOMAIN list = 1..Len(list)
        /\ Elapsed(0) = 0 /\ \A i \in 0..Len(list) : Elapsed(i) \in Nat
    BY SumsAddUp, SumsType DEF Elapsed
  <1>1. PICK k \in S : \A j \in S : k <= j
    <2>1. Len(list) + 1 \in S
      BY <1>0
    <2> QED  BY <2>1, Least
  <1> DEFINE n == k - 1
  <1>2. n \in 0..Len(list) /\ k = n + 1
    <2>1. Len(list) + 1 \in S
      BY <1>0
    <2>2. k <= Len(list) + 1 /\ k \in Nat /\ k # 0
      BY <1>0, <1>1, <2>1
    <2> QED  BY <1>0, <2>2
  <1> HIDE DEF n
  <1>3. ASSUME NEW i \in 1..Len(list) PROVE Elapsed(i) <= t <=> i <= n
    <2>1. CASE i <= n
      <3>1. i \in Nat /\ ~ (k <= i)
        BY <1>2, <2>1
      <3>2. i \notin S
        BY <1>1, <3>1
      <3> QED  BY <1>0, <2>1, <3>2
    <2>2. CASE ~ (i <= n)
      <3>1. k \in 0..Len(list) /\ i \in k..Len(list) /\ ~ (k > Len(list))
        BY <1>0, <1>2, <2>2
      <3>2. Elapsed(k) <= Elapsed(i)
        BY <3>1, SumsGrow DEF Elapsed
      <3>3. ~ (Elapsed(k) <= t)
        BY <1>1, <3>1, <1>0
      <3> QED  BY <1>0, <2>2, <3>1, <3>2, <3>3
    <2> QED  BY <2>1, <2>2
  <1>4. Passed(t) = n
    <2> DEFINE P == {i \in 1..Len(list) : Elapsed(i) <= t}
    <2>2. P \in SUBSET (1..Len(list)) /\ \A i \in 1..Len(list) : i \in P <=> i <= n
      BY <1>3
    <2> HIDE DEF P
    <2>3. Cardinality(P) = n
      BY <1>0, <1>2, <2>2, Prefix
    <2>1. Cardinality({i \in 1..Len(list) : Elapsed(i) <= t}) = n
      BY <2>3 DEF P
    <2> QED  BY <1>0, <2>1 DEF Passed
  <1>5. Elapsed(n) <= t
    <2>1. CASE n = 0
      BY <1>0, <2>1
    <2>2. CASE n # 0
      <3>1. n \in 1..Len(list) /\ n <= n
        BY <1>2, <2>2
      <3> QED  BY <1>3, <3>1
    <2> QED  BY <2>1, <2>2
  <1> QED  BY <1>2, <1>3, <1>4, <1>5

-----------------------------------------------------------------------------
(* timeout.                                                                *)

\* The table with a call of c in t ticks.
With(c, t) ==
    InsertAt(Shortened(Passed(t), t), Passed(t) + 1, [call |-> c, time |-> t - Elapsed(Passed(t))])

\* The new entry follows those due no later; when the others fall due does not
\* change.
LEMMA WithIs ==
    ASSUME list \in Seq(Entries), NEW c \in Call, NEW t \in Nat
    PROVE  LET n == Passed(t) IN
           /\ With(c, t) \in Seq(Entries) /\ Len(With(c, t)) = Len(list) + 1
           /\ \A i \in 1 .. n : With(c, t)[i] = list[i]
           /\ With(c, t)[n + 1].call = c
           /\ \A i \in n + 2 .. Len(list) + 1 : With(c, t)[i].call = list[i - 1].call
           /\ \A i \in 0 .. n : Sums(With(c, t))[i] = Elapsed(i)
           /\ Sums(With(c, t))[n + 1] = t
           /\ \A i \in n + 2 .. Len(list) + 1 : Sums(With(c, t))[i] = Elapsed(i - 1)
  <1> DEFINE n == Passed(t)
             e == [call |-> c, time |-> t - Elapsed(n)]
             s == Shortened(n, t)
             w == With(c, t)
             L == Len(list)
  <1>0. /\ L \in Nat /\ n \in 0..L /\ Elapsed(n) <= t
        /\ \A i \in 1..L : Elapsed(i) <= t <=> i <= n
    BY Position, SMTT(40)
  <1>1. /\ Elapsed(0) = 0 /\ \A i \in 0..L : Elapsed(i) \in Nat
        /\ \A i \in 1..L : Elapsed(i) = Elapsed(i - 1) + list[i].time
    BY SumsAddUp, SumsType DEF Elapsed
  <1>2. e \in Entries /\ e.call = c /\ e.time = t - Elapsed(n)
    BY <1>0, <1>1 DEF Entries
  <1>w. w = InsertAt(s, n + 1, e)
    BY DEF With
  <1>l. \A i \in 1..L : list[i] \in Entries /\ list[i].time \in Nat /\ list[i].call \in Call
    BY EntryType
  <1>d. L = Len(list) /\ list \in [1..L -> Entries]
    OBVIOUS
  <1>s. s = IF n < L THEN [list EXCEPT ![n + 1].time = @ - (t - Elapsed(n))] ELSE list
    BY DEF Shortened
  <1> HIDE DEF n, e, s, w, L
  <1>3. n < L => n + 1 \in 1..L /\ list[n + 1].time - (t - Elapsed(n)) \in Nat
    <2> SUFFICES ASSUME n < L PROVE n + 1 \in 1..L /\ list[n + 1].time - (t - Elapsed(n)) \in Nat
      OBVIOUS
    <2>1. n + 1 \in 1..L /\ ~ (n + 1 <= n) /\ (n + 1) - 1 = n
      BY <1>0
    <2>2. ~ (Elapsed(n + 1) <= t) /\ Elapsed(n + 1) = Elapsed(n) + list[n + 1].time
      BY <1>0, <1>1, <2>1
    <2>3. Elapsed(n + 1) \in Nat /\ Elapsed(n) \in Nat /\ list[n + 1].time \in Nat
      BY <1>0, <1>1, <1>l, <2>1
    <2> QED  BY <1>0, <2>1, <2>2, <2>3
  <1>4. /\ s \in Seq(Entries) /\ Len(s) = L
        /\ \A i \in 1..L : s[i].call = list[i].call
        /\ \A i \in 1..L : i # n + 1 => s[i] = list[i]
        /\ n < L => s[n + 1].time = list[n + 1].time - (t - Elapsed(n))
    <2>1. CASE n < L
      <3> DEFINE x == [list[n + 1] EXCEPT !.time = @ - (t - Elapsed(n))]
      <3>1. s = [list EXCEPT ![n + 1] = x]
        BY <1>s, <2>1
      <3>2. /\ x \in Entries /\ x.call = list[n + 1].call
            /\ x.time = list[n + 1].time - (t - Elapsed(n))
        BY <1>3, <1>l, <2>1 DEF Entries
      <3> HIDE DEF x
      <3>3. s \in [1..L -> Entries]
        BY <1>d, <3>1, <3>2
      <3>4. s \in Seq(Entries) /\ Len(s) = L
        BY <1>0, <3>3
      <3>5. \A i \in 1..L : s[i] = IF i = n + 1 THEN x ELSE list[i]
        BY <1>d, <3>1
      <3> QED  BY <1>3, <2>1, <3>2, <3>4, <3>5
    <2>2. CASE ~ (n < L)
      BY <1>s, <2>2, <1>d
    <2> QED  BY <2>1, <2>2
  <1>5. /\ w \in Seq(Entries) /\ Len(w) = L + 1
        /\ \A j \in 1 .. n : w[j] = s[j]
        /\ w[n + 1] = e
        /\ \A j \in n + 2 .. L + 1 : w[j] = s[j - 1]
    <2> DEFINE k == n + 1
    <2>1. k \in 1 .. Len(s) + 1 /\ s \in Seq(Entries)
      BY <1>0, <1>4
    <2>2. k - 1 = n /\ k + 1 = n + 2
      BY <1>0
    <2> HIDE DEF k
    <2>3. /\ InsertAt(s, k, e) \in Seq(Entries)
          /\ Len(InsertAt(s, k, e)) = Len(s) + 1
          /\ \A j \in 1 .. k - 1 : InsertAt(s, k, e)[j] = s[j]
          /\ InsertAt(s, k, e)[k] = e
          /\ \A j \in k + 1 .. Len(s) + 1 : InsertAt(s, k, e)[j] = s[j - 1]
      <3>1. e \in Entries
        BY <1>2
      <3>2. InsertAt(s, k, e) \in Seq(Entries)
        BY <2>1, <3>1, Insertion
      <3>3. Len(InsertAt(s, k, e)) = Len(s) + 1
        BY <2>1, <3>1, Insertion
      <3>4. \A j \in 1 .. k - 1 : InsertAt(s, k, e)[j] = s[j]
        BY <2>1, <3>1, Insertion
      <3>5. InsertAt(s, k, e)[k] = e
        BY <2>1, <3>1, Insertion
      <3>6. \A j \in k + 1 .. Len(s) + 1 : InsertAt(s, k, e)[j] = s[j - 1]
        BY <2>1, <3>1, Insertion
      <3> QED  BY <3>2, <3>3, <3>4, <3>5, <3>6
    <2>4. w = InsertAt(s, k, e) /\ k = n + 1
      BY <1>w DEF k
    <2> HIDE DEF k
    <2> QED  BY <1>4, <2>2, <2>3, <2>4
  <1>6. \A i \in 1 .. n : w[i] = list[i]
    <2> TAKE i \in 1 .. n
    <2>1. i \in 1..L /\ i # n + 1
      BY <1>0
    <2> QED  BY <1>4, <1>5, <2>1
  <1>7. w[n + 1].call = c /\ w[n + 1].time = t - Elapsed(n)
    BY <1>2, <1>5
  <1>8. \A i \in n + 2 .. L + 1 : w[i].call = list[i - 1].call
    <2> TAKE i \in n + 2 .. L + 1
    <2>1. i - 1 \in 1..L
      BY <1>0
    <2> QED  BY <1>4, <1>5, <2>1
  <1> DEFINE g == [i \in 0 .. L + 1 |-> IF i <= n THEN Elapsed(i) ELSE IF i = n + 1 THEN t ELSE Elapsed(i - 1)]
  <1>g. /\ \A i \in 0 .. n : g[i] = Elapsed(i)
        /\ g[n + 1] = t
        /\ \A i \in n + 2 .. L + 1 : g[i] = Elapsed(i - 1)
    <2>1. ASSUME NEW i \in 0 .. n PROVE g[i] = Elapsed(i)
      <3>1. i \in 0 .. L + 1 /\ i <= n
        BY <1>0
      <3> QED  BY <3>1
    <2>2. g[n + 1] = t
      <3>1. n + 1 \in 0 .. L + 1 /\ ~ (n + 1 <= n)
        BY <1>0
      <3> QED  BY <3>1
    <2>3. ASSUME NEW i \in n + 2 .. L + 1 PROVE g[i] = Elapsed(i - 1)
      <3>1. i \in 0 .. L + 1 /\ ~ (i <= n) /\ i # n + 1
        BY <1>0
      <3> QED  BY <3>1
    <2> QED  BY <2>1, <2>2, <2>3
  <1> HIDE DEF g
  <1>9. g[0] = 0
    <2>1. 0 \in 0 .. n
      BY <1>0
    <2> QED  BY <1>1, <1>g, <2>1
  <1>10. ASSUME NEW i \in 1 .. L + 1 PROVE g[i] = g[i - 1] + w[i].time
    <2>1. CASE i <= n
      <3>1. i \in 0 .. n /\ i - 1 \in 0 .. n /\ i \in 1 .. L /\ i \in 1 .. n
        BY <1>0, <2>1
      <3>2. g[i] = Elapsed(i) /\ g[i - 1] = Elapsed(i - 1) /\ w[i] = list[i]
        BY <1>6, <1>g, <3>1
      <3> QED  BY <1>1, <3>1, <3>2
    <2>2. CASE i = n + 1
      <3>1. n \in 0 .. n /\ i - 1 = n /\ Elapsed(n) \in Nat
        BY <1>0, <1>1, <2>2
      <3>2. g[i] = t /\ g[i - 1] = Elapsed(n) /\ w[i].time = t - Elapsed(n)
        BY <1>7, <1>g, <2>2, <3>1
      <3> QED  BY <3>1, <3>2
    <2>3. CASE i = n + 2
      <3>1. /\ n < L /\ i - 1 = n + 1 /\ i \in n + 2 .. L + 1 /\ n + 1 \in 1..L /\ (n + 1) - 1 = n
        BY <1>0, <2>3
      <3>2. /\ g[i] = Elapsed(n + 1) /\ g[i - 1] = t
            /\ Elapsed(n + 1) = Elapsed(n) + list[n + 1].time
        BY <1>1, <1>g, <3>1
      <3>3. w[i].time = list[n + 1].time - (t - Elapsed(n))
        BY <1>4, <1>5, <3>1
      <3>4. list[n + 1].time \in Nat /\ Elapsed(n) \in Nat
        BY <1>0, <1>1, <1>l, <3>1
      <3> QED  BY <3>2, <3>3, <3>4
    <2>4. CASE i > n + 2
      <3>1. /\ i \in n + 2 .. L + 1 /\ i - 1 \in n + 2 .. L + 1 /\ i - 1 \in 1..L /\ i - 1 # n + 1
        BY <1>0, <2>4
      <3>2. g[i] = Elapsed(i - 1) /\ g[i - 1] = Elapsed((i - 1) - 1) /\ w[i] = list[i - 1]
        BY <1>4, <1>5, <1>g, <3>1
      <3> QED  BY <1>1, <3>1, <3>2
    <2> QED  BY <1>0, <2>1, <2>2, <2>3, <2>4
  <1>11. \A i \in 0 .. L + 1 : Sums(w)[i] = g[i]
    <2>1. w \in Seq(Entries) /\ Len(w) = L + 1 /\ SumsTo(g, w)
      BY <1>5, <1>9, <1>10 DEF SumsTo
    <2> QED  BY <2>1, SumsUnique
  <1>12. /\ \A i \in 0 .. n : Sums(w)[i] = Elapsed(i)
         /\ Sums(w)[n + 1] = t
         /\ \A i \in n + 2 .. L + 1 : Sums(w)[i] = Elapsed(i - 1)
    <2>1. /\ n + 1 \in 0 .. L + 1
          /\ \A i \in 0 .. n : i \in 0 .. L + 1
          /\ \A i \in n + 2 .. L + 1 : i \in 0 .. L + 1
      BY <1>0
    <2> QED  BY <1>11, <1>g, <2>1
  <1> QED  BY <1>5, <1>6, <1>7, <1>8, <1>12 DEF n, w, L

-----------------------------------------------------------------------------
(* The inductive invariant.                                                *)

Typed ==
    /\ list \in Seq(Entries) /\ running \in 0 .. Len(list) + 1
    /\ left \in [Call -> Nat]

\* What clock has run stood there with nothing left to wait.
RunIsOver == \A i \in 1..Len(list) : i < running => list[i].time = 0

\* The differences add up to what is left for each call.
DueAsAsked == \A i \in 1..Len(list) : running <= i => left[list[i].call] = Elapsed(i)

\* A call is pending once.
Once == \A i, j \in 1..Len(list) :
    running <= i /\ running <= j /\ list[i].call = list[j].call => i = j

CInv == Typed /\ RunIsOver /\ DueAsAsked /\ Once

\* How many entries are still in the table and stand for no call any more,
\* when clock is at r.
Gone(r) == IF r = 0 THEN 0 ELSE r - 1

\* The calls of l, those after the first b.
CallsOf(l) == [i \in DOMAIN l |-> l[i].call]
CallsFrom(l, b) == [i \in 1 .. Len(l) - b |-> l[b + i].call]

\* The calls that are pending are those after the ones that are gone.
LEMMA PendingIs ==
    ASSUME NEW l \in Seq(Entries), NEW r \in 0 .. Len(l) + 1, NEW W,
           W = IF r = 0 THEN l ELSE SubSeq(l, r, Len(l))
    PROVE  /\ CallsOf(W) = CallsFrom(l, Gone(r))
           /\ Gone(r) \in 0..Len(l)
  <1>0. Len(l) \in Nat
    OBVIOUS
  <1>1. CASE r = 0
    <2>1. W = l /\ Gone(r) = 0 /\ DOMAIN l = 1..Len(l) /\ Len(l) - 0 = Len(l)
      BY <1>0, <1>1 DEF Gone
    <2>2. \A i \in 1..Len(l) : 0 + i = i
      BY <1>0
    <2> QED  BY <1>0, <2>1, <2>2 DEF CallsFrom, CallsOf
  <1>2. CASE r # 0
    <2> DEFINE g == Gone(r)
    <2>1. g = r - 1 /\ g \in 0..Len(l) /\ r = g + 1
      BY <1>0, <1>2 DEF Gone
    <2> HIDE DEF g
    <2>2. W = [i \in 1 .. Len(l) - g |-> l[g + i]]
      <3>1. W = SubSeq(l, g + 1, Len(l))
        BY <1>2, <2>1
      <3>2. /\ 1 .. (Len(l) + 1 - (g + 1)) = 1 .. Len(l) - g
            /\ \A i \in 1 .. Len(l) - g : i + (g + 1) - 1 = g + i
        BY <1>0, <2>1
      <3>3. g \in Nat /\ Len(l) \in Nat /\ g + 1 \in Int
        BY <1>0, <2>1
      <3>4. SubSeq(l, g + 1, Len(l)) = [i \in 1 .. (Len(l) + 1 - (g + 1)) |-> l[i + (g + 1) - 1]]
        BY <3>3
      <3>5. \A i \in 1 .. Len(l) - g : l[i + (g + 1) - 1] = l[g + i]
        BY <3>2
      <3> QED  BY <3>1, <3>2, <3>4, <3>5
    <2>3. DOMAIN W = 1 .. Len(l) - g
      BY <2>2
    <2> QED  BY <2>1, <2>2, <2>3 DEF CallsFrom, CallsOf, g
  <1> QED  BY <1>1, <1>2

\* So before a step, and so after it.
LEMMA PendingNow ==
    ASSUME Typed
    PROVE  /\ [i \in DOMAIN Waiting |-> Waiting[i].call] = CallsFrom(list, Gone(running))
           /\ Gone(running) \in 0..Len(list)
  <1> DEFINE W == Waiting
  <1>1. /\ list \in Seq(Entries) /\ running \in 0 .. Len(list) + 1
        /\ W = IF running = 0 THEN list ELSE SubSeq(list, running, Len(list))
    BY DEF Typed, Waiting
  <1> HIDE DEF W
  <1>2. /\ CallsOf(W) = CallsFrom(list, Gone(running))
        /\ Gone(running) \in 0..Len(list)
    BY <1>1, PendingIs
  <1> QED  BY <1>2 DEF W, CallsOf

\* The calls that wait after a step.
LEMMA PendingThen ==
    ASSUME Typed'
    PROVE  [i \in DOMAIN Waiting |-> Waiting[i].call]' = CallsFrom(list', Gone(running'))
  <1> DEFINE W == Waiting'
  <1>1. /\ list' \in Seq(Entries) /\ running' \in 0 .. Len(list') + 1
        /\ W = IF running' = 0 THEN list' ELSE SubSeq(list', running', Len(list'))
    BY DEF Typed, Waiting
  <1> HIDE DEF W
  <1>2. CallsOf(W) = CallsFrom(list', Gone(running'))
    BY <1>1, PendingIs
  <1> QED  BY <1>2 DEF W, CallsOf

\* The pending calls after the first b.
LEMMA CallsType ==
    ASSUME NEW l \in Seq(Entries), NEW b \in 0..Len(l)
    PROVE  /\ CallsFrom(l, b) \in Seq(Call) /\ Len(CallsFrom(l, b)) = Len(l) - b
           /\ \A i \in 1 .. Len(l) - b : CallsFrom(l, b)[i] = l[b + i].call
           /\ \A i \in 1 .. Len(l) - b : b + i \in 1..Len(l)
           /\ Len(l) \in Nat /\ Len(l) - b \in Nat
  <1> DEFINE m == Len(l) - b
  <1>1. Len(l) \in Nat /\ m \in Nat
    OBVIOUS
  <1>2. \A i \in 1..m : b + i \in 1..Len(l)
    BY <1>1
  <1> HIDE DEF m
  <1>3. \A i \in 1..m : l[b + i].call \in Call
    BY <1>2, EntryType
  <1> DEFINE s == [i \in 1..m |-> l[b + i].call]
  <1>4. s \in Seq(Call) /\ Len(s) = m /\ \A i \in 1..m : s[i] = l[b + i].call
    BY <1>1, <1>3
  <1>5. CallsFrom(l, b) = s
    BY DEF CallsFrom, m
  <1> HIDE DEF s
  <1>6. m = Len(l) - b
    BY DEF m
  <1> QED  BY <1>1, <1>2, <1>4, <1>5, <1>6

\* Without the first, if there is one.
LEMMA CallsTail ==
    ASSUME NEW l \in Seq(Entries), NEW b \in 0..Len(l), b < Len(l)
    PROVE  /\ CallsFrom(l, b) # <<>> /\ Head(CallsFrom(l, b)) = l[b + 1].call
           /\ Tail(CallsFrom(l, b)) = CallsFrom(l, b + 1)
  <1> DEFINE s == CallsFrom(l, b)
             u == CallsFrom(l, b + 1)
  <1>0. Len(l) \in Nat /\ b + 1 \in 0..Len(l) /\ 1 \in 1 .. Len(l) - b
    OBVIOUS
  <1>1. /\ s \in Seq(Call) /\ Len(s) = Len(l) - b
        /\ \A i \in 1 .. Len(l) - b : s[i] = l[b + i].call
    BY CallsType
  <1>2. /\ u \in Seq(Call) /\ Len(u) = Len(l) - (b + 1)
        /\ \A i \in 1 .. Len(l) - (b + 1) : u[i] = l[(b + 1) + i].call
    BY <1>0, CallsType
  <1> HIDE DEF s, u
  <1>3. s # <<>> /\ Head(s) = l[b + 1].call
    BY <1>0, <1>1
  <1>4. Tail(s) \in Seq(Call) /\ Len(Tail(s)) = Len(u)
    BY <1>0, <1>1, <1>2, <1>3
  <1>5. ASSUME NEW i \in 1 .. Len(u) PROVE Tail(s)[i] = u[i]
    <2>1. i + 1 \in 1 .. Len(l) - b /\ b + (i + 1) = (b + 1) + i /\ i \in 1 .. Len(l) - (b + 1)
      BY <1>0, <1>2
    <2>2. Tail(s)[i] = s[i + 1]
      BY <1>1, <1>2, <1>3, <2>1
    <2> QED  BY <1>1, <1>2, <2>1, <2>2
  <1>6. Tail(s) = u
    BY <1>2, <1>4, <1>5, SeqEqual
  <1> QED  BY <1>3, <1>6 DEF s, u

\* All but the first b entries are due when they were asked for.
AsAsked(b) == \A i \in b + 1 .. Len(list) : left[list[i].call] = Elapsed(i)
LEMMA PlacedIs ==
    ASSUME list \in Seq(Entries), NEW c \in Call, NEW t \in Nat,
           NEW b \in 0..Len(list), b <= Passed(t), AsAsked(b)
    PROVE  T!Placed(CallsFrom(list, b), c, t) = CallsFrom(With(c, t), b)
  <1> DEFINE L == Len(list)
             n == Passed(t)
             s == CallsFrom(list, b)
             w == With(c, t)
             u == CallsFrom(w, b)
             P == {i \in DOMAIN s : left[s[i]] <= t}
             k == (n - b) + 1
  <1>1. n \in 0..L /\ L \in Nat /\ b <= n /\ \A i \in 1..L : Elapsed(i) <= t <=> i <= n
    <2>1. n \in 0..L /\ \A i \in 1..L : Elapsed(i) <= t <=> i <= n
      BY Position
    <2>2. L \in Nat /\ b <= n
      OBVIOUS
    <2> QED  BY <2>1, <2>2
  <1>2. /\ s \in Seq(Call) /\ Len(s) = L - b
        /\ \A i \in 1 .. L - b : s[i] = list[b + i].call
    BY CallsType
  <1>3. /\ w \in Seq(Entries) /\ Len(w) = L + 1
        /\ \A i \in 1 .. n : w[i] = list[i]
        /\ w[n + 1].call = c
        /\ \A i \in n + 2 .. L + 1 : w[i].call = list[i - 1].call
    BY WithIs
  <1> HIDE DEF w, n, s
  <1>4. /\ u \in Seq(Call) /\ Len(u) = (L + 1) - b
        /\ \A i \in 1 .. (L + 1) - b : u[i] = w[b + i].call
    <2>1. b \in 0..Len(w)
      BY <1>1, <1>3
    <2> QED  BY <1>3, <2>1, CallsType
  <1> HIDE DEF u
  <1>5. Cardinality(P) = n - b
    <2>1. L - b \in Nat /\ n - b \in 0 .. L - b /\ DOMAIN s = 1 .. L - b
      BY <1>1, <1>2
    <2>2. ASSUME NEW i \in 1 .. L - b PROVE i \in P <=> i <= n - b
      <3>1. b + i \in b + 1 .. L /\ b + i \in 1..L
        BY <1>1
      <3>2. left[s[i]] = Elapsed(b + i)
        BY <1>2, <3>1 DEF AsAsked
      <3>3. i \in P <=> b + i <= n
        BY <1>1, <2>1, <3>1, <3>2
      <3> QED  BY <1>1, <3>3
    <2>3. P \in SUBSET (1 .. L - b)
      BY <2>1
    <2> HIDE DEF P
    <2> QED  BY <2>1, <2>2, <2>3, Prefix
  <1>6. T!Placed(s, c, t) = InsertAt(s, k, c)
    <2>1. 1 + Cardinality(P) = k
      BY <1>1, <1>5
    <2> HIDE DEF k
    <2>2. T!Cardinality(P) = Cardinality(P)
      BY DEF T!Cardinality, Cardinality
    <2>3. T!InsertAt(s, k, c) = InsertAt(s, k, c)
      BY DEF T!InsertAt, InsertAt
    <2> QED  BY <2>1, <2>2, <2>3 DEF T!Placed
  <1>7. k \in 1 .. Len(s) + 1 /\ k = (n - b) + 1
    BY <1>1, <1>2
  <1> HIDE DEF k
  <1>8. InsertAt(s, k, c) \in Seq(Call) /\ Len(InsertAt(s, k, c)) = (L - b) + 1
    BY <1>2, <1>7, Insertion
  <1>9. /\ \A j \in 1 .. k - 1 : InsertAt(s, k, c)[j] = s[j]
        /\ InsertAt(s, k, c)[k] = c
    BY <1>2, <1>7, Insertion
  <1>10. \A j \in k + 1 .. (L - b) + 1 : InsertAt(s, k, c)[j] = s[j - 1]
    <2>1. \A j \in k + 1 .. Len(s) + 1 : InsertAt(s, k, c)[j] = s[j - 1]
      <3>1. k \in 1 .. Len(s) + 1 /\ s \in Seq(Call)
        BY <1>2, <1>7
      <3> QED  BY <3>1, Insertion
    <2> QED  BY <1>2, <2>1
  <1> DEFINE v == InsertAt(s, k, c)
  <1>11. v \in Seq(Call) /\ Len(v) = Len(u)
    BY <1>1, <1>4, <1>8
  <1>12. ASSUME NEW j \in 1 .. Len(u) PROVE v[j] = u[j]
    <2>0. j \in 1 .. (L + 1) - b /\ u[j] = w[b + j].call /\ j \in Nat /\ k \in Nat /\ b \in Nat
      BY <1>1, <1>4, <1>7
    <2>1. CASE j < k
      <3>1. j \in 1 .. k - 1 /\ j \in 1 .. L - b /\ b + j \in 1 .. n
        BY <1>1, <1>7, <2>0, <2>1
      <3> QED  BY <1>2, <1>3, <1>9, <2>0, <3>1
    <2>2. CASE j = k
      <3>1. b + j = n + 1
        BY <1>1, <1>7, <2>2
      <3> QED  BY <1>3, <1>9, <2>0, <2>2, <3>1
    <2>3. CASE j > k
      <3>1. /\ j \in k + 1 .. (L - b) + 1 /\ j - 1 \in 1 .. L - b /\ b + j \in n + 2 .. L + 1
            /\ (b + j) - 1 = b + (j - 1)
        BY <1>1, <1>7, <2>0, <2>3
      <3>2. v[j] = list[b + (j - 1)].call
        BY <1>2, <1>10, <3>1
      <3>3. u[j] = list[(b + j) - 1].call
        BY <1>3, <2>0, <3>1
      <3> QED  BY <3>1, <3>2, <3>3
    <2> QED  BY <2>0, <2>1, <2>2, <2>3
  <1> HIDE DEF v
  <1>13. v = u
    BY <1>4, <1>11, <1>12, SeqEqual
  <1> QED  BY <1>6, <1>13 DEF v, s, u, w

-----------------------------------------------------------------------------
(* The steps.                                                              *)

\* timeout, while the b entries that are gone are those before running, or up
\* to it: the call is placed as Timers says, and the invariant is kept.
AsksFor(c, t, b) ==
    /\ c \in Call /\ t \in Nat /\ b \in 0..Len(list)
    /\ \A i \in 1..b : list[i].time = 0
    /\ \A i \in 1..Len(list) : b < i => running <= i
    /\ \A i \in 1..Len(list) : b < i => list[i].call # c
    /\ list' = With(c, t) /\ left' = [left EXCEPT ![c] = t]
LEMMA TimeoutKeeps ==
    ASSUME CInv, NEW c, NEW t, NEW b, AsksFor(c, t, b)
    PROVE  /\ CallsFrom(list', b) = T!Placed(CallsFrom(list, b), c, t)
           /\ list' \in Seq(Entries) /\ Len(list') = Len(list) + 1
           /\ left' \in [Call -> Nat]
           /\ \A i \in 1..b : list'[i].time = 0
           /\ \A i \in 1..Len(list') : b < i => left'[list'[i].call] = Sums(list')[i]
           /\ \A i, j \in 1..Len(list') : b < i /\ b < j /\ list'[i].call = list'[j].call => i = j
  <1> DEFINE n == Passed(t)
             L == Len(list)
             w == With(c, t)
  <1>a. /\ c \in Call /\ t \in Nat /\ b \in 0..Len(list)
        /\ \A i \in 1..b : list[i].time = 0
        /\ \A i \in 1..Len(list) : b < i => running <= i
        /\ \A i \in 1..Len(list) : b < i => list[i].call # c
        /\ list' = With(c, t) /\ left' = [left EXCEPT ![c] = t]
    BY DEF AsksFor
  <1>0. list \in Seq(Entries) /\ left \in [Call -> Nat] /\ L \in Nat /\ b \in 0..L
    BY <1>a DEF CInv, Typed
  <1>1. n \in 0..L /\ \A i \in 1..L : Elapsed(i) <= t <=> i <= n
    BY <1>a, <1>0, Position
  <1>2. /\ w \in Seq(Entries) /\ Len(w) = L + 1
        /\ \A i \in 1 .. n : w[i] = list[i]
        /\ w[n + 1].call = c
        /\ \A i \in n + 2 .. L + 1 : w[i].call = list[i - 1].call
        /\ \A i \in 0 .. n : Sums(w)[i] = Elapsed(i)
        /\ Sums(w)[n + 1] = t
        /\ \A i \in n + 2 .. L + 1 : Sums(w)[i] = Elapsed(i - 1)
    BY <1>a, <1>0, WithIs
  <1>3. \A i \in b + 1 .. L : i \in 1..L /\ running <= i /\ list[i].call # c /\ list[i].call \in Call
    BY <1>a, <1>0, EntryType
  <1>4. \A i \in b + 1 .. L : left[list[i].call] = Elapsed(i)
    BY <1>a, <1>3 DEF CInv, DueAsAsked
  <1>5. b <= n
    <2>1. CASE b = 0
      BY <1>a, <1>1, <2>1
    <2>2. CASE b # 0
      <3>1. Elapsed(b) = 0 /\ b \in 1..L
        BY <1>a, <1>0, <2>2, SumsZero DEF Elapsed
      <3> QED  BY <1>a, <1>1, <3>1
    <2> QED  BY <1>a, <2>1, <2>2
  <1>6. T!Placed(CallsFrom(list, b), c, t) = CallsFrom(w, b)
    <2>1. AsAsked(b)
      BY <1>4 DEF AsAsked
    <2>2. c \in Call /\ t \in Nat /\ b \in 0..Len(list) /\ b <= Passed(t) /\ list \in Seq(Entries)
      BY <1>a, <1>0, <1>5
    <2>3. T!Placed(CallsFrom(list, b), c, t) = CallsFrom(With(c, t), b)
      <3> HIDE DEF n, w, L
      <3> QED  BY <2>1, <2>2, PlacedIs
    <2> QED  BY <2>3
  <1> HIDE DEF n, w
  <1>w. list' = w
    BY <1>a DEF w
  <1>7. left' \in [Call -> Nat] /\ left'[c] = t /\ \A d \in Call : d # c => left'[d] = left[d]
    BY <1>a, <1>0
  <1>8. \A i \in 1..b : list'[i].time = 0
    <2> TAKE i \in 1..b
    <2>1. i \in 1..n
      BY <1>a, <1>0, <1>1, <1>5
    <2> QED  BY <1>a, <1>2, <1>w, <2>1
  \* Where an entry after the first b comes from.
  <1>9. ASSUME NEW i \in 1 .. L + 1, b < i
        PROVE  \/ i = n + 1 /\ w[i].call = c /\ Sums(w)[i] = t
               \/ /\ i \in b + 1 .. n
                  /\ w[i].call = list[i].call /\ Sums(w)[i] = Elapsed(i)
               \/ /\ i \in n + 2 .. L + 1 /\ i - 1 \in b + 1 .. L
                  /\ w[i].call = list[i - 1].call /\ Sums(w)[i] = Elapsed(i - 1)
    <2>1. CASE i = n + 1
      BY <1>a, <1>2, <2>1
    <2>2. CASE i < n + 1
      <3>1. i \in b + 1 .. n /\ i \in 1 .. n /\ i \in 0 .. n
        BY <1>a, <1>0, <1>1, <1>9, <2>2
      <3> QED  BY <1>a, <1>2, <3>1
    <2>3. CASE i > n + 1
      <3>1. i \in n + 2 .. L + 1 /\ i - 1 \in b + 1 .. L
        BY <1>a, <1>0, <1>1, <1>5, <2>3
      <3> QED  BY <1>a, <1>2, <3>1
    <2>4. i < n + 1 \/ i = n + 1 \/ i > n + 1
      BY <1>a, <1>0, <1>1
    <2> QED  BY <1>a, <2>1, <2>2, <2>3, <2>4
  <1>10. ASSUME NEW i \in 1 .. L + 1, b < i PROVE left'[w[i].call] = Sums(w)[i]
    <2>1. CASE i = n + 1 /\ w[i].call = c /\ Sums(w)[i] = t
      BY <1>a, <1>7, <2>1
    <2>2. CASE i \in b + 1 .. n /\ w[i].call = list[i].call /\ Sums(w)[i] = Elapsed(i)
      <3>1. i \in b + 1 .. L
        BY <1>a, <1>1, <2>2
      <3> QED  BY <1>a, <1>3, <1>4, <1>7, <2>2, <3>1
    <2>3. CASE i - 1 \in b + 1 .. L /\ w[i].call = list[i - 1].call /\ Sums(w)[i] = Elapsed(i - 1)
      BY <1>a, <1>3, <1>4, <1>7, <2>3
    <2> QED  BY <1>a, <1>9, <1>10, <2>1, <2>2, <2>3
  <1>11. ASSUME NEW i \in 1 .. L + 1, NEW j \in 1 .. L + 1, b < i, b < j, w[i].call = w[j].call
         PROVE  i = j
    <2>d. \A x, y \in b + 1 .. L : list[x].call = list[y].call => x = y
      BY <1>a, <1>3 DEF CInv, Once
    <2>n. \A x \in b + 1 .. n : x \in b + 1 .. L
      BY <1>a, <1>1
    <2>1. CASE i = n + 1 /\ w[i].call = c
      BY <1>a, <1>3, <1>9, <1>11, <2>1, <2>n
    <2>2. CASE i \in b + 1 .. n /\ w[i].call = list[i].call
      <3>1. CASE j = n + 1 /\ w[j].call = c
        BY <1>a, <1>3, <1>11, <2>2, <2>n, <3>1
      <3>2. CASE j \in b + 1 .. n /\ w[j].call = list[j].call
        BY <1>a, <1>11, <2>2, <2>d, <2>n, <3>2
      <3>3. CASE j \in n + 2 .. L + 1 /\ j - 1 \in b + 1 .. L /\ w[j].call = list[j - 1].call
        <4>1. i = j - 1
          BY <1>a, <1>11, <2>2, <2>d, <2>n, <3>3
        <4> QED  BY <1>a, <1>1, <2>2, <3>3, <4>1
      <3> QED  BY <1>a, <1>9, <1>11, <3>1, <3>2, <3>3
    <2>3. CASE i \in n + 2 .. L + 1 /\ i - 1 \in b + 1 .. L /\ w[i].call = list[i - 1].call
      <3>1. CASE j = n + 1 /\ w[j].call = c
        BY <1>a, <1>3, <1>11, <2>3, <3>1
      <3>2. CASE j \in b + 1 .. n /\ w[j].call = list[j].call
        <4>1. i - 1 = j
          BY <1>a, <1>11, <2>3, <2>d, <2>n, <3>2
        <4> QED  BY <1>a, <1>1, <2>3, <3>2, <4>1
      <3>3. CASE j \in n + 2 .. L + 1 /\ j - 1 \in b + 1 .. L /\ w[j].call = list[j - 1].call
        <4>1. i - 1 = j - 1
          BY <1>a, <1>11, <2>3, <2>d, <3>3
        <4> QED  BY <1>a, <4>1
      <3> QED  BY <1>a, <1>9, <1>11, <3>1, <3>2, <3>3
    <2> QED  BY <1>a, <1>9, <1>11, <2>1, <2>2, <2>3
  <1>12. Len(list') = L + 1 /\ 1 .. Len(list') = 1 .. L + 1
    BY <1>a, <1>2, <1>w
  <1> QED  BY <1>a, <1>2, <1>6, <1>7, <1>8, <1>10, <1>11, <1>12, <1>w DEF w

\* A pending call is that of an entry that is not gone.
LEMMA PendingCalls ==
    ASSUME Typed, NEW i \in 1..Len(list), Gone(running) < i
    PROVE  list[i].call \in Pending
  <1> DEFINE g == Gone(running)
  <1>1. g \in 0..Len(list) /\ list \in Seq(Entries) /\ Len(list) \in Nat
    BY PendingNow DEF Typed
  <1>2. [j \in DOMAIN Waiting |-> Waiting[j].call] = CallsFrom(list, g)
    BY PendingNow
  <1> HIDE DEF g
  <1>3. i - g \in 1 .. Len(list) - g /\ g + (i - g) = i
    BY <1>1 DEF g
  <1>4. DOMAIN CallsFrom(list, g) = 1 .. Len(list) - g /\ CallsFrom(list, g)[i - g] = list[i].call
    BY <1>3 DEF CallsFrom
  <1>5. DOMAIN [j \in DOMAIN Waiting |-> Waiting[j].call] = DOMAIN Waiting
    OBVIOUS
  <1>6. i - g \in DOMAIN Waiting
    BY <1>2, <1>3, <1>4, <1>5
  <1>7. Waiting[i - g].call = list[i].call
    BY <1>2, <1>4, <1>6
  <1> QED  BY <1>6, <1>7 DEF Pending

\* Nothing of it changes.
LEMMA SameTable ==
    ASSUME CInv, UNCHANGED <<list, running, left>>
    PROVE  CInv' /\ UNCHANGED T!vars
  BY DEF CInv, Typed, RunIsOver, DueAsAsked, Once, Elapsed, T!vars, Waiting

\* timeout, called outside of the clock: the new entry takes from the one after
\* it what it takes for itself, so the sums of all others stay.
LEMMA AskKeeps == ASSUME CInv, Ask PROVE CInv' /\ [T!Next]_(T!vars)
  <1>p. PICK c \in Call, t \in 0..MaxTime : running = 0 /\ MayAsk(c) /\ Timeout(c, t) /\ UNCHANGED running
    BY DEF Ask
  <1>0. t \in Nat /\ list \in Seq(Entries) /\ running = 0 /\ running' = 0 /\ Gone(0) = 0 /\ Len(list) \in Nat
    BY <1>p, CalloutAssumption DEF CInv, Typed, Gone
  <1>1. CASE Passed(t) >= NCALL - 1
    <2>1. UNCHANGED <<list, running, left>>
      BY <1>p, <1>1 DEF Timeout
    <2> QED  BY <2>1, SameTable
  <1>2. CASE ~ (Passed(t) >= NCALL - 1)
    <2>1. list' = With(c, t) /\ left' = [left EXCEPT ![c] = t]
      BY <1>p, <1>2 DEF Timeout, With
    <2>2. \A i \in 1..Len(list) : list[i].call # c
      <3> SUFFICES ASSUME NEW i \in 1..Len(list), list[i].call = c PROVE FALSE
        OBVIOUS
      <3>1. Gone(running) < i
        BY <1>0
      <3> QED  BY <1>p, <3>1, PendingCalls DEF CInv, MayAsk
    <2>3. /\ CallsFrom(list', 0) = T!Placed(CallsFrom(list, 0), c, t)
          /\ list' \in Seq(Entries) /\ Len(list') = Len(list) + 1
          /\ left' \in [Call -> Nat]
          /\ \A i \in 1..Len(list') : 0 < i => left'[list'[i].call] = Sums(list')[i]
          /\ \A i, j \in 1..Len(list') : 0 < i /\ 0 < j /\ list'[i].call = list'[j].call => i = j
      <3>1. /\ running \in 0..Len(list) /\ \A i \in 1..running : list[i].time = 0
            /\ \A i \in 1..Len(list) : running < i => running <= i
        BY <1>0
      <3>2. \A i \in 1..Len(list) : running < i => list[i].call # c
        BY <2>2
      <3>3. t \in Nat
        BY <1>0
      <3>4. /\ CallsFrom(list', running) = T!Placed(CallsFrom(list, running), c, t)
            /\ list' \in Seq(Entries) /\ Len(list') = Len(list) + 1
            /\ left' \in [Call -> Nat]
            /\ \A i \in 1..running : list'[i].time = 0
            /\ \A i \in 1..Len(list') : running < i => left'[list'[i].call] = Sums(list')[i]
            /\ \A i, j \in 1..Len(list') :
                  running < i /\ running < j /\ list'[i].call = list'[j].call => i = j
        <4>1. AsksFor(c, t, running)
          BY <1>0, <2>1, <3>1, <3>2, <3>3 DEF AsksFor
        <4> QED  BY <4>1, TimeoutKeeps
      <3> QED  BY <1>0, <3>4
    <2>4. Typed'
      BY <1>0, <2>3 DEF Typed
    <2>5. RunIsOver' /\ DueAsAsked' /\ Once'
      <3>1. \A i \in 1..Len(list') : 0 < i /\ ~ (i < running')
        BY <1>0, <2>3
      <3> QED  BY <2>3, <3>1 DEF RunIsOver, DueAsAsked, Once, Elapsed
    <2>6. T!Ask(c, t)
      <3>1. [i \in DOMAIN Waiting |-> Waiting[i].call] = CallsFrom(list, 0)
        BY <1>0, PendingNow DEF CInv
      <3>2. [i \in DOMAIN Waiting |-> Waiting[i].call]' = CallsFrom(list', 0)
        BY <1>0, <2>4, PendingThen
      <3> QED  BY <2>1, <2>3, <3>1, <3>2 DEF T!Ask
    <2> QED  BY <2>4, <2>5, <2>6 DEF CInv, T!Next
  <1> QED  BY <1>1, <1>2

\* The first pending call is due when clock is at it.
LEMMA DueNow ==
    ASSUME CInv, MoreDue
    PROVE  /\ running \in 1..Len(list) /\ Gone(running) = running - 1
           /\ Gone(running + 1) = running
           /\ T!Due
           /\ Tail([i \in DOMAIN Waiting |-> Waiting[i].call]) = CallsFrom(list, running)
           /\ \A i \in 1..running : list[i].time = 0
  <1> DEFINE r == running
  <1>0. /\ list \in Seq(Entries) /\ Len(list) \in Nat /\ r \in 1..Len(list)
        /\ list[r].time = 0
    BY DEF CInv, Typed, MoreDue
  <1>1. Gone(r) = r - 1 /\ Gone(r + 1) = r /\ r - 1 \in 0..Len(list)
    BY <1>0 DEF Gone
  <1>2. \A i \in 1..r : list[i].time = 0
    BY <1>0 DEF CInv, RunIsOver
  <1>3. Elapsed(r) = 0
    BY <1>0, <1>2, SumsZero DEF Elapsed
  <1>4. left[list[r].call] = 0
    BY <1>0, <1>3 DEF CInv, DueAsAsked
  <1>5. [i \in DOMAIN Waiting |-> Waiting[i].call] = CallsFrom(list, r - 1)
    BY <1>1, PendingNow DEF CInv
  <1>6. /\ CallsFrom(list, r - 1) # <<>> /\ Head(CallsFrom(list, r - 1)) = list[r].call
        /\ Tail(CallsFrom(list, r - 1)) = CallsFrom(list, r)
    <2> DEFINE b == r - 1
    <2>1. b \in 0..Len(list) /\ b < Len(list) /\ b + 1 = r
      BY <1>0
    <2> HIDE DEF b
    <2>2. /\ CallsFrom(list, b) # <<>> /\ Head(CallsFrom(list, b)) = list[b + 1].call
          /\ Tail(CallsFrom(list, b)) = CallsFrom(list, b + 1)
      BY <1>0, <2>1, CallsTail
    <2> QED  BY <2>1, <2>2 DEF b
  <1>7. T!Due
    BY <1>4, <1>5, <1>6 DEF T!Due
  <1> QED  BY <1>0, <1>1, <1>2, <1>5, <1>6, <1>7

\* The call that clock makes has no time left, and all others keep theirs.
LEMMA MakeCallKeeps == ASSUME CInv, MakeCall PROVE CInv' /\ [T!Next]_(T!vars)
  <1>0. /\ list' = list /\ left' = left /\ running' = running + 1
        /\ list \in Seq(Entries) /\ left \in [Call -> Nat] /\ Len(list) \in Nat
    BY DEF MakeCall, CInv, Typed
  <1>1. /\ running \in 1..Len(list) /\ Gone(running + 1) = running
        /\ T!Due
        /\ Tail([i \in DOMAIN Waiting |-> Waiting[i].call]) = CallsFrom(list, running)
        /\ \A i \in 1..running : list[i].time = 0
    BY DueNow DEF MakeCall
  <1>2. Typed'
    BY <1>0, <1>1 DEF Typed
  <1>3. RunIsOver' /\ DueAsAsked' /\ Once'
    <2>1. \A i \in 1..Len(list) : i < running' => i \in 1..running
      BY <1>0, <1>1
    <2>2. \A i \in 1..Len(list) : running' <= i => running <= i
      BY <1>0, <1>1
    <2> QED  BY <1>0, <1>1, <2>1, <2>2 DEF CInv, RunIsOver, DueAsAsked, Once, Elapsed
  <1>4. T!Make
    <2>1. [i \in DOMAIN Waiting |-> Waiting[i].call]' = CallsFrom(list, running)
      BY <1>0, <1>1, <1>2, PendingThen
    <2> QED  BY <1>0, <1>1, <2>1 DEF T!Make
  <1> QED  BY <1>2, <1>3, <1>4 DEF CInv, T!Next

\* The function that clock calls may ask for its next call; the entry goes behind
\* what clock has still to look at.
LEMMA MakeCallAndAskKeeps == ASSUME CInv, MakeCallAndAsk PROVE CInv' /\ [T!Next]_(T!vars)
  <1> DEFINE r == running
  <1> PICK c \in Call, t \in 0..MaxTime :
         MoreDue /\ c \notin Pending \ {list[r].call} /\ Timeout(c, t) /\ running' = r + 1
    BY DEF MakeCallAndAsk
  <1>0. t \in Nat /\ list \in Seq(Entries) /\ Len(list) \in Nat
    BY CalloutAssumption DEF CInv, Typed
  <1>1. /\ r \in 1..Len(list) /\ Gone(r) = r - 1 /\ Gone(r + 1) = r
        /\ T!Due
        /\ Tail([i \in DOMAIN Waiting |-> Waiting[i].call]) = CallsFrom(list, r)
        /\ \A i \in 1..r : list[i].time = 0
    BY DueNow
  <1>2. CASE Passed(t) >= NCALL - 1
    <2>1. MakeCall \/ (list' = list /\ left' = left)
      BY <1>2 DEF Timeout
    <2>2. list' = list /\ left' = left
      BY <1>2 DEF Timeout
    <2>3. Typed'
      BY <1>0, <1>1, <2>2 DEF CInv, Typed
    <2>4. RunIsOver' /\ DueAsAsked' /\ Once'
      <3>1. \A i \in 1..Len(list) : i < running' => i \in 1..r
        BY <1>0, <1>1
      <3>2. \A i \in 1..Len(list) : running' <= i => r <= i
        BY <1>0, <1>1
      <3> QED  BY <1>1, <2>2, <3>1, <3>2 DEF CInv, RunIsOver, DueAsAsked, Once, Elapsed
    <2>5. T!Make
      <3>1. [i \in DOMAIN Waiting |-> Waiting[i].call]' = CallsFrom(list, r)
        BY <1>1, <2>2, <2>3, PendingThen
      <3> QED  BY <1>1, <2>2, <3>1 DEF T!Make
    <2> QED  BY <2>3, <2>4, <2>5 DEF CInv, T!Next
  <1>3. CASE ~ (Passed(t) >= NCALL - 1)
    <2>1. list' = With(c, t) /\ left' = [left EXCEPT ![c] = t]
      BY <1>3 DEF Timeout, With
    <2>2. \A i \in 1..Len(list) : r < i => list[i].call # c
      <3> SUFFICES ASSUME NEW i \in 1..Len(list), r < i, list[i].call = c PROVE FALSE
        OBVIOUS
      <3>1. Gone(r) < i
        BY <1>0, <1>1
      <3>2. c \in Pending
        BY <3>1, PendingCalls DEF CInv
      <3>3. c = list[r].call
        BY <3>2
      <3>4. r <= i /\ r <= r /\ r # i
        BY <1>1
      <3> QED  BY <1>1, <3>3, <3>4 DEF CInv, Once
    <2>3. /\ CallsFrom(list', r) = T!Placed(CallsFrom(list, r), c, t)
          /\ list' \in Seq(Entries) /\ Len(list') = Len(list) + 1
          /\ left' \in [Call -> Nat]
          /\ \A i \in 1..r : list'[i].time = 0
          /\ \A i \in 1..Len(list') : r < i => left'[list'[i].call] = Sums(list')[i]
          /\ \A i, j \in 1..Len(list') : r < i /\ r < j /\ list'[i].call = list'[j].call => i = j
      <3>1. r \in 0..Len(list) /\ \A i \in 1..Len(list) : r < i => r <= i
        BY <1>0, <1>1
      <3>2. AsksFor(c, t, r)
        BY <1>0, <1>1, <2>1, <2>2, <3>1 DEF AsksFor
      <3> QED  BY <3>2, TimeoutKeeps
    <2>4. Typed'
      BY <1>0, <1>1, <2>3 DEF Typed
    <2>5. RunIsOver' /\ DueAsAsked' /\ Once'
      <3>1. \A i \in 1..Len(list') : (i < running' => i \in 1..r) /\ (running' <= i => r < i)
        BY <1>0, <1>1, <2>3
      <3> QED  BY <2>3, <3>1 DEF RunIsOver, DueAsAsked, Once, Elapsed
    <2>6. T!MakeAndAsk(c, t)
      <3>1. [i \in DOMAIN Waiting |-> Waiting[i].call]' = CallsFrom(list', r)
        BY <1>1, <2>4, PendingThen
      <3> QED  BY <1>1, <2>1, <2>3, <3>1 DEF T!MakeAndAsk
    <2> QED  BY <2>4, <2>5, <2>6 DEF CInv, T!Next
  <1> QED  BY <1>2, <1>3

\* A tick brings every entry that is not yet due nearer by one.
LEMMA TickedIs ==
    ASSUME list \in Seq(Entries)
    PROVE  /\ Ticked \in Seq(Entries) /\ Len(Ticked) = Len(list)
           /\ \A i \in 1..Len(list) : Ticked[i].call = list[i].call
           /\ \A i \in 0..Len(list) :
                Sums(Ticked)[i] = IF Elapsed(i) > 0 THEN Elapsed(i) - 1 ELSE 0
  <1> DEFINE w == Ticked
             L == Len(list)
             g == [i \in 0..L |-> IF Elapsed(i) > 0 THEN Elapsed(i) - 1 ELSE 0]
  <1>0. /\ L \in Nat /\ DOMAIN list = 1..L
        /\ \A i \in 1..L : list[i] \in Entries /\ list[i].time \in Nat
    BY EntryType
  <1>1. /\ Elapsed(0) = 0 /\ \A i \in 0..L : Elapsed(i) \in Nat
        /\ \A i \in 1..L : Elapsed(i) = Elapsed(i - 1) + list[i].time
    BY SumsAddUp, SumsType DEF Elapsed
  <1>2. ASSUME NEW i \in 1..L
        PROVE  /\ w[i] \in Entries /\ w[i].call = list[i].call
               /\ FirstNonzero(i) => w[i].time = list[i].time - 1
               /\ ~ FirstNonzero(i) => w[i].time = list[i].time
    <2>1. CASE FirstNonzero(i)
      <3>1. list[i].time > 0
        BY <2>1 DEF FirstNonzero
      <3>2. w[i] = [list[i] EXCEPT !.time = list[i].time - 1]
        BY <1>0, <2>1, <3>1 DEF Ticked
      <3>3. list[i].time - 1 \in Nat
        BY <1>0, <3>1
      <3> QED  BY <1>0, <2>1, <3>2, <3>3 DEF Entries
    <2>2. CASE ~ FirstNonzero(i)
      BY <1>0, <2>2 DEF Ticked
    <2> QED  BY <2>1, <2>2
  <1>3. w \in Seq(Entries) /\ Len(w) = L
    <2>1. w = [i \in 1..L |-> w[i]]
      BY <1>0 DEF Ticked
    <2> HIDE DEF w
    <2>2. w \in [1..L -> Entries]
      BY <1>2, <2>1
    <2> QED  BY <1>0, <2>2
  <1>4. \A i \in 0..L : g[i] = IF Elapsed(i) > 0 THEN Elapsed(i) - 1 ELSE 0
    OBVIOUS
  <1>z. ASSUME NEW i \in 1..L PROVE (Elapsed(i - 1) = 0) <=> (\A j \in 1 .. i - 1 : list[j].time = 0)
    <2> DEFINE k == i - 1
    <2>1. k \in 0..Len(list)
      BY <1>0
    <2> HIDE DEF k
    <2>2. (Elapsed(k) = 0) <=> (\A j \in 1..k : list[j].time = 0)
      BY <2>1, SumsZero DEF Elapsed
    <2> QED  BY <2>2 DEF k
  <1> HIDE DEF w, g
  <1>5. g[0] = 0
    BY <1>0, <1>1, <1>4
  <1>6. ASSUME NEW i \in 1..L PROVE g[i] = g[i - 1] + w[i].time
    <2>0. /\ i \in 0..L /\ i - 1 \in 0..L
          /\ Elapsed(i) \in Nat /\ Elapsed(i - 1) \in Nat /\ list[i].time \in Nat
          /\ Elapsed(i) = Elapsed(i - 1) + list[i].time
      BY <1>0, <1>1
    <2>g. /\ g[i] = IF Elapsed(i) > 0 THEN Elapsed(i) - 1 ELSE 0
          /\ g[i - 1] = IF Elapsed(i - 1) > 0 THEN Elapsed(i - 1) - 1 ELSE 0
      BY <1>4, <2>0
    <2>1. CASE FirstNonzero(i)
      <3>1. list[i].time > 0 /\ Elapsed(i - 1) = 0
        BY <1>z, <2>1 DEF FirstNonzero
      <3>2. w[i].time = list[i].time - 1
        BY <1>2, <2>1
      <3> QED  BY <2>0, <2>g, <3>1, <3>2
    <2>2. CASE ~ FirstNonzero(i)
      <3>1. list[i].time = 0 \/ Elapsed(i - 1) # 0
        BY <1>z, <2>0, <2>2 DEF FirstNonzero
      <3>2. w[i].time = list[i].time
        BY <1>2, <2>2
      <3>3. CASE list[i].time = 0
        <4>1. Elapsed(i) = Elapsed(i - 1) /\ w[i].time = 0
          BY <2>0, <3>2, <3>3
        <4>2. g[i] = g[i - 1] /\ g[i - 1] \in Nat
          BY <2>0, <2>g, <4>1
        <4> QED  BY <4>1, <4>2
      <3>4. CASE Elapsed(i - 1) # 0
        <4>1. Elapsed(i - 1) > 0 /\ Elapsed(i) > 0
          BY <2>0, <3>4
        <4>2. g[i] = Elapsed(i) - 1 /\ g[i - 1] = Elapsed(i - 1) - 1
          BY <2>g, <4>1
        <4>3. PICK x \in Nat, y \in Nat : x = Elapsed(i - 1) /\ y = list[i].time
          BY <2>0
        <4>4. g[i] = x + y - 1 /\ g[i - 1] = x - 1 /\ w[i].time = y
          BY <2>0, <3>2, <4>2, <4>3
        <4> QED  BY <4>3, <4>4
      <3> QED  BY <3>1, <3>3, <3>4
    <2> QED  BY <2>1, <2>2
  <1>7. \A i \in 0..L : Sums(w)[i] = g[i]
    <2>1. w \in Seq(Entries) /\ Len(w) = L /\ SumsTo(g, w)
      BY <1>3, <1>5, <1>6 DEF SumsTo
    <2> QED  BY <2>1, SumsUnique
  <1> QED  BY <1>2, <1>3, <1>4, <1>7 DEF w

\* A tick of clock takes one from the sum of every entry that is not yet due.
LEMMA TickKeeps == ASSUME CInv, NEW high \in BOOLEAN, Tick(high) PROVE CInv' /\ [T!Next]_(T!vars)
  <1>0. /\ running = 0 /\ list' = Ticked /\ running' \in {0, 1}
        /\ left' = [c \in Call |-> IF left[c] > 0 THEN left[c] - 1 ELSE 0]
        /\ list \in Seq(Entries) /\ left \in [Call -> Nat] /\ Len(list) \in Nat
    BY DEF Tick, CInv, Typed
  <1>1. /\ list' \in Seq(Entries) /\ Len(list') = Len(list)
        /\ \A i \in 1..Len(list) : list'[i].call = list[i].call
        /\ \A i \in 0..Len(list) :
             Sums(list')[i] = IF Elapsed(i) > 0 THEN Elapsed(i) - 1 ELSE 0
    BY <1>0, TickedIs
  <1>2. left' \in [Call -> Nat] /\ \A c \in Call : left'[c] = IF left[c] > 0 THEN left[c] - 1 ELSE 0
    <2>1. \A c \in Call : (IF left[c] > 0 THEN left[c] - 1 ELSE 0) \in Nat
      BY <1>0
    <2> QED  BY <1>0, <2>1
  <1>3. Typed'
    BY <1>0, <1>1, <1>2 DEF Typed
  <1>4. RunIsOver'
    <2>1. \A i \in 1..Len(list') : ~ (i < running')
      BY <1>0, <1>1
    <2> QED  BY <2>1 DEF RunIsOver
  <1>5. DueAsAsked'
    <2> SUFFICES ASSUME NEW i \in 1..Len(list) PROVE left'[list'[i].call] = Sums(list')[i]
      BY <1>1 DEF DueAsAsked, Elapsed
    <2>1. left[list[i].call] = Elapsed(i) /\ list[i].call \in Call
      BY <1>0, EntryType DEF CInv, DueAsAsked
    <2>2. left'[list'[i].call] = IF Elapsed(i) > 0 THEN Elapsed(i) - 1 ELSE 0
      BY <1>1, <1>2, <2>1
    <2>3. i \in 0..Len(list)
      BY <1>0
    <2> QED  BY <1>1, <2>2, <2>3
  <1>6. Once'
    <2>1. \A i, j \in 1..Len(list) : list[i].call = list[j].call => i = j
      BY <1>0 DEF CInv, Once
    <2> QED  BY <1>1, <2>1 DEF Once
  <1>7. T!Tick
    <2>1. Gone(running) = 0 /\ Gone(running') = 0
      BY <1>0 DEF Gone
    <2>2. [i \in DOMAIN Waiting |-> Waiting[i].call] = CallsFrom(list, 0)
      BY <2>1, PendingNow DEF CInv
    <2>3. [i \in DOMAIN Waiting |-> Waiting[i].call]' = CallsFrom(list', 0)
      BY <1>3, <2>1, PendingThen
    <2>4. CallsFrom(list', 0) = CallsFrom(list, 0)
      <3>1. \A i \in 1 .. Len(list) - 0 : 0 + i \in 1..Len(list)
        BY <1>0
      <3>2. \A i \in 1 .. Len(list) - 0 : list'[0 + i].call = list[0 + i].call
        BY <1>1, <3>1
      <3> QED  BY <1>1, <3>2 DEF CallsFrom
    <2> QED  BY <1>0, <2>2, <2>3, <2>4 DEF T!Tick
  <1> QED  BY <1>3, <1>4, <1>5, <1>6, <1>7 DEF CInv, T!Next

\* When the table is moved down, the run that goes had no time left: the sums
\* of the others stay.
LEMMA MoveDownKeeps == ASSUME CInv, MoveDown PROVE CInv' /\ [T!Next]_(T!vars)
  <1> DEFINE g == running - 1
             m == Len(list) - g
             x == [i \in 0..m |-> Elapsed(g + i)]
  <1>0. /\ list' = SubSeq(list, g + 1, Len(list)) /\ running' = 0 /\ left' = left
        /\ list \in Seq(Entries) /\ left \in [Call -> Nat] /\ Len(list) \in Nat
        /\ g \in 0..Len(list) /\ running = g + 1 /\ m \in Nat
        /\ Gone(running) = g /\ Gone(running') = 0
    <2>1. running \in 1 .. Len(list) + 1 /\ running' = 0 /\ left' = left /\ list \in Seq(Entries)
          /\ left \in [Call -> Nat] /\ Len(list) \in Nat
      BY DEF MoveDown, CInv, Typed
    <2>2. running = g + 1
      BY <2>1
    <2>3. list' = SubSeq(list, g + 1, Len(list))
      BY <2>2 DEF MoveDown, Remaining
    <2> QED  BY <2>1, <2>2, <2>3 DEF Gone
  <1> HIDE DEF g
  <1>1. /\ list' \in Seq(Entries) /\ Len(list') = m
        /\ \A i \in 1..m : list'[i] = list[g + i]
    <2>1. \A j \in g + 1 .. Len(list) : list[j] \in Entries
      BY <1>0, EntryType
    <2>2. g + 1 \in Int /\ Len(list) \in Int
      BY <1>0
    <2>3. /\ list' \in Seq(Entries)
          /\ Len(list') = IF g + 1 <= Len(list) THEN Len(list) - (g + 1) + 1 ELSE 0
          /\ \A i \in 1 .. Len(list) - (g + 1) + 1 : list'[i] = list[(g + 1) + i - 1]
      BY <1>0, <2>1, <2>2, SubSeqProperties
    <2>4. Len(list') = m /\ Len(list) - (g + 1) + 1 = m
      BY <1>0, <2>3
    <2>5. \A i \in 1..m : (g + 1) + i - 1 = g + i
      BY <1>0
    <2> QED  BY <2>3, <2>4, <2>5
  <1>2. \A i \in 1..m : g + i \in 1..Len(list) /\ running <= g + i
    BY <1>0
  <1>3. /\ \A i \in 0..Len(list) : Elapsed(i) \in Nat
        /\ \A i \in 1..Len(list) : Elapsed(i) = Elapsed(i - 1) + list[i].time
    BY <1>0, SumsAddUp, SumsType DEF Elapsed
  <1>4. Elapsed(g) = 0
    <2>1. \A i \in 1..g : i \in 1..Len(list) /\ i < running
      BY <1>0
    <2>2. \A i \in 1..g : list[i].time = 0
      BY <2>1 DEF CInv, RunIsOver
    <2> QED  BY <1>0, <2>2, SumsZero DEF Elapsed
  <1>5. \A i \in 0..m : Sums(list')[i] = Elapsed(g + i)
    <2>1. x[0] = 0
      <3>1. 0 \in 0..m /\ g + 0 = g
        BY <1>0
      <3> QED  BY <1>4, <3>1
    <2>2. ASSUME NEW i \in 1..m PROVE x[i] = x[i - 1] + list'[i].time
      <3>1. i \in 0..m /\ i - 1 \in 0..m /\ g + (i - 1) = (g + i) - 1
        BY <1>0
      <3>2. x[i] = Elapsed(g + i) /\ x[i - 1] = Elapsed((g + i) - 1)
        BY <3>1
      <3>3. Elapsed(g + i) = Elapsed((g + i) - 1) + list[g + i].time
        BY <1>2, <1>3
      <3> QED  BY <1>1, <3>2, <3>3
    <2>3. \A i \in 0..m : x[i] = Elapsed(g + i)
      OBVIOUS
    <2> HIDE DEF x, m
    <2>4. \A i \in 0 .. Len(list') : Sums(list')[i] = x[i]
      <3>1. list' \in Seq(Entries) /\ SumsTo(x, list')
        BY <1>1, <2>1, <2>2 DEF SumsTo
      <3> QED  BY <3>1, SumsUnique
    <2> QED  BY <1>1, <2>3, <2>4
  <1> HIDE DEF m, x
  <1>6. Typed'
    BY <1>0, <1>1 DEF Typed
  <1>7. RunIsOver'
    <2>1. \A i \in 1..Len(list') : ~ (i < running')
      BY <1>0
    <2> QED  BY <2>1 DEF RunIsOver
  <1>8. DueAsAsked'
    <2> SUFFICES ASSUME NEW i \in 1..m PROVE left'[list'[i].call] = Sums(list')[i]
      BY <1>1 DEF DueAsAsked, Elapsed
    <2>1. left[list[g + i].call] = Elapsed(g + i)
      BY <1>2 DEF CInv, DueAsAsked
    <2>2. i \in 0..m
      BY <1>0
    <2> QED  BY <1>0, <1>1, <1>5, <2>1, <2>2
  <1>9. Once'
    <2> SUFFICES ASSUME NEW i \in 1..m, NEW j \in 1..m, list'[i].call = list'[j].call PROVE i = j
      BY <1>1 DEF Once
    <2>1. g + i = g + j
      BY <1>1, <1>2 DEF CInv, Once
    <2> QED  BY <1>0, <2>1
  <1>10. UNCHANGED T!vars
    <2>1. [i \in DOMAIN Waiting |-> Waiting[i].call] = CallsFrom(list, g)
      BY <1>0, PendingNow DEF CInv
    <2>2. [i \in DOMAIN Waiting |-> Waiting[i].call]' = CallsFrom(list', 0)
      BY <1>0, <1>6, PendingThen
    <2>3. CallsFrom(list', 0) = CallsFrom(list, g)
      <3>1. Len(list') - 0 = Len(list) - g
        BY <1>0, <1>1 DEF m
      <3>2. \A i \in 1 .. Len(list) - g : 0 + i = i /\ i \in 1..m
        BY <1>0 DEF m
      <3>3. \A i \in 1 .. Len(list) - g : list'[0 + i].call = list[g + i].call
        BY <1>1, <3>2
      <3> QED  BY <3>1, <3>3 DEF CallsFrom
    <2> QED  BY <1>0, <2>1, <2>2, <2>3 DEF T!vars
  <1> QED  BY <1>6, <1>7, <1>8, <1>9, <1>10 DEF CInv

\* The empty table.
LEMMA InitCInv == CalloutInit => CInv /\ T!Init
  <1> SUFFICES ASSUME CalloutInit PROVE CInv /\ T!Init
    OBVIOUS
  <1>1. /\ list = <<>> /\ list \in Seq(Entries) /\ Len(list) = 0 /\ running = 0
        /\ left = [c \in Call |-> 0] /\ 1..Len(list) = {} /\ running \in 0 .. Len(list) + 1
    BY DEF CalloutInit
  <1>2. Typed
    BY <1>1 DEF Typed
  <1>3. RunIsOver /\ DueAsAsked /\ Once
    BY <1>1 DEF RunIsOver, DueAsAsked, Once
  <1>4. [i \in DOMAIN Waiting |-> Waiting[i].call] = <<>>
    BY <1>1 DEF Waiting
  <1> QED  BY <1>1, <1>2, <1>3, <1>4 DEF CInv, T!Init

\* Every step keeps the invariant and is a step of Timers or none.
LEMMA StepKeeps == ASSUME CInv, [CalloutNext]_calloutVars PROVE CInv' /\ [T!Next]_(T!vars)
  <1>1. CASE Ask \/ MakeCall \/ MakeCallAndAsk \/ MoveDown
    BY <1>1, AskKeeps, MakeCallKeeps, MakeCallAndAskKeeps, MoveDownKeeps
  <1>2. CASE \E high \in BOOLEAN : Tick(high)
    BY <1>2, TickKeeps
  <1>3. CASE UNCHANGED calloutVars
    <2>1. UNCHANGED <<list, running, left>>
      BY <1>3 DEF calloutVars
    <2> QED  BY <2>1, SameTable
  <1> QED  BY <1>1, <1>2, <1>3 DEF CalloutNext

-----------------------------------------------------------------------------
(* Theorems.                                                               *)

\* In every behaviour the differences in callout[] add up to the ticks that are
\* left for each call, each call stands there once, and what clock has run has
\* no time left.
THEOREM DifferencesAddUp == CalloutSpec => []CInv
  <1>1. CInv /\ [CalloutNext]_calloutVars => CInv'
    BY StepKeeps
  <1>2. CalloutInit => CInv
    BY InitCInv
  <1> QED  BY <1>1, <1>2, PTL DEF CalloutSpec

\* The table of differences implements timers, for any number of calls, any
\* delays and any size of the table: calls are made in the order they fall due,
\* those due together in the order they were asked for, none before its time,
\* while the functions that clock calls insert entries into the table it walks.
THEOREM CalloutImplementsTimers == CalloutSpec => ImplementsTimers
  <1>1. CInv /\ [CalloutNext]_calloutVars => [T!Next]_(T!vars)
    BY StepKeeps
  <1>2. CalloutInit => T!Init
    BY InitCInv
  <1> QED  BY <1>1, <1>2, DifferencesAddUp, PTL DEF CalloutSpec, ImplementsTimers, T!Spec

-----------------------------------------------------------------------------
(* ResourceMap: the inductive invariant.  m stands for the array, e for its*)
(* end.                                                                    *)

\* The list has runs of units, in order, and nothing beyond its end.  Two
\* entries are as far apart as the gaps between them demand: stated of any two
\* and not of neighbours, it needs no induction to bound the list.
Lists(m, e) ==
    /\ m \in [Slots -> Run] /\ e \in 1..(SMAPSIZ + 1)
    /\ \A i \in Slots : i < e => /\ m[i].size > 0 /\ m[i].addr > 0
                                 /\ m[i].addr + m[i].size <= Size + 1
    /\ \A i \in Slots : e <= i => m[i].size = 0
    /\ \A i, j \in Slots : i < j /\ j < e =>
          m[i].addr + m[i].size + 2 * (j - i) <= m[j].addr + 1

\* Two runs have no unit in common.
Apart(r, s) == r.addr + r.size <= s.addr \/ s.addr + s.size <= r.addr

\* No unit is given twice, or given and free.
Sound(m, e, g) ==
    /\ Lists(m, e)
    /\ g \subseteq [addr : Units, size : Units]
    /\ \A r \in g : r.addr + r.size <= Size + 1
    /\ \A r, s \in g : r = s \/ Apart(r, s)
    /\ \A r \in g : \A i \in Slots : i < e => Apart(r, m[i])

MapInv == Sound(map, End, given) /\ answer \in 0..Size

\* Unit u is in an entry of the list.
Covers(m, e, u) == \E k \in Slots : k < e /\ m[k].addr <= u /\ u < m[k].addr + m[k].size

-----------------------------------------------------------------------------
(* Helpers of malloc and mfree.                                            *)

\* A sound list ends where IsEnd says, or fills the array.
LEMMA EndIs ==
    ASSUME NEW m, NEW e, Lists(m, e)
    PROVE  /\ e \in Slots => m[e].size = 0
           /\ \A j \in 1..(e - 1) : m[j].size # 0
           /\ (IF \E i \in Slots : m[i].size = 0 /\ \A j \in 1..(i - 1) : m[j].size # 0
               THEN CHOOSE i \in Slots : m[i].size = 0 /\ \A j \in 1..(i - 1) : m[j].size # 0
               ELSE SMAPSIZ + 1) = e
  <1> USE ResourceMapAssumption
  <1>1. /\ e \in 1..(SMAPSIZ + 1)
        /\ e \in Slots => m[e].size = 0
        /\ \A j \in 1..(e - 1) : m[j].size # 0
    BY DEF Lists, Slots, Run
  <1> DEFINE P(i) == m[i].size = 0 /\ \A j \in 1..(i - 1) : m[j].size # 0
  <1>2. ASSUME NEW i \in Slots, P(i) PROVE i = e
    <2>1. ~ (i < e) /\ ~ (e < i)
      BY <1>1, <1>2 DEF Slots, Lists, Run
    <2> QED  BY <1>1, <2>1 DEF Slots
  <1>3. CASE e \in Slots
    <2>1. P(e)
      BY <1>1, <1>3
    <2>2. (CHOOSE i \in Slots : P(i)) \in Slots /\ P(CHOOSE i \in Slots : P(i))
      BY <1>3, <2>1
    <2>3. (CHOOSE i \in Slots : P(i)) = e
      BY <1>2, <2>2
    <2> QED  BY <1>1, <1>3, <2>1, <2>3
  <1>4. CASE e \notin Slots
    <2>1. ~ \E i \in Slots : P(i)
      BY <1>2, <1>4
    <2>2. e = SMAPSIZ + 1
      BY <1>1, <1>4 DEF Slots
    <2> QED  BY <1>1, <1>4, <2>1, <2>2
  <1> QED  BY <1>3, <1>4

\* A list that has an end has it inside the array.
LEMMA EndedIs ==
    ASSUME Ended
    PROVE  End \in Slots
  <1> DEFINE P(i) == IsEnd(i)
  <1>1. \E i \in Slots : P(i)
    BY DEF Ended
  <1> HIDE DEF P
  <1>2. (CHOOSE i \in Slots : P(i)) \in Slots
    BY <1>1
  <1> QED  BY <1>2 DEF End, P

\* The units of the entries of a sound list.
LEMMA FreeIs ==
    ASSUME NEW m, NEW e, Lists(m, e), NEW u
    PROVE  u \in UnitsOfAll({m[i] : i \in 1..(e - 1)}) <=> u \in Int /\ Covers(m, e, u)
  <1> USE ResourceMapAssumption
  <1>1. \A i \in 1..(e - 1) : i \in Slots /\ i < e /\ m[i].addr \in Int /\ m[i].size \in Int
    BY DEF Lists, Slots, Run
  <1>2. \A i \in Slots : i < e => i \in 1..(e - 1)
    BY DEF Lists, Slots
  <1>3. ASSUME u \in UnitsOfAll({m[i] : i \in 1..(e - 1)})
        PROVE  u \in Int /\ Covers(m, e, u)
    <2>1. PICK i \in 1..(e - 1) : u \in UnitsOf(m[i])
      BY <1>3 DEF UnitsOfAll
    <2> QED  BY <1>1, <2>1 DEF UnitsOf, Covers
  <1>4. ASSUME u \in Int, Covers(m, e, u)
        PROVE  u \in UnitsOfAll({m[i] : i \in 1..(e - 1)})
    <2>1. PICK i \in Slots : i < e /\ m[i].addr <= u /\ u < m[i].addr + m[i].size
      BY <1>4 DEF Covers
    <2>2. i \in 1..(e - 1) /\ u \in UnitsOf(m[i])
      BY <1>1, <1>2, <1>4, <2>1 DEF UnitsOf
    <2> QED  BY <2>2 DEF UnitsOfAll
  <1> QED  BY <1>3, <1>4

\* The first entry that is large enough.
LEMMA FirstFitIs ==
    ASSUME NEW n, \E i \in Slots : Enough(i, n)
    PROVE  /\ FirstFit(n) \in Slots /\ Enough(FirstFit(n), n)
           /\ \A j \in 1..(FirstFit(n) - 1) : ~ Enough(j, n)
  <1> USE ResourceMapAssumption
  <1> DEFINE S == {i \in Slots : Enough(i, n)}
             P(i) == Enough(i, n) /\ \A j \in 1..(i - 1) : ~ Enough(j, n)
  <1>1. S \in SUBSET Nat /\ S # {}
    BY DEF Slots
  <1>2. PICK i \in S : \A k \in S : i <= k
    <2> HIDE DEF S
    <2> QED  BY <1>1, Least
  <1>3. i \in Slots /\ P(i)
    BY <1>2 DEF Slots
  <1>4. (CHOOSE x \in Slots : P(x)) \in Slots /\ P(CHOOSE x \in Slots : P(x))
    BY <1>3
  <1> QED  BY <1>4 DEF FirstFit

\* Where mfree stops.
LEMMA AboveIs ==
    ASSUME NEW a \in Units, NEW e \in Slots, End = e, map \in [Slots -> Run]
    PROVE  /\ Above(a) \in 1..e
           /\ \A j \in 1..(Above(a) - 1) : map[j].addr <= a
           /\ Above(a) = e \/ map[Above(a)].addr > a
  <1> USE ResourceMapAssumption
  <1> DEFINE S == {i \in 1..e : i = e \/ map[i].addr > a}
             P(i) == (\A j \in 1..(i - 1) : map[j].addr <= a) /\ (i = e \/ map[i].addr > a)
  <1>1. S \in SUBSET Nat /\ S # {}
    <2>1. e \in S
      BY DEF Slots
    <2> QED  BY <2>1 DEF Slots
  <1>2. PICK i \in S : \A k \in S : i <= k
    <2> HIDE DEF S
    <2> QED  BY <1>1, Least
  <1>3. i \in 1..e /\ P(i)
    <2>1. ASSUME NEW j \in 1..(i - 1) PROVE map[j].addr <= a
      <3>1. j \in 1..e /\ j \notin S
        BY <1>2 DEF Slots
      <3>2. map[j].addr \in Int /\ a \in Int
        BY <3>1 DEF Slots, Run, Units
      <3> QED  BY <3>1, <3>2
    <2> QED  BY <1>2, <2>1
  <1>4. (CHOOSE x \in 1..e : P(x)) \in 1..e /\ P(CHOOSE x \in 1..e : P(x))
    BY <1>3
  <1>5. Above(a) = CHOOSE x \in 1..e : P(x)
    BY DEF Above
  <1> QED  BY <1>4, <1>5

-----------------------------------------------------------------------------
(* Each operation keeps the map sound and changes the free units as asked.  *)

\* malloc(map, n), with a run that is large enough.
LEMMA MallocSound ==
    ASSUME MapInv, NEW n \in Units, Malloc(n)
    PROVE  \E e \in 1..(SMAPSIZ + 1) :
             /\ Sound(map', e, given')
             /\ answer' = map[FirstFit(n)].addr
             /\ given' = given \cup {[addr |-> answer', size |-> n]}
             /\ \A u \in Int : Covers(map', e, u) <=>
                   Covers(map, End, u) /\ ~ (answer' <= u /\ u < answer' + n)
  <1> USE ResourceMapAssumption
  <1> DEFINE i == FirstFit(n)
             e == End
             a == map[i].addr
             r == [addr |-> a, size |-> n]
  <1>1. i \in Slots /\ Enough(i, n)
    BY FirstFitIs DEF Malloc
  <1>2. /\ Sound(map, e, given) /\ n \in Nat \ {0}
        /\ e \in Slots /\ e \in Int /\ e \in 1..(SMAPSIZ + 1)
    <2>1. End \in Slots
      BY EndedIs DEF Malloc
    <2> QED  BY <2>1 DEF MapInv, Units, Slots
  <1>3. given' = given \cup {r} /\ answer' = a
    BY DEF Malloc
  <1>4. /\ map[i].size = n /\ i < e =>
             /\ map' \in [Slots -> Run]
             /\ \A j \in Slots : j < i => map'[j] = map[j]
             /\ \A j \in Slots : i <= j /\ j < e => map'[j] = map[j + 1]
             /\ \A j \in Slots : e <= j => map'[j] = map[j]
        /\ map[i].size > n =>
             /\ map' \in [Slots -> Run]
             /\ \A j \in Slots : j # i => map'[j] = map[j]
             /\ map'[i].addr = a + n /\ map'[i].size = map[i].size - n
    <2> DEFINE cut == [map EXCEPT ![i] = [addr |-> @.addr + n, size |-> @.size - n]]
    <2>1. map' = IF cut[i].size = 0 THEN MovedDown(cut, i) ELSE cut
      BY DEF Malloc
    <2>2. /\ map \in [Slots -> Run] /\ map[i] \in Run
          /\ map[i].addr \in Nat /\ map[i].size \in Nat /\ map[i].size >= n /\ i < e
          /\ map[i].addr > 0 /\ map[i].addr + map[i].size <= Size + 1
          /\ e \in Slots
      <3>1. i < e /\ map[i].size >= n
        BY <1>1 DEF Enough
      <3>2. Lists(map, e)
        BY <1>2 DEF Sound
      <3>3. map \in [Slots -> Run] /\ map[i] \in Run
        BY <1>1, <3>2 DEF Lists
      <3>4. map[i].addr > 0 /\ map[i].addr + map[i].size <= Size + 1
        BY <1>1, <3>1, <3>2 DEF Lists
      <3> QED  BY <1>2, <3>1, <3>3, <3>4 DEF Run
    <2>3. /\ cut[i].addr = a + n /\ cut[i].size = map[i].size - n
          /\ \A j \in Slots : j # i => cut[j] = map[j]
          /\ cut \in [Slots -> Run]
      <3>1. [addr |-> a + n, size |-> map[i].size - n] \in Run
        BY <1>2, <2>2 DEF Run, Units
      <3> QED  BY <1>1, <2>2, <3>1
    <2> HIDE DEF cut
    <2>4. CASE map[i].size = n
      <3>1. map' = [j \in Slots |-> IF i <= j /\ j < e THEN cut[j + 1] ELSE cut[j]]
        BY <1>2, <2>1, <2>2, <2>3, <2>4 DEF MovedDown
      <3>2. \A j \in Slots : i <= j /\ j < e => j + 1 \in Slots /\ j + 1 # i
        BY <1>1, <2>2 DEF Slots
      <3>3. \A j \in Slots : j < i \/ e <= j => j # i
        BY <1>1, <2>2 DEF Slots
      <3>4. map' \in [Slots -> Run]
        BY <2>3, <3>1, <3>2
      <3>5. \A j \in Slots : j < i => map'[j] = map[j]
        BY <1>1, <2>2, <2>3, <3>1, <3>3 DEF Slots
      <3>6. \A j \in Slots : i <= j /\ j < e => map'[j] = map[j + 1]
        BY <2>3, <3>1, <3>2
      <3>7. \A j \in Slots : e <= j => map'[j] = map[j]
        BY <2>2, <2>3, <3>1, <3>3 DEF Slots
      <3>8. ~ (map[i].size > n)
        BY <1>2, <2>2, <2>4
      <3> QED  BY <3>4, <3>5, <3>6, <3>7, <3>8
    <2>5. CASE map[i].size > n
      <3>1. map' = cut
        BY <1>2, <2>1, <2>2, <2>3, <2>5
      <3> QED  BY <1>2, <2>2, <2>3, <2>5, <3>1
    <2> QED  BY <1>2, <2>2, <2>4, <2>5
  <1>5. /\ e \in Slots /\ i < e /\ a = map[i].addr /\ map[i].size >= n /\ a > 0 /\ a + map[i].size <= Size + 1
        /\ \A j \in Slots : map[j].addr \in Nat /\ map[j].size \in Nat
        /\ \A j \in Slots : j < e => /\ map[j].size > 0 /\ map[j].addr > 0
                                     /\ map[j].addr + map[j].size <= Size + 1
        /\ \A j \in Slots : e <= j => map[j].size = 0
        /\ \A j, k \in Slots : j < k /\ k < e =>
              map[j].addr + map[j].size + 2 * (k - j) <= map[k].addr + 1
    <2>1. i < e /\ map[i].size >= n
      BY <1>1 DEF Enough
    <2>2. Lists(map, e)
      BY <1>2 DEF Sound
    <2>3. \A j \in Slots : map[j].addr \in Nat /\ map[j].size \in Nat
      BY <2>2 DEF Lists, Run
    <2>4. a > 0 /\ a + map[i].size <= Size + 1
      BY <1>1, <2>1, <2>2 DEF Lists
    <2> QED  BY <1>2, <2>1, <2>2, <2>3, <2>4 DEF Lists
  <1>p. ASSUME NEW j \in Slots, NEW k \in Slots, j < e, k < e, j # k
        PROVE  Apart(map[j], map[k])
    <2>1. CASE j < k
      <3>1. k - j \in Nat /\ k - j > 0
        BY <2>1 DEF Slots
      <3>2. map[j].addr + map[j].size + 2 * (k - j) <= map[k].addr + 1
        BY <1>5, <1>p, <2>1
      <3> QED  BY <1>5, <3>1, <3>2 DEF Apart
    <2>2. CASE k < j
      <3>1. j - k \in Nat /\ j - k > 0
        BY <2>2 DEF Slots
      <3>2. map[k].addr + map[k].size + 2 * (j - k) <= map[j].addr + 1
        BY <1>5, <1>p, <2>2
      <3> QED  BY <1>5, <3>1, <3>2 DEF Apart
    <2> QED  BY <1>p, <2>1, <2>2 DEF Slots
  <1>n. /\ n \in Nat /\ n > 0 /\ a \in Nat /\ a > 0 /\ map[i].size \in Nat
        /\ map[i].addr = a /\ map[i].size >= n /\ a + map[i].size <= Size + 1
    <2>1. n \in Nat /\ n > 0
      BY DEF Units
    <2>2. map[i].addr \in Nat /\ map[i].size \in Nat
      BY <1>1, <1>5
    <2> QED  BY <1>5, <2>1, <2>2
  <1>g. \A s \in given : /\ s.addr \in Nat /\ s.size \in Nat
                         /\ \A j \in Slots : j < e => Apart(s, map[j])
    BY <1>2 DEF Sound, Units
  <1>6. /\ r \in [addr : Units, size : Units] /\ r.addr = a /\ r.size = n
        /\ r.addr + r.size <= Size + 1
    BY <1>n DEF Units
  <1>7. \A s \in given : Apart(r, s) /\ Apart(s, r)
    <2> TAKE s \in given
    <2>1. Apart(s, map[i]) /\ s.addr \in Nat /\ s.size \in Nat
      BY <1>1, <1>5, <1>g
    <2> QED  BY <1>n, <1>6, <2>1 DEF Apart
  <1>8. /\ given' \subseteq [addr : Units, size : Units]
        /\ \A s \in given' : s.addr + s.size <= Size + 1
        /\ \A s, t \in given' : s = t \/ Apart(s, t)
    BY <1>2, <1>3, <1>6, <1>7 DEF Sound
  <1> HIDE DEF r, i, a, e
  <1>9. CASE map[i].size = n
    <2> DEFINE f == e - 1
    <2>1. /\ f \in Slots /\ f < e /\ i <= f /\ f \in 1..(SMAPSIZ + 1)
          /\ \A j \in Slots : j < i => map'[j] = map[j]
          /\ \A j \in Slots : i <= j /\ j < e => map'[j] = map[j + 1]
          /\ \A j \in Slots : e <= j => map'[j] = map[j]
          /\ map' \in [Slots -> Run]
      <3>1. i \in Int /\ e \in Int /\ 1 <= i /\ i < e /\ e <= SMAPSIZ
        BY <1>1, <1>2, <1>5 DEF Slots
      <3>2. f \in Slots /\ f < e /\ i <= f /\ f \in 1..(SMAPSIZ + 1)
        BY <3>1 DEF Slots
      <3>3. i < e /\ map[i].size = n
        BY <1>5, <1>9
      <3> QED  BY <1>4, <3>2, <3>3
    <2> HIDE DEF f
    <2>0. f = e - 1
      BY DEF f
    <2>a. \A j \in Slots : /\ j < f => j + 1 \in Slots /\ j < e /\ j + 1 < e
                           /\ j < i => j < e /\ j # i
                           /\ i <= j => j + 1 # i
                           /\ j < i \/ i <= j
                           /\ f <= j => e <= j \/ (j = f /\ j < e /\ j + 1 = e)
      BY <1>1, <1>5, <2>0, <2>1, SMTT(40) DEF Slots
    <2>2. \A j \in Slots : i <= j /\ j < f => map'[j] = map[j + 1] /\ j + 1 \in Slots /\ j + 1 < e
      BY <2>1, <2>a
    <2>3. \A j \in Slots : j < i => j < e
      BY <2>a
    <2>4. Lists(map', f)
      <3>1. ASSUME NEW j \in Slots, j < f
            PROVE  map'[j].size > 0 /\ map'[j].addr > 0 /\ map'[j].addr + map'[j].size <= Size + 1
        <4>1. CASE j < i
          BY <1>5, <2>1, <2>a, <4>1
        <4>2. CASE i <= j
          BY <1>5, <2>2, <3>1, <4>2
        <4> QED  BY <2>a, <4>1, <4>2
      <3>2. ASSUME NEW j \in Slots, f <= j PROVE map'[j].size = 0
        <4>1. CASE j = f
          <5>0. i <= j /\ j < e /\ j + 1 = e
            BY <1>1, <1>5, <2>0, <2>1, <4>1 DEF Slots
          <5>1. map'[j] = map[j + 1] /\ j + 1 = e
            BY <2>1, <5>0
          <5>2. map[e].size = 0
            BY <1>5 DEF Slots
          <5> QED  BY <5>1, <5>2
        <4>2. CASE j # f
          BY <1>5, <2>1, <2>a, <3>2, <4>2
        <4> QED  BY <4>1, <4>2
      <3>3. ASSUME NEW j \in Slots, NEW k \in Slots, j < k, k < f
            PROVE  map'[j].addr + map'[j].size + 2 * (k - j) <= map'[k].addr + 1
        <4>1. CASE k < i
          <5>1. j < i /\ k < e
            BY <1>1, <2>a, <3>3, <4>1 DEF Slots
          <5> QED  BY <1>5, <2>1, <3>3, <4>1, <5>1
        <4>2. CASE j < i /\ i <= k
          <5>1. map[j].addr + map[j].size + 2 * ((k + 1) - j) <= map[k + 1].addr + 1
            BY <1>1, <1>5, <2>2, <3>3, <4>2 DEF Slots
          <5>2. map'[j] = map[j] /\ map'[k] = map[k + 1] /\ k + 1 \in Slots
            BY <2>1, <2>2, <3>3, <4>2
          <5> QED  BY <1>5, <5>1, <5>2 DEF Slots
        <4>3. CASE i <= j
          <5>1. i <= k /\ j < f /\ j + 1 < k + 1
            BY <1>1, <2>1, <3>3, <4>3 DEF Slots
          <5>2. map[j + 1].addr + map[j + 1].size + 2 * ((k + 1) - (j + 1)) <= map[k + 1].addr + 1
            BY <1>5, <2>2, <3>3, <4>3, <5>1
          <5>3. (k + 1) - (j + 1) = k - j
            BY DEF Slots
          <5> QED  BY <2>2, <3>3, <4>3, <5>1, <5>2, <5>3
        <4> QED  BY <1>1, <4>1, <4>2, <4>3 DEF Slots
      <3> QED  BY <2>1, <3>1, <3>2, <3>3 DEF Lists
    <2>5. ASSUME NEW s \in given', NEW j \in Slots, j < f PROVE Apart(s, map'[j])
      <3>1. PICK k \in Slots : k < e /\ k # i /\ map'[j] = map[k]
        BY <2>1, <2>2, <2>a, <2>5
      <3>2. CASE s \in given
        BY <1>2, <3>1, <3>2 DEF Sound
      <3>3. CASE s = r
        <4>1. Apart(map[i], map[k])
          BY <1>1, <1>5, <1>p, <3>1
        <4> QED  BY <1>1, <1>2, <1>5, <1>6, <3>1, <3>3, <4>1 DEF Apart
      <3> QED  BY <1>3, <3>2, <3>3
    <2>6. Sound(map', f, given')
      BY <1>8, <2>4, <2>5 DEF Sound
    <2>7. ASSUME NEW u \in Int
          PROVE  Covers(map', f, u) <=> Covers(map, e, u) /\ ~ (a <= u /\ u < a + n)
      <3>1. ASSUME Covers(map', f, u)
            PROVE  Covers(map, e, u) /\ ~ (a <= u /\ u < a + n)
        <4>1. PICK j \in Slots : j < f /\ map'[j].addr <= u /\ u < map'[j].addr + map'[j].size
          BY <3>1 DEF Covers
        <4>2. PICK k \in Slots : k < e /\ k # i /\ map'[j] = map[k]
          BY <2>1, <2>2, <2>a, <4>1
        <4>3. Covers(map, e, u)
          BY <4>1, <4>2 DEF Covers
        <4>4. Apart(map[i], map[k])
          BY <1>1, <1>5, <1>p, <4>2
        <4> QED  BY <1>1, <1>2, <1>5, <1>9, <4>1, <4>2, <4>3, <4>4 DEF Apart
      <3>2. ASSUME Covers(map, e, u), ~ (a <= u /\ u < a + n)
            PROVE  Covers(map', f, u)
        <4>1. PICK k \in Slots : k < e /\ map[k].addr <= u /\ u < map[k].addr + map[k].size
          BY <3>2 DEF Covers
        <4>2. k # i
          BY <1>1, <1>5, <1>9, <3>2, <4>1
        <4>3. CASE k < i
          BY <1>1, <2>1, <4>1, <4>3 DEF Covers, Slots
        <4>4. CASE k > i
          <5>1. k - 1 \in Slots /\ k - 1 < f /\ i <= k - 1 /\ (k - 1) + 1 = k
            BY <1>1, <1>5, <2>0, <4>1, <4>4 DEF Slots
          <5>2. map'[k - 1] = map[k]
            BY <2>2, <5>1
          <5> QED  BY <4>1, <5>1, <5>2 DEF Covers
        <4> QED  BY <1>1, <4>2, <4>3, <4>4 DEF Slots
      <3> QED  BY <3>1, <3>2
    <2> QED  BY <1>3, <2>1, <2>6, <2>7 DEF r, i, a, e
  <1>10. CASE map[i].size > n
    <2>1. /\ map' \in [Slots -> Run]
          /\ \A j \in Slots : j # i => map'[j] = map[j]
          /\ map'[i].addr = a + n /\ map'[i].size = map[i].size - n
      BY <1>4, <1>10
    <2>2. Lists(map', e)
      <3>1. ASSUME NEW j \in Slots, j < e
            PROVE  map'[j].size > 0 /\ map'[j].addr > 0 /\ map'[j].addr + map'[j].size <= Size + 1
        BY <1>1, <1>2, <1>5, <1>10, <2>1, <3>1
      <3>2. ASSUME NEW j \in Slots, e <= j PROVE map'[j].size = 0
        BY <1>1, <1>5, <2>1, <3>2 DEF Slots
      <3>3. ASSUME NEW j \in Slots, NEW k \in Slots, j < k, k < e
            PROVE  map'[j].addr + map'[j].size + 2 * (k - j) <= map'[k].addr + 1
        <4>1. map[j].addr + map[j].size + 2 * (k - j) <= map[k].addr + 1
          BY <1>5, <3>3
        <4>2. map'[j].addr + map'[j].size = map[j].addr + map[j].size
          BY <1>1, <1>2, <1>5, <2>1
        <4>3. map'[k].addr >= map[k].addr
          BY <1>1, <1>2, <1>5, <2>1
        <4>4. map'[k].addr \in Nat /\ map[k].addr \in Nat /\ k - j \in Int
          BY <1>5, <2>1 DEF Run, Slots
        <4> QED  BY <1>5, <4>1, <4>2, <4>3, <4>4
      <3> QED  BY <1>2, <2>1, <3>1, <3>2, <3>3 DEF Lists
    <2>3. ASSUME NEW s \in given', NEW j \in Slots, j < e PROVE Apart(s, map'[j])
      <3>1. CASE s \in given
        <4>1. Apart(s, map[j]) /\ s.addr \in Nat /\ s.size \in Nat
          BY <1>g, <2>3, <3>1
        <4>2. CASE j = i
          BY <1>n, <2>1, <4>1, <4>2 DEF Apart
        <4>3. CASE j # i
          BY <2>1, <4>1, <4>3
        <4> QED  BY <4>2, <4>3
      <3>2. CASE s = r
        <4>1. CASE j = i
          BY <1>2, <1>5, <1>6, <2>1, <3>2, <4>1 DEF Apart
        <4>2. CASE j # i
          <5>1. Apart(map[i], map[j])
            BY <1>1, <1>5, <1>p, <2>3, <4>2
          <5> QED  BY <1>1, <1>2, <1>5, <1>6, <2>1, <3>2, <4>2, <5>1 DEF Apart
        <4> QED  BY <4>1, <4>2
      <3> QED  BY <1>3, <3>1, <3>2
    <2>4. Sound(map', e, given')
      BY <1>8, <2>2, <2>3 DEF Sound
    <2>5. ASSUME NEW u \in Int
          PROVE  Covers(map', e, u) <=> Covers(map, e, u) /\ ~ (a <= u /\ u < a + n)
      <3>1. ASSUME NEW k \in Slots, k < e, k # i, map[k].addr <= u, u < map[k].addr + map[k].size
            PROVE  ~ (a <= u /\ u < a + n)
        <4>1. Apart(map[i], map[k])
          BY <1>1, <1>5, <1>p, <3>1
        <4>2. map[k].addr \in Nat /\ map[k].size \in Nat
          BY <1>5
        <4> QED  BY <1>n, <3>1, <4>1, <4>2 DEF Apart
      <3>2. ASSUME Covers(map', e, u)
            PROVE  Covers(map, e, u) /\ ~ (a <= u /\ u < a + n)
        <4>1. PICK k \in Slots : k < e /\ map'[k].addr <= u /\ u < map'[k].addr + map'[k].size
          BY <3>2 DEF Covers
        <4>2. CASE k = i
          <5>1. map[i].addr <= u /\ u < map[i].addr + map[i].size /\ ~ (u < a + n)
            BY <1>1, <1>2, <1>5, <2>1, <4>1, <4>2
          <5> QED  BY <1>1, <1>5, <5>1 DEF Covers
        <4>3. CASE k # i
          BY <2>1, <3>1, <4>1, <4>3 DEF Covers
        <4> QED  BY <4>2, <4>3
      <3>3. ASSUME Covers(map, e, u), ~ (a <= u /\ u < a + n)
            PROVE  Covers(map', e, u)
        <4>1. PICK k \in Slots : k < e /\ map[k].addr <= u /\ u < map[k].addr + map[k].size
          BY <3>3 DEF Covers
        <4>2. map'[k].addr <= u /\ u < map'[k].addr + map'[k].size
          BY <1>1, <1>2, <1>5, <2>1, <3>3, <4>1
        <4> QED  BY <4>1, <4>2 DEF Covers
      <3> QED  BY <3>2, <3>3
    <2> QED  BY <1>2, <1>3, <2>4, <2>5 DEF r, i, a, e
  <1>11. map[i].size = n \/ map[i].size > n
    BY <1>1, <1>2, <1>5
  <1> QED  BY <1>9, <1>10, <1>11

\* The entries q .. s - 1 of a list are replaced by one, those from s on move.
Spliced(m, e, m2, q, s) ==
    /\ m2 \in [Slots -> Run]
    /\ e \in Slots /\ q \in Slots /\ s \in Slots /\ q <= e /\ s <= e /\ q <= s /\ s <= q + 2
    /\ (e + q) - (s - 1) \in 1..(SMAPSIZ + 1)
    /\ \A j \in Slots : j < q => m2[j] = m[j]
    /\ \A j \in Slots : q < j /\ j < (e + q) - (s - 1) => m2[j] = m[j + (s - 1) - q]
    /\ \A j \in Slots : (e + q) - (s - 1) <= j => m2[j].size = 0
    /\ m2[q].size > 0 /\ m2[q].addr > 0 /\ m2[q].addr + m2[q].size <= Size + 1
    /\ q > 1 => m[q - 1].addr + m[q - 1].size < m2[q].addr
    /\ s < e => m2[q].addr + m2[q].size < m[s].addr

\* What becomes of a list by such a replacement.
LEMMA SpliceSound ==
    ASSUME NEW m, NEW e, NEW m2, NEW q, NEW s, Lists(m, e), Spliced(m, e, m2, q, s)
    PROVE  /\ Lists(m2, (e + q) - (s - 1))
           /\ \A j \in Slots : j < (e + q) - (s - 1) /\ j # q =>
                 \E k \in Slots : k < e /\ (k < q \/ s <= k) /\ m2[j] = m[k]
           /\ \A k \in Slots : k < e /\ (k < q \/ s <= k) =>
                 \E j \in Slots : j < (e + q) - (s - 1) /\ j # q /\ m2[j] = m[k]
  <1> USE ResourceMapAssumption
  <1> DEFINE f == (e + q) - (s - 1)
             To(j) == j + (s - 1) - q
  <1>1. /\ e \in Slots /\ q \in Slots /\ s \in Slots /\ f \in 1..(SMAPSIZ + 1)
        /\ q <= e /\ s <= e /\ q <= s /\ s <= q + 2
    BY DEF Lists, Spliced
  <1>2. /\ \A j \in Slots : j < q => m2[j] = m[j]
        /\ \A j \in Slots : q < j /\ j < f => m2[j] = m[To(j)]
        /\ \A j \in Slots : f <= j => m2[j].size = 0
        /\ m2 \in [Slots -> Run]
    BY DEF Spliced
  <1>3. /\ m2[q].size > 0 /\ m2[q].addr > 0 /\ m2[q].addr + m2[q].size <= Size + 1
        /\ q > 1 => m[q - 1].addr + m[q - 1].size < m2[q].addr
        /\ s < e => m2[q].addr + m2[q].size < m[s].addr
    BY DEF Spliced
  <1>4. /\ \A j \in Slots : m[j].addr \in Nat /\ m[j].size \in Nat
        /\ \A j \in Slots : m2[j].addr \in Nat /\ m2[j].size \in Nat
        /\ \A j \in Slots : j < e => /\ m[j].size > 0 /\ m[j].addr > 0
                                     /\ m[j].addr + m[j].size <= Size + 1
        /\ \A j, k \in Slots : j < k /\ k < e =>
              m[j].addr + m[j].size + 2 * (k - j) <= m[k].addr + 1
    BY <1>2 DEF Lists, Run
  <1>5. \A j \in Slots : /\ j < q => j < e /\ j # q /\ j < f
                         /\ q < j /\ j < f => To(j) \in Slots /\ s <= To(j) /\ To(j) < e
                         /\ j < q \/ j = q \/ q < j
                         /\ j \in Int
    BY <1>1 DEF Slots
  <1> HIDE DEF f
  <1>6. ASSUME NEW j \in Slots, j < f
        PROVE  m2[j].size > 0 /\ m2[j].addr > 0 /\ m2[j].addr + m2[j].size <= Size + 1
    <2>1. CASE j < q
      BY <1>2, <1>4, <1>5, <2>1
    <2>2. CASE q < j
      BY <1>2, <1>4, <1>5, <1>6, <2>2
    <2> QED  BY <1>3, <1>5, <2>1, <2>2
  <1>7. ASSUME NEW j \in Slots, j < q
        PROVE  m2[j].addr + m2[j].size + 2 * (q - j) <= m2[q].addr + 1
    <2>1. q - 1 \in Slots /\ q - 1 < e /\ q > 1 /\ j <= q - 1
      BY <1>1, <1>7 DEF Slots
    <2>2. m2[j] = m[j] /\ m[q - 1].addr + m[q - 1].size < m2[q].addr
      BY <1>2, <1>3, <1>7, <2>1
    <2>3. CASE j = q - 1
      BY <1>1, <1>4, <2>2, <2>3 DEF Slots
    <2>4. CASE j # q - 1
      <3>1. j < q - 1
        BY <1>1, <2>1, <2>4 DEF Slots
      <3>2. m[j].addr + m[j].size + 2 * ((q - 1) - j) <= m[q - 1].addr + 1
        BY <1>4, <2>1, <3>1
      <3>3. m[q - 1].size > 0
        BY <1>4, <2>1
      <3> QED  BY <1>1, <1>4, <2>1, <2>2, <3>2, <3>3 DEF Slots
    <2> QED  BY <2>3, <2>4
  <1>8. ASSUME NEW k \in Slots, q < k, k < f
        PROVE  m2[q].addr + m2[q].size + 2 * (k - q) <= m2[k].addr + 1
    <2> DEFINE t == To(k)
    <2>1. t \in Slots /\ s <= t /\ t < e /\ s < e /\ t - s = k - q - 1
      BY <1>1, <1>5, <1>8 DEF Slots
    <2>2. m2[k] = m[t] /\ m2[q].addr + m2[q].size < m[s].addr
      BY <1>2, <1>3, <1>8, <2>1
    <2> HIDE DEF t
    <2>3. CASE t = s
      BY <1>1, <1>4, <1>8, <2>1, <2>2, <2>3 DEF Slots
    <2>4. CASE t # s
      <3>1. s < t
        BY <1>1, <2>1, <2>4 DEF Slots
      <3>2. m[s].addr + m[s].size + 2 * (t - s) <= m[t].addr + 1
        BY <1>1, <1>4, <2>1, <3>1
      <3>3. m[s].size > 0
        BY <1>1, <1>4, <2>1
      <3>4. t - s = k - q - 1 /\ k - q \in Int
        BY <1>1, <2>1 DEF Slots
      <3> QED  BY <1>1, <1>4, <2>1, <2>2, <3>2, <3>3, <3>4 DEF Slots
    <2> QED  BY <2>3, <2>4
  <1>9. ASSUME NEW j \in Slots, NEW k \in Slots, j < k, k < f
        PROVE  m2[j].addr + m2[j].size + 2 * (k - j) <= m2[k].addr + 1
    <2>1. CASE k < q
      <3>1. j < q /\ k < e /\ m2[j] = m[j] /\ m2[k] = m[k]
        BY <1>1, <1>2, <1>5, <1>9, <2>1 DEF Slots
      <3> QED  BY <1>4, <1>9, <3>1
    <2>2. CASE k = q
      BY <1>7, <1>9, <2>2
    <2>3. CASE j = q
      BY <1>8, <1>9, <2>3
    <2>4. CASE j < q /\ q < k
      <3>1. m2[j].addr + m2[j].size + 2 * (q - j) <= m2[q].addr + 1
        BY <1>7, <2>4
      <3>2. m2[q].addr + m2[q].size + 2 * (k - q) <= m2[k].addr + 1
        BY <1>8, <1>9, <2>4
      <3> QED  BY <1>1, <1>3, <1>4, <1>5, <3>1, <3>2
    <2>5. CASE q < j
      <3>1. q < k /\ j < f
        BY <1>1, <1>9, <2>5 DEF Slots
      <3>2. To(j) \in Slots /\ To(k) \in Slots /\ To(j) < To(k) /\ To(k) < e
        BY <1>1, <1>5, <1>9, <2>5, <3>1 DEF Slots
      <3>3. m[To(j)].addr + m[To(j)].size + 2 * (To(k) - To(j)) <= m[To(k)].addr + 1
        BY <1>4, <3>2
      <3>4. To(k) - To(j) = k - j
        BY <1>1 DEF Slots
      <3>5. m2[j] = m[To(j)] /\ m2[k] = m[To(k)]
        BY <1>2, <1>9, <2>5, <3>1
      <3> QED  BY <3>3, <3>4, <3>5
    <2> QED  BY <1>1, <1>5, <1>9, <2>1, <2>2, <2>3, <2>4, <2>5
  <1>10. Lists(m2, f)
    BY <1>1, <1>2, <1>6, <1>9 DEF Lists
  <1>11. ASSUME NEW j \in Slots, j < f, j # q
         PROVE  \E k \in Slots : k < e /\ (k < q \/ s <= k) /\ m2[j] = m[k]
    <2>1. CASE j < q
      BY <1>2, <1>5, <2>1
    <2>2. CASE q < j
      BY <1>2, <1>5, <1>11, <2>2
    <2> QED  BY <1>5, <1>11, <2>1, <2>2
  <1>12. ASSUME NEW k \in Slots, k < e, k < q \/ s <= k
         PROVE  \E j \in Slots : j < f /\ j # q /\ m2[j] = m[k]
    <2>1. CASE k < q
      BY <1>2, <1>5, <2>1
    <2>2. CASE s <= k
      <3> DEFINE j == k - ((s - 1) - q)
      <3>1. j \in Slots /\ q < j /\ j < f /\ To(j) = k
        BY <1>1, <1>12, <2>2 DEF Slots, f
      <3>2. j # q /\ m2[j] = m[k]
        BY <1>1, <1>2, <3>1 DEF Slots
      <3> QED  BY <3>1, <3>2
    <2> QED  BY <1>12, <2>1, <2>2
  <1> QED  BY <1>10, <1>11, <1>12 DEF f

\* The entry at q is the run that is freed and what it touches.
Joins(m, e, g, run, m2, q, s) ==
    /\ Spliced(m, e, m2, q, s)
    /\ \A t \in g : t = run \/ Apart(t, m2[q])
    /\ \A u \in Int : (m2[q].addr <= u /\ u < m2[q].addr + m2[q].size) <=>
          \/ run.addr <= u /\ u < run.addr + run.size
          \/ \E k \in Slots : q <= k /\ k < s /\ k < e
                              /\ m[k].addr <= u /\ u < m[k].addr + m[k].size

\* A run that is freed replaces the entries q .. s - 1, whose units it joins.
LEMMA JoinSound ==
    ASSUME NEW m, NEW e, NEW g, Sound(m, e, g), NEW run \in g,
           NEW m2, NEW q, NEW s, Joins(m, e, g, run, m2, q, s)
    PROVE  \E f \in 1..(SMAPSIZ + 1) :
             /\ Sound(m2, f, g \ {run})
             /\ \A u \in Int : Covers(m2, f, u) <=>
                   Covers(m, e, u) \/ (run.addr <= u /\ u < run.addr + run.size)
  <1> DEFINE f == (e + q) - (s - 1)
  <1>0. /\ Spliced(m, e, m2, q, s)
        /\ \A t \in g : t = run \/ Apart(t, m2[q])
        /\ \A u \in Int : (m2[q].addr <= u /\ u < m2[q].addr + m2[q].size) <=>
              \/ run.addr <= u /\ u < run.addr + run.size
              \/ \E k \in Slots : q <= k /\ k < s /\ k < e
                                  /\ m[k].addr <= u /\ u < m[k].addr + m[k].size
    BY DEF Joins
  <1>1. Lists(m, e)
    BY DEF Sound
  <1>2. /\ Lists(m2, f)
        /\ \A j \in Slots : j < f /\ j # q =>
              \E k \in Slots : k < e /\ (k < q \/ s <= k) /\ m2[j] = m[k]
        /\ \A k \in Slots : k < e /\ (k < q \/ s <= k) =>
              \E j \in Slots : j < f /\ j # q /\ m2[j] = m[k]
    BY <1>0, <1>1, SpliceSound
  <1>3. f \in 1..(SMAPSIZ + 1) /\ q \in Slots /\ s \in Slots /\ e \in Slots /\ q < f
    BY <1>0, ResourceMapAssumption DEF Spliced, Sound, Lists, Slots
  <1> HIDE DEF f
  <1>4. Sound(m2, f, g \ {run})
    <2>1. ASSUME NEW t \in g \ {run}, NEW j \in Slots, j < f PROVE Apart(t, m2[j])
      <3>1. CASE j = q
        BY <1>0, <2>1, <3>1
      <3>2. CASE j # q
        <4>1. PICK k \in Slots : k < e /\ m2[j] = m[k]
          BY <1>2, <2>1, <3>2
        <4> QED  BY <4>1 DEF Sound
      <3> QED  BY <3>1, <3>2
    <2> QED  BY <1>2, <2>1 DEF Sound
  <1>5. ASSUME NEW u \in Int, Covers(m2, f, u)
        PROVE  Covers(m, e, u) \/ (run.addr <= u /\ u < run.addr + run.size)
    <2>1. PICK j \in Slots : j < f /\ m2[j].addr <= u /\ u < m2[j].addr + m2[j].size
      BY <1>5 DEF Covers
    <2>2. CASE j = q
      BY <1>0, <1>5, <2>1, <2>2 DEF Covers
    <2>3. CASE j # q
      <3>1. PICK k \in Slots : k < e /\ m2[j] = m[k]
        BY <1>2, <2>1, <2>3
      <3> QED  BY <2>1, <3>1 DEF Covers
    <2> QED  BY <2>2, <2>3
  <1>6. ASSUME NEW u \in Int, Covers(m, e, u) \/ (run.addr <= u /\ u < run.addr + run.size)
        PROVE  Covers(m2, f, u)
    <2>1. CASE m2[q].addr <= u /\ u < m2[q].addr + m2[q].size
      BY <1>3, <2>1 DEF Covers
    <2>2. CASE ~ (m2[q].addr <= u /\ u < m2[q].addr + m2[q].size)
      <3>1. Covers(m, e, u)
        BY <1>0, <1>6, <2>2
      <3>2. PICK k \in Slots : k < e /\ m[k].addr <= u /\ u < m[k].addr + m[k].size
        BY <3>1 DEF Covers
      <3>3. ~ (q <= k /\ k < s)
        BY <1>0, <1>6, <2>2, <3>2
      <3>4. k < q \/ s <= k
        BY <1>3, <3>3, ResourceMapAssumption DEF Slots
      <3>5. PICK j \in Slots : j < f /\ m2[j] = m[k]
        BY <1>2, <3>2, <3>4
      <3> QED  BY <3>2, <3>5 DEF Covers
    <2> QED  BY <2>1, <2>2
  <1> QED  BY <1>3, <1>4, <1>5, <1>6

\* mfree(map, run.size, run.addr).
LEMMA MfreeSound ==
    ASSUME MapInv, NEW run \in given, Mfree(run)
    PROVE  \E f \in 1..(SMAPSIZ + 1) :
             /\ Sound(map', f, given')
             /\ \A u \in Int : Covers(map', f, u) <=>
                   Covers(map, End, u) \/ (run.addr <= u /\ u < run.addr + run.size)
  <1> USE ResourceMapAssumption
  <1> DEFINE i == Above(run.addr)
             e == End
             z == run.addr + run.size
             longer == [map EXCEPT ![i - 1].size = @ + run.size]
             joined == [longer EXCEPT ![i - 1].size = @ + map[i].size]
  <1>1. Sound(map, e, given) /\ Lists(map, e)
    BY DEF MapInv, Sound
  <1>2. /\ run.addr \in Units /\ run.size \in Units
        /\ run.addr \in Nat /\ run.size \in Nat /\ run.addr > 0 /\ run.size > 0
        /\ run.addr + run.size <= Size + 1
    BY <1>1 DEF Sound, Units
  <1>3. /\ e \in Slots /\ e \in 1..(SMAPSIZ + 1) /\ i \in 1..e /\ i \in Slots
        /\ \A j \in 1..(i - 1) : map[j].addr <= run.addr
        /\ i = e \/ map[i].addr > run.addr
    <2>1. e \in Slots /\ map \in [Slots -> Run]
      BY <1>1, EndedIs DEF Lists, Mfree
    <2>2. /\ i \in 1..e
          /\ \A j \in 1..(i - 1) : map[j].addr <= run.addr
          /\ i = e \/ map[i].addr > run.addr
      BY <1>2, <2>1, AboveIs
    <2> QED  BY <2>1, <2>2 DEF Slots
  <1>4. map' = CASE AbutsBelow(run, i) /\ AbutsAbove(run, i) -> MovedDown(joined, i)
                 [] AbutsBelow(run, i) /\ ~ AbutsAbove(run, i) -> longer
                 [] ~ AbutsBelow(run, i) /\ AbutsAbove(run, i) ->
                      [map EXCEPT ![i] = [addr |-> run.addr, size |-> @.size + run.size]]
                 [] OTHER -> MovedUp(run, i)
    BY DEF Mfree
  <1>5. given' = given \ {run}
    BY DEF Mfree
  <1>6. /\ map \in [Slots -> Run]
        /\ \A j \in Slots : map[j] \in Run /\ map[j].addr \in Nat /\ map[j].size \in Nat
        /\ \A j \in Slots : j < e => /\ map[j].size > 0 /\ map[j].addr > 0
                                     /\ map[j].addr + map[j].size <= Size + 1
        /\ \A j \in Slots : e <= j => map[j].size = 0
        /\ \A j, k \in Slots : j < k /\ k < e =>
              map[j].addr + map[j].size + 2 * (k - j) <= map[k].addr + 1
    BY <1>1 DEF Lists, Run
  <1>7. \A j \in Slots : j < e => Apart(run, map[j])
    BY <1>1 DEF Sound
  <1> HIDE DEF i, e, z, longer, joined
  <1>8. ASSUME NEW j \in Slots, j < i
        PROVE  j < e /\ map[j].addr + map[j].size <= run.addr
    <2>1. j < e /\ map[j].addr <= run.addr
      BY <1>3, <1>8 DEF Slots
    <2> QED  BY <1>2, <1>6, <1>7, <2>1 DEF Apart
  <1>9. ASSUME NEW j \in Slots, i <= j, j < e
        PROVE  z <= map[j].addr
    <2>1. i < e /\ map[i].addr > run.addr
      BY <1>3, <1>9 DEF Slots
    <2>2. map[j].addr > run.addr
      <3>1. CASE i = j
        BY <2>1, <3>1
      <3>2. CASE i # j
        <4>1. i < j /\ j - i \in Nat /\ j - i > 0
          BY <1>3, <1>9, <3>2 DEF Slots
        <4>2. map[i].addr + map[i].size + 2 * (j - i) <= map[j].addr + 1
          BY <1>3, <1>6, <1>9, <4>1
        <4> QED  BY <1>2, <1>3, <1>6, <2>1, <4>1, <4>2
      <3> QED  BY <3>1, <3>2
    <2> QED  BY <1>2, <1>6, <1>7, <1>9, <2>2 DEF Apart, z
  <1>10. z = run.addr + run.size /\ z \in Nat /\ z > run.addr /\ z <= Size + 1
    BY <1>2 DEF z
  <1>11. \A t \in given : t = run \/ Apart(t, run)
    BY <1>1 DEF Sound
  <1>12. \A t \in given : t.addr \in Nat /\ t.size \in Nat /\ t.size > 0
    BY <1>1 DEF Sound, Units
  <1>13. \A t \in given : \A j \in Slots : j < e => Apart(t, map[j])
    BY <1>1 DEF Sound
  <1>14. CASE AbutsBelow(run, i) /\ AbutsAbove(run, i)
    <2> DEFINE q == i - 1
               s == i + 1
    <2>1. /\ i > 1 /\ i < e /\ q \in Slots /\ s \in Slots /\ q < e
          /\ map[q].addr + map[q].size = run.addr /\ z = map[i].addr
      BY <1>3, <1>14 DEF AbutsBelow, AbutsAbove, Slots, z, e
    <2>2. /\ joined \in [Slots -> Run]
          /\ \A j \in Slots : j # q => joined[j] = map[j]
          /\ joined[q].addr = map[q].addr
          /\ joined[q].size = map[q].size + run.size + map[i].size
      <3>1. /\ longer = [map EXCEPT ![q] = [addr |-> map[q].addr, size |-> map[q].size + run.size]]
            /\ joined = [longer EXCEPT ![q] = [addr |-> longer[q].addr, size |-> longer[q].size + map[i].size]]
        <4>1. longer = [map EXCEPT ![q] = [addr |-> map[q].addr, size |-> map[q].size + run.size]]
          <5>1. longer = [map EXCEPT ![q].size = @ + run.size]
            BY DEF longer
          <5>2. map[q] \in [addr : Int, size : Int] /\ q \in DOMAIN map
            BY <1>6, <2>1 DEF Run
          <5>3. [map[q] EXCEPT !.size = @ + run.size]
                  = [addr |-> map[q].addr, size |-> map[q].size + run.size]
            BY <5>2
          <5> QED  BY <5>1, <5>2, <5>3
        <4>2. longer[q] \in [addr : Int, size : Int] /\ q \in DOMAIN longer
          BY <1>2, <1>6, <2>1, <4>1
        <4>3. joined = [longer EXCEPT ![q].size = @ + map[i].size]
          BY DEF joined
        <4>4. [longer[q] EXCEPT !.size = @ + map[i].size]
                = [addr |-> longer[q].addr, size |-> longer[q].size + map[i].size]
          BY <4>2
        <4>5. joined = [longer EXCEPT ![q] = [longer[q] EXCEPT !.size = @ + map[i].size]]
          BY <4>2, <4>3
        <4> QED  BY <4>1, <4>4, <4>5
      <3>2. [addr |-> map[q].addr, size |-> map[q].size + run.size + map[i].size] \in Run
        BY <1>2, <1>3, <1>6, <1>10, <2>1 DEF Run
      <3>3. /\ \A j \in Slots : j # q => longer[j] = map[j]
            /\ longer[q] = [addr |-> map[q].addr, size |-> map[q].size + run.size]
        BY <1>6, <2>1, <3>1
      <3>4. joined = [map EXCEPT ![q] = [addr |-> map[q].addr, size |-> map[q].size + run.size + map[i].size]]
        BY <1>6, <2>1, <3>1, <3>3
      <3> QED  BY <1>6, <2>1, <3>2, <3>4
    <2>3. map' = [j \in Slots |-> IF i <= j /\ j < e THEN joined[j + 1] ELSE joined[j]]
      BY <1>4, <1>14 DEF MovedDown, e
    <2> HIDE DEF q, s
    <2>a. q = i - 1 /\ s = i + 1
      BY DEF q, s
    <2>4. /\ (e + q) - (s - 1) = e - 1 /\ e - 1 \in Slots /\ e - 1 \in 1..(SMAPSIZ + 1) /\ q <= e /\ s <= e /\ q <= s /\ s <= q + 2
          /\ \A j \in Slots : j < q => ~ (i <= j) /\ j # q
          /\ \A j \in Slots : q < j /\ j < e - 1 => /\ j + (s - 1) - q = j + 1 /\ i <= j /\ j < e
                                                    /\ j + 1 \in Slots /\ j + 1 # q
          /\ \A j \in Slots : e - 1 <= j => \/ i <= j /\ j < e /\ j + 1 = e /\ e # q
                                            \/ ~ (j < e) /\ e <= j /\ j # q
          /\ ~ (i <= q)
      BY <1>3, <2>1, <2>a DEF Slots
    <2>5. /\ map'[q] = joined[q]
          /\ \A j \in Slots : j < q => map'[j] = map[j]
          /\ \A j \in Slots : q < j /\ j < e - 1 => map'[j] = map[j + (s - 1) - q]
          /\ \A j \in Slots : e - 1 <= j => map'[j].size = 0
          /\ map' \in [Slots -> Run]
      <3>1. map'[q] = joined[q]
        BY <2>1, <2>3, <2>4
      <3>2. \A j \in Slots : j < q => map'[j] = map[j]
        BY <2>2, <2>3, <2>4
      <3>3. \A j \in Slots : q < j /\ j < e - 1 => map'[j] = map[j + (s - 1) - q]
        BY <2>2, <2>3, <2>4
      <3>4. \A j \in Slots : e - 1 <= j => map'[j].size = 0
        BY <1>3, <1>6, <2>2, <2>3, <2>4
      <3>5. \A j \in Slots : i <= j /\ j < e => j + 1 \in Slots
        BY <1>3 DEF Slots
      <3>6. map' \in [Slots -> Run]
        BY <2>2, <2>3, <3>5
      <3> QED  BY <3>1, <3>2, <3>3, <3>4, <3>6
    <2>6. /\ map'[q].addr = map[q].addr
          /\ map'[q].addr + map'[q].size = map[i].addr + map[i].size
          /\ map'[q].size > 0 /\ map'[q].addr > 0 /\ map'[q].addr + map'[q].size <= Size + 1
      BY <1>2, <1>3, <1>6, <1>10, <2>1, <2>2, <2>5
    <2>7. q > 1 => map[q - 1].addr + map[q - 1].size < map'[q].addr
      <3> SUFFICES ASSUME q > 1 PROVE map[q - 1].addr + map[q - 1].size < map'[q].addr
        OBVIOUS
      <3>1. q - 1 \in Slots /\ q - 1 < q /\ q - (q - 1) = 1
        BY <1>3, <2>1 DEF Slots
      <3>2. map[q - 1].addr + map[q - 1].size + 2 * (q - (q - 1)) <= map[q].addr + 1
        BY <1>6, <2>1, <3>1
      <3> QED  BY <1>6, <2>1, <2>6, <3>1, <3>2
    <2>8. s < e => map'[q].addr + map'[q].size < map[s].addr
      <3> SUFFICES ASSUME s < e PROVE map'[q].addr + map'[q].size < map[s].addr
        OBVIOUS
      <3>1. i < s /\ s - i = 1
        BY <1>3, <2>a DEF Slots
      <3>2. map[i].addr + map[i].size + 2 * (s - i) <= map[s].addr + 1
        BY <1>3, <1>6, <2>1, <3>1
      <3> QED  BY <1>3, <1>6, <2>1, <2>6, <3>1, <3>2
    <2>9. Spliced(map, e, map', q, s)
      BY <1>3, <2>1, <2>4, <2>5, <2>6, <2>7, <2>8 DEF Spliced
    <2>10. ASSUME NEW t \in given PROVE t = run \/ Apart(t, map'[q])
      <3>1. Apart(t, map[q]) /\ Apart(t, map[i]) /\ (t = run \/ Apart(t, run))
        BY <1>3, <1>11, <1>13, <2>1
      <3> QED  BY <1>2, <1>3, <1>6, <1>10, <1>12, <2>1, <2>6, <3>1 DEF Apart
    <2>11. ASSUME NEW u \in Int
           PROVE  (map'[q].addr <= u /\ u < map'[q].addr + map'[q].size) <=>
                    \/ run.addr <= u /\ u < run.addr + run.size
                    \/ \E k \in Slots : q <= k /\ k < s /\ k < e
                                        /\ map[k].addr <= u /\ u < map[k].addr + map[k].size
      <3>1. \A k \in Slots : q <= k /\ k < s /\ k < e <=> k = q \/ k = i
        BY <1>3, <2>1, <2>a DEF Slots
      <3>2. (\E k \in Slots : q <= k /\ k < s /\ k < e
                               /\ map[k].addr <= u /\ u < map[k].addr + map[k].size)
            <=> \/ map[q].addr <= u /\ u < map[q].addr + map[q].size
                \/ map[i].addr <= u /\ u < map[i].addr + map[i].size
        BY <1>3, <2>1, <3>1
      <3>3. /\ map[q].addr \in Nat /\ map[q].size \in Nat /\ map[i].addr \in Nat /\ map[i].size \in Nat
            /\ map[q].size > 0 /\ map[i].size > 0
        BY <1>3, <1>6, <2>1
      <3> QED  BY <1>2, <1>10, <2>1, <2>6, <3>2, <3>3
    <2> HIDE DEF Spliced
    <2>12. \E f \in 1..(SMAPSIZ + 1) :
             /\ Sound(map', f, given \ {run})
             /\ \A u \in Int : Covers(map', f, u) <=>
                   Covers(map, e, u) \/ (run.addr <= u /\ u < run.addr + run.size)
      <3>1. Joins(map, e, given, run, map', q, s)
        BY <2>9, <2>10, <2>11 DEF Joins
      <3> QED  BY <1>1, <3>1, JoinSound
    <2> QED  BY <1>5, <2>12 DEF e
  <1>15. CASE AbutsBelow(run, i) /\ ~ AbutsAbove(run, i)
    <2> DEFINE q == i - 1
    <2>1. /\ i > 1 /\ q \in Slots /\ q < e /\ q < i /\ i - 1 = q
          /\ map[q].addr + map[q].size = run.addr /\ (i < e => z # map[i].addr)
      BY <1>3, <1>15 DEF AbutsBelow, AbutsAbove, Slots, z, e
    <2>2. /\ map' \in [Slots -> Run]
          /\ \A j \in Slots : j # q => map'[j] = map[j]
          /\ map'[q].addr = map[q].addr
          /\ map'[q].size = map[q].size + run.size
      <3>1. map' = [map EXCEPT ![q] = [addr |-> map[q].addr, size |-> map[q].size + run.size]]
        <4>1. map' = [map EXCEPT ![q].size = @ + run.size]
          BY <1>4, <1>15 DEF longer
        <4>2. map[q] \in [addr : Int, size : Int] /\ q \in DOMAIN map
          BY <1>6, <2>1 DEF Run
        <4>3. [map[q] EXCEPT !.size = @ + run.size]
                = [addr |-> map[q].addr, size |-> map[q].size + run.size]
          BY <4>2
        <4> QED  BY <4>1, <4>2, <4>3
      <3>2. [addr |-> map[q].addr, size |-> map[q].size + run.size] \in Run
        BY <1>2, <1>6, <1>10, <2>1 DEF Run
      <3> QED  BY <1>6, <2>1, <3>1, <3>2
    <2> HIDE DEF q
    <2>4. /\ (e + q) - (i - 1) = e /\ q <= e /\ i <= e /\ q <= i /\ i <= q + 2
          /\ \A j \in Slots : j < q => j # q
          /\ \A j \in Slots : q < j => j + (i - 1) - q = j /\ j # q
          /\ \A j \in Slots : e <= j => j # q
      BY <1>3, <2>1 DEF Slots
    <2>6. /\ map'[q].addr + map'[q].size = z
          /\ map'[q].size > 0 /\ map'[q].addr > 0 /\ map'[q].addr + map'[q].size <= Size + 1
      <3>1. map[q].addr \in Nat /\ map[q].size \in Nat /\ map[q].addr > 0 /\ map[q].size > 0
        BY <1>6, <2>1
      <3>2. run.addr \in Nat /\ run.size \in Nat /\ z = run.addr + run.size /\ z <= Size + 1
        BY <1>2, <1>10
      <3> QED  BY <2>1, <2>2, <3>1, <3>2
    <2>7. q > 1 => map[q - 1].addr + map[q - 1].size < map'[q].addr
      <3> SUFFICES ASSUME q > 1 PROVE map[q - 1].addr + map[q - 1].size < map'[q].addr
        OBVIOUS
      <3>1. q - 1 \in Slots /\ q - 1 < q /\ q - (q - 1) = 1
        BY <1>3, <2>1 DEF Slots
      <3>2. map[q - 1].addr + map[q - 1].size + 2 * (q - (q - 1)) <= map[q].addr + 1
        BY <1>6, <2>1, <3>1
      <3>3. /\ map[q - 1].addr \in Nat /\ map[q - 1].size \in Nat /\ map[q].addr \in Nat
            /\ map'[q].addr = map[q].addr
        BY <1>6, <2>1, <2>2, <3>1
      <3> QED  BY <3>1, <3>2, <3>3
    <2>8. i < e => map'[q].addr + map'[q].size < map[i].addr
      BY <1>3, <1>6, <1>9, <1>10, <2>1, <2>6 DEF Slots
    <2>9. Spliced(map, e, map', q, i)
      BY <1>3, <1>6, <2>1, <2>2, <2>4, <2>6, <2>7, <2>8 DEF Spliced
    <2>10. ASSUME NEW t \in given PROVE t = run \/ Apart(t, map'[q])
      <3>1. Apart(t, map[q]) /\ (t = run \/ Apart(t, run))
        BY <1>3, <1>11, <1>13, <2>1
      <3> QED  BY <1>2, <1>6, <1>10, <1>12, <2>1, <2>2, <2>6, <3>1 DEF Apart
    <2>11. ASSUME NEW u \in Int
           PROVE  (map'[q].addr <= u /\ u < map'[q].addr + map'[q].size) <=>
                    \/ run.addr <= u /\ u < run.addr + run.size
                    \/ \E k \in Slots : q <= k /\ k < i /\ k < e
                                        /\ map[k].addr <= u /\ u < map[k].addr + map[k].size
      <3>1. \A k \in Slots : q <= k /\ k < i /\ k < e <=> k = q
        BY <1>3, <2>1 DEF Slots
      <3> QED  BY <1>2, <1>6, <1>10, <2>1, <2>2, <2>6, <3>1
    <2>12. \E f \in 1..(SMAPSIZ + 1) :
             /\ Sound(map', f, given \ {run})
             /\ \A u \in Int : Covers(map', f, u) <=>
                   Covers(map, e, u) \/ (run.addr <= u /\ u < run.addr + run.size)
      <3>1. Joins(map, e, given, run, map', q, i)
        BY <2>9, <2>10, <2>11 DEF Joins
      <3> QED  BY <1>1, <3>1, JoinSound
    <2> QED  BY <1>5, <2>12 DEF e
  <1>16. CASE ~ AbutsBelow(run, i) /\ AbutsAbove(run, i)
    <2> DEFINE s == i + 1
    <2>1. /\ i < e /\ s \in Slots /\ s = i + 1 /\ z = map[i].addr
          /\ (i > 1 => map[i - 1].addr + map[i - 1].size # run.addr)
      BY <1>3, <1>16 DEF AbutsBelow, AbutsAbove, Slots, z, e
    <2>2. /\ map' \in [Slots -> Run]
          /\ \A j \in Slots : j # i => map'[j] = map[j]
          /\ map'[i].addr = run.addr
          /\ map'[i].size = map[i].size + run.size
      <3>1. map' = [map EXCEPT ![i] = [addr |-> run.addr, size |-> @.size + run.size]]
        BY <1>4, <1>16
      <3>2. [addr |-> run.addr, size |-> map[i].size + run.size] \in Run
        BY <1>2, <1>3, <1>6, <1>10, <2>1 DEF Run
      <3> QED  BY <1>3, <1>6, <3>1, <3>2
    <2> HIDE DEF s
    <2>4. /\ (e + i) - (s - 1) = e /\ i <= e /\ s <= e /\ i <= s /\ s <= i + 2
          /\ \A j \in Slots : j < i => j # i
          /\ \A j \in Slots : i < j => j + (s - 1) - i = j /\ j # i
          /\ \A j \in Slots : e <= j => j # i
      BY <1>3, <2>1 DEF Slots
    <2>6. /\ map'[i].addr + map'[i].size = map[i].addr + map[i].size
          /\ map'[i].size > 0 /\ map'[i].addr > 0 /\ map'[i].addr + map'[i].size <= Size + 1
      BY <1>2, <1>3, <1>6, <1>10, <2>1, <2>2
    <2>7. i > 1 => map[i - 1].addr + map[i - 1].size < map'[i].addr
      <3> SUFFICES ASSUME i > 1 PROVE map[i - 1].addr + map[i - 1].size < map'[i].addr
        OBVIOUS
      <3>1. i - 1 \in Slots /\ i - 1 < i
        BY <1>3 DEF Slots
      <3>2. map[i - 1].addr + map[i - 1].size <= run.addr
        BY <1>8, <3>1
      <3>3. map[i - 1].addr + map[i - 1].size # run.addr
        BY <2>1
      <3>4. map[i - 1].addr + map[i - 1].size \in Nat
        BY <1>6, <3>1
      <3> QED  BY <1>2, <2>2, <3>2, <3>3, <3>4
    <2>8. s < e => map'[i].addr + map'[i].size < map[s].addr
      <3> SUFFICES ASSUME s < e PROVE map'[i].addr + map'[i].size < map[s].addr
        OBVIOUS
      <3>1. i < s /\ s - i = 1
        BY <1>3, <2>1 DEF Slots
      <3>2. map[i].addr + map[i].size + 2 * (s - i) <= map[s].addr + 1
        BY <1>3, <1>6, <2>1, <3>1
      <3> QED  BY <1>3, <1>6, <2>1, <2>6, <3>1, <3>2
    <2>9. Spliced(map, e, map', i, s)
      BY <1>3, <1>6, <2>1, <2>2, <2>4, <2>6, <2>7, <2>8 DEF Spliced
    <2>10. ASSUME NEW t \in given PROVE t = run \/ Apart(t, map'[i])
      <3>1. Apart(t, map[i]) /\ (t = run \/ Apart(t, run))
        BY <1>3, <1>11, <1>13, <2>1
      <3> QED  BY <1>2, <1>3, <1>6, <1>10, <1>12, <2>1, <2>2, <2>6, <3>1 DEF Apart
    <2>11. ASSUME NEW u \in Int
           PROVE  (map'[i].addr <= u /\ u < map'[i].addr + map'[i].size) <=>
                    \/ run.addr <= u /\ u < run.addr + run.size
                    \/ \E k \in Slots : i <= k /\ k < s /\ k < e
                                        /\ map[k].addr <= u /\ u < map[k].addr + map[k].size
      <3>1. \A k \in Slots : i <= k /\ k < s /\ k < e <=> k = i
        BY <1>3, <2>1 DEF Slots
      <3> QED  BY <1>2, <1>3, <1>6, <1>10, <2>1, <2>2, <2>6, <3>1
    <2>12. \E f \in 1..(SMAPSIZ + 1) :
             /\ Sound(map', f, given \ {run})
             /\ \A u \in Int : Covers(map', f, u) <=>
                   Covers(map, e, u) \/ (run.addr <= u /\ u < run.addr + run.size)
      <3>1. Joins(map, e, given, run, map', i, s)
        BY <2>9, <2>10, <2>11 DEF Joins
      <3> QED  BY <1>1, <3>1, JoinSound
    <2> QED  BY <1>5, <2>12 DEF e
  <1>17. CASE ~ AbutsBelow(run, i) /\ ~ AbutsAbove(run, i)
    <2>1. /\ (i > 1 => map[i - 1].addr + map[i - 1].size # run.addr)
          /\ (i < e => z # map[i].addr)
      BY <1>3, <1>17 DEF AbutsBelow, AbutsAbove, z, e
    <2>2. i > 1 => i - 1 \in Slots /\ i - 1 < e /\ map[i - 1].addr + map[i - 1].size < run.addr
      <3> SUFFICES ASSUME i > 1
                   PROVE  i - 1 \in Slots /\ i - 1 < e /\ map[i - 1].addr + map[i - 1].size < run.addr
        OBVIOUS
      <3>1. i - 1 \in Slots /\ i - 1 < i
        BY <1>3 DEF Slots
      <3> QED  BY <1>2, <1>6, <1>8, <2>1, <3>1
    <2>3. i < e => z < map[i].addr
      BY <1>3, <1>6, <1>9, <1>10, <2>1 DEF Slots
    <2>4. e + 1 \in 1..(SMAPSIZ + 1)
      BY <1>3 DEF Slots
    <2>5. map' = [j \in Slots |-> CASE j = i -> run
                                    [] i < j /\ j <= e -> map[j - 1]
                                    [] OTHER -> map[j]]
      BY <1>4, <1>17 DEF MovedUp, e
    <2>6. /\ (e + i) - (i - 1) = e + 1 /\ i <= e
          /\ \A j \in Slots : j < i => j # i /\ ~ (i < j)
          /\ \A j \in Slots : i < j /\ j < e + 1 => j + (i - 1) - i = j - 1 /\ j # i /\ j <= e
          /\ \A j \in Slots : e + 1 <= j => j # i /\ ~ (j <= e) /\ e <= j
          /\ \A j \in Slots : i < j => j - 1 \in Slots
      BY <1>3 DEF Slots
    <2>7. map' \in [Slots -> Run]
      <3>1. run \in Run
        BY <1>1, <1>2 DEF Sound, Run, Units
      <3>2. \A j \in Slots : map'[j] \in Run
        BY <1>6, <2>5, <2>6, <3>1
      <3> QED  BY <2>5, <3>2
    <2>8. /\ map'[i] = run
          /\ \A j \in Slots : j < i => map'[j] = map[j]
          /\ \A j \in Slots : i < j /\ j < e + 1 => map'[j] = map[j + (i - 1) - i]
          /\ \A j \in Slots : e + 1 <= j => map'[j].size = 0
      BY <1>3, <1>6, <2>5, <2>6
    <2>9. Spliced(map, e, map', i, i)
      BY <1>2, <1>3, <1>10, <2>2, <2>3, <2>4, <2>6, <2>7, <2>8 DEF Spliced
    <2>10. \A t \in given : t = run \/ Apart(t, map'[i])
      BY <1>11, <2>8
    <2>11. ASSUME NEW u \in Int
           PROVE  (map'[i].addr <= u /\ u < map'[i].addr + map'[i].size) <=>
                    \/ run.addr <= u /\ u < run.addr + run.size
                    \/ \E k \in Slots : i <= k /\ k < i /\ k < e
                                        /\ map[k].addr <= u /\ u < map[k].addr + map[k].size
      BY <1>3, <2>8 DEF Slots
    <2>12. \E f \in 1..(SMAPSIZ + 1) :
             /\ Sound(map', f, given \ {run})
             /\ \A u \in Int : Covers(map', f, u) <=>
                   Covers(map, e, u) \/ (run.addr <= u /\ u < run.addr + run.size)
      <3>1. Joins(map, e, given, run, map', i, i)
        BY <2>9, <2>10, <2>11 DEF Joins
      <3> QED  BY <1>1, <3>1, JoinSound
    <2> QED  BY <1>5, <2>12 DEF e
  <1> QED  BY <1>14, <1>15, <1>16, <1>17

-----------------------------------------------------------------------------
(* Invariance.                                                             *)

\* The map at boot.
LEMMA InitMapInv ==
    ASSUME MapInit
    PROVE  MapInv /\ \A u \in Int : Covers(map, End, u) <=> u \in Units
  <1> USE ResourceMapAssumption
  <1>1. 2 \in 1..(SMAPSIZ + 1) /\ 1 \in Slots
    BY DEF Slots
  <1>2. /\ map \in [Slots -> Run] /\ map[1].addr = 1 /\ map[1].size = Size
        /\ \A i \in Slots : 2 <= i => map[i].size = 0
    <2>1. [addr |-> 1, size |-> Size] \in Run /\ NoRun \in Run
      BY DEF Run, NoRun
    <2> QED  BY <1>1, <2>1 DEF MapInit, Slots, NoRun
  <1>3. \A i \in Slots : i < 2 <=> i = 1
    BY <1>1 DEF Slots
  <1>4. Lists(map, 2)
    BY <1>1, <1>2, <1>3 DEF Lists, Slots
  <1>5. End = 2
    BY <1>4, EndIs DEF End, Ended, IsEnd
  <1>6. Sound(map, 2, given) /\ answer \in 0..Size
    BY <1>4 DEF Sound, MapInit
  <1>7. \A u \in Int : Covers(map, 2, u) <=> u \in Units
    BY <1>1, <1>2, <1>3 DEF Covers, Units
  <1> QED  BY <1>5, <1>6, <1>7 DEF MapInv

\* A list that is sound after a step ends where it should.
LEMMA EndAfter ==
    ASSUME NEW e, Lists(map', e)
    PROVE  End' = e
  <1>1. (IF \E i \in Slots : map'[i].size = 0 /\ \A j \in 1..(i - 1) : map'[j].size # 0
         THEN CHOOSE i \in Slots : map'[i].size = 0 /\ \A j \in 1..(i - 1) : map'[j].size # 0
         ELSE SMAPSIZ + 1) = e
    BY EndIs
  <1>2. End' = IF \E i \in Slots : map'[i].size = 0 /\ \A j \in 1..(i - 1) : map'[j].size # 0
               THEN CHOOSE i \in Slots : map'[i].size = 0 /\ \A j \in 1..(i - 1) : map'[j].size # 0
               ELSE SMAPSIZ + 1
    BY DEF End, Ended, IsEnd
  <1> QED  BY <1>1, <1>2

\* malloc keeps the invariant, and takes the units it gives out.
LEMMA MallocInv ==
    ASSUME MapInv, NEW n \in Units, Malloc(n)
    PROVE  /\ MapInv'
           /\ answer' = map[FirstFit(n)].addr
           /\ given' = given \cup {[addr |-> answer', size |-> n]}
           /\ \A u \in Int : Covers(map', End', u) <=>
                 Covers(map, End, u) /\ ~ (answer' <= u /\ u < answer' + n)
  <1> USE ResourceMapAssumption
  <1>1. PICK e \in 1..(SMAPSIZ + 1) :
             /\ Sound(map', e, given')
             /\ answer' = map[FirstFit(n)].addr
             /\ given' = given \cup {[addr |-> answer', size |-> n]}
             /\ \A u \in Int : Covers(map', e, u) <=>
                   Covers(map, End, u) /\ ~ (answer' <= u /\ u < answer' + n)
    BY MallocSound
  <1>2. End' = e
    BY <1>1, EndAfter DEF Sound
  <1>3. answer' \in 0..Size
    <2>1. FirstFit(n) \in Slots /\ Enough(FirstFit(n), n)
      BY FirstFitIs DEF Malloc
    <2>2. Lists(map, End)
      BY DEF MapInv, Sound
    <2> QED  BY <1>1, <2>1, <2>2 DEF Lists, Enough, Run
  <1> QED  BY <1>1, <1>2, <1>3 DEF MapInv

\* mfree keeps the invariant, and adds the units of the run.
LEMMA MfreeInv ==
    ASSUME MapInv, NEW run \in given, Mfree(run)
    PROVE  /\ MapInv'
           /\ \A u \in Int : Covers(map', End', u) <=>
                 Covers(map, End, u) \/ (run.addr <= u /\ u < run.addr + run.size)
  <1>1. PICK e \in 1..(SMAPSIZ + 1) :
             /\ Sound(map', e, given')
             /\ \A u \in Int : Covers(map', e, u) <=>
                   Covers(map, End, u) \/ (run.addr <= u /\ u < run.addr + run.size)
    BY MfreeSound
  <1>2. End' = e
    BY <1>1, EndAfter DEF Sound
  <1>3. answer' \in 0..Size
    BY DEF Mfree, MapInv
  <1> QED  BY <1>1, <1>2, <1>3 DEF MapInv

\* malloc that fails keeps the map.
LEMMA FailsInv ==
    ASSUME MapInv, NEW n \in Units, MallocFails(n)
    PROVE  MapInv' /\ End' = End
  <1>1. map' = map /\ given' = given /\ answer' \in 0..Size
    BY ResourceMapAssumption DEF MallocFails
  <1>2. End' = End
    BY <1>1 DEF End, Ended, IsEnd
  <1> QED  BY <1>1, <1>2 DEF MapInv

\* The inductive invariant holds of every behaviour.
THEOREM MapInvariance == MapSpec => []MapInv
  <1>1. MapInit => MapInv
    BY InitMapInv
  <1>2. MapInv /\ [MapNext]_mapVars => MapInv'
    <2> SUFFICES ASSUME MapInv, [MapNext]_mapVars PROVE MapInv'
      OBVIOUS
    <2>1. CASE \E n \in Units : Malloc(n)
      BY <2>1, MallocInv
    <2>2. CASE \E n \in Units : MallocFails(n)
      BY <2>2, FailsInv
    <2>3. CASE \E run \in given : Mfree(run)
      BY <2>3, MfreeInv
    <2>4. CASE UNCHANGED mapVars
      BY <2>4 DEF mapVars, MapInv, End, Ended, IsEnd
    <2> QED  BY <2>1, <2>2, <2>3, <2>4 DEF MapNext, RunsOn
  <1> QED  BY <1>1, <1>2, PTL DEF MapSpec

\* malloc.c: "the addresses are increasing and the list is terminated by a 0
\* size": in order, apart, and empty beyond the end, in an array that has
\* overflowed too.
THEOREM MapStaysOrdered == MapSpec => []Ordered
  <1>1. MapInv => Ordered
    <2> SUFFICES ASSUME MapInv PROVE Ordered
      OBVIOUS
    <2> USE ResourceMapAssumption
    <2>1. Lists(map, End) /\ Sound(map, End, given)
      BY DEF MapInv, Sound
    <2>2. End \in 1..(SMAPSIZ + 1)
      BY <2>1 DEF Lists
    <2>3. MapTypeOK
      BY <2>1 DEF MapTypeOK, Lists, Sound, MapInv
    <2>4. ASSUME NEW i \in 1..(End - 2) PROVE map[i].addr + map[i].size < map[i + 1].addr
      <3>1. i \in Slots /\ i + 1 \in Slots /\ i < i + 1 /\ i + 1 < End
        BY <2>2 DEF Slots
      <3>2. map[i].addr + map[i].size + 2 * ((i + 1) - i) <= map[i + 1].addr + 1
        BY <2>1, <3>1 DEF Lists
      <3>3. /\ map[i].addr \in Nat /\ map[i].size \in Nat /\ map[i + 1].addr \in Nat
            /\ (i + 1) - i = 1
        BY <2>1, <3>1 DEF Lists, Run, Slots
      <3> QED  BY <3>2, <3>3
    <2>5. \A i \in End..SMAPSIZ : map[i].size = 0
      BY <2>1, <2>2 DEF Lists, Slots
    <2> QED  BY <2>3, <2>4, <2>5 DEF Ordered
  <1> QED  BY <1>1, MapInvariance, PTL

-----------------------------------------------------------------------------
(* The map is first fit over the set of free units.                        *)

\* The free units, as the refinement has them.
FreeSeen == \A u : u \in UnitsOfAll(Listed) <=> u \in Int /\ Covers(map, End, u)

\* FreeIs, for the present state.
LEMMA FreeIsSeen == MapInv => FreeSeen
  BY FreeIs DEF MapInv, Sound, FreeSeen, Listed

\* A free unit whose predecessor is not free begins an entry; the unit after
\* an entry is not free.
LEMMA EntriesAreStretches ==
    ASSUME NEW m, NEW e, Lists(m, e), NEW k \in Slots, k < e
    PROVE  /\ ~ Covers(m, e, m[k].addr - 1)
           /\ ~ Covers(m, e, m[k].addr + m[k].size)
           /\ m[k].addr \in Nat /\ m[k].size \in Nat /\ m[k].size > 0 /\ m[k].addr > 0
           /\ m[k].addr + m[k].size <= Size + 1
  <1> USE ResourceMapAssumption
  <1>1. /\ \A j \in Slots : m[j].addr \in Nat /\ m[j].size \in Nat
        /\ \A j \in Slots : j < e => m[j].size > 0
        /\ \A i, j \in Slots : i < j /\ j < e =>
              m[i].addr + m[i].size + 2 * (j - i) <= m[j].addr + 1
    BY DEF Lists, Run
  <1>2. ASSUME NEW j \in Slots, j < e
        PROVE  /\ ~ (m[j].addr <= m[k].addr - 1 /\ m[k].addr - 1 < m[j].addr + m[j].size)
               /\ ~ (m[j].addr <= m[k].addr + m[k].size /\ m[k].addr + m[k].size < m[j].addr + m[j].size)
    <2>1. CASE j = k
      BY <1>1, <2>1
    <2>2. CASE j < k
      <3>1. k - j \in Nat /\ k - j >= 1
        BY <2>2 DEF Slots
      <3>2. m[j].addr + m[j].size + 2 * (k - j) <= m[k].addr + 1
        BY <1>1, <2>2
      <3> QED  BY <1>1, <3>1, <3>2
    <2>3. CASE k < j
      <3>1. j - k \in Nat /\ j - k >= 1
        BY <2>3 DEF Slots
      <3>2. m[k].addr + m[k].size + 2 * (j - k) <= m[j].addr + 1
        BY <1>1, <1>2, <2>3
      <3> QED  BY <1>1, <3>1, <3>2
    <2> QED  BY <2>1, <2>2, <2>3 DEF Slots
  <1> QED  BY <1>2 DEF Covers, Lists, Run

\* A stretch of free units lies in one entry.
LEMMA StretchInEntry ==
    ASSUME NEW m, NEW e, Lists(m, e), NEW a \in Units, NEW n \in Units,
           \A u \in a..(a + n - 1) : Covers(m, e, u)
    PROVE  \E k \in Slots : k < e /\ m[k].addr <= a /\ a + n <= m[k].addr + m[k].size
  <1> USE ResourceMapAssumption DEF Units
  <1>1. PICK k \in Slots : k < e /\ m[k].addr <= a /\ a < m[k].addr + m[k].size
    BY DEF Covers
  <1>2. ~ Covers(m, e, m[k].addr + m[k].size) /\ m[k].addr + m[k].size \in Nat
    BY <1>1, EntriesAreStretches
  <1>3. ~ (m[k].addr + m[k].size \in a..(a + n - 1))
    BY <1>2
  <1> QED  BY <1>1, <1>2, <1>3

\* malloc gives out the beginning of the first stretch that is long enough.
LEMMA MallocStep ==
    ASSUME MapInv, MapInv', NEW n \in Units, Malloc(n)
    PROVE  Free!Allocate(n)
  <1> USE ResourceMapAssumption
  <1> DEFINE i == FirstFit(n)
             a == map[i].addr
             e == End
  <1>1. /\ i \in Slots /\ Enough(i, n) /\ \A j \in 1..(i - 1) : ~ Enough(j, n)
    BY FirstFitIs DEF Malloc
  <1>2. /\ answer' = a /\ given' = given \cup {[addr |-> a, size |-> n]}
        /\ \A u \in Int : Covers(map', End', u) <=> Covers(map, e, u) /\ ~ (a <= u /\ u < a + n)
    BY MallocInv
  <1>3. Lists(map, e)
    BY DEF MapInv, Sound
  <1>4. i < e /\ map[i].size >= n /\ n \in Nat /\ n > 0
    BY <1>1 DEF Enough, Units
  <1>5. /\ a \in Nat /\ a > 0 /\ map[i].size \in Nat /\ a + map[i].size <= Size + 1
        /\ ~ Covers(map, e, a - 1)
    BY <1>1, <1>3, <1>4, EntriesAreStretches
  <1>6. /\ \A u : u \in UnitsOfAll(Listed) <=> u \in Int /\ Covers(map, e, u)
        /\ \A u : u \in UnitsOfAll(Listed)' <=> u \in Int /\ Covers(map', End', u)
    <2>1. FreeSeen /\ FreeSeen'
      BY FreeIsSeen, PTL
    <2> QED  BY <2>1 DEF FreeSeen
  <1>7. ASSUME NEW b \in 1..(a - 1), Free!Begins(b, n) PROVE FALSE
    <2>1. /\ \A u \in b..(b + n - 1) : Covers(map, e, u)
          /\ ~ Covers(map, e, b - 1) /\ b \in Units /\ b \in Nat
      BY <1>4, <1>5, <1>6, <1>7 DEF Free!Begins, Free!Stretch, Units
    <2>2. PICK k \in Slots : k < e /\ map[k].addr <= b /\ b + n <= map[k].addr + map[k].size
      BY <1>3, <2>1, StretchInEntry
    <2>3. map[k].addr \in Nat /\ map[k].size \in Nat
      BY <1>3, <2>2, EntriesAreStretches
    <2>4. map[k].addr = b
      BY <1>4, <2>1, <2>2, <2>3 DEF Covers
    <2>5. Enough(k, n)
      BY <1>4, <2>2, <2>3, <2>4 DEF Enough
    <2>6. k < i
      <3>1. map[k].addr < a
        BY <1>5, <1>7, <2>4
      <3>2. ASSUME i < k PROVE FALSE
        <4>1. a + map[i].size + 2 * (k - i) <= map[k].addr + 1
          BY <1>1, <1>3, <2>2, <3>2 DEF Lists
        <4>2. k - i \in Nat /\ k - i >= 1
          BY <1>1, <3>2 DEF Slots
        <4> QED  BY <1>4, <1>5, <2>3, <3>1, <4>1, <4>2
      <3>3. k # i
        BY <1>5, <3>1
      <3> QED  BY <1>1, <3>2, <3>3 DEF Slots
    <2> QED  BY <1>1, <2>5, <2>6 DEF Slots
  <1>8. Free!Begins(a, n)
    <2>1. a - 1 \notin UnitsOfAll(Listed)
      BY <1>5, <1>6
    <2>2. ASSUME NEW u \in a..(a + n - 1) PROVE u \in UnitsOfAll(Listed)
      <3>1. u \in Int /\ a <= u /\ u < a + map[i].size
        BY <1>4, <1>5
      <3> QED  BY <1>1, <1>4, <1>6, <3>1 DEF Covers
    <2> QED  BY <2>1, <2>2 DEF Free!Begins, Free!Stretch
  <1>9. UnitsOfAll(Listed)' = UnitsOfAll(Listed) \ Free!Stretch(a, n)
    <2>1. \A u : u \in Free!Stretch(a, n) <=> u \in Int /\ a <= u /\ u < a + n
      BY <1>4, <1>5 DEF Free!Stretch
    <2>2. \A u : u \in UnitsOfAll(Listed)' <=> u \in UnitsOfAll(Listed) /\ u \notin Free!Stretch(a, n)
      BY <1>2, <1>6, <2>1
    <2> QED  BY <2>2
  <1>10. a \in Units
    BY <1>4, <1>5 DEF Units
  <1> HIDE DEF a
  <1> QED  BY <1>2, <1>7, <1>8, <1>9, <1>10 DEF Free!Allocate, Free!Units, Units

\* malloc fails only when no stretch is long enough.
LEMMA FailsStep ==
    ASSUME MapInv, MapInv', NEW n \in Units, MallocFails(n)
    PROVE  Free!Refuse(n)
  <1> USE ResourceMapAssumption
  <1>1. map' = map /\ given' = given /\ answer' = 0 /\ End' = End
    BY FailsInv DEF MallocFails
  <1>2. UnitsOfAll(Listed)' = UnitsOfAll(Listed)
    BY <1>1 DEF Listed, UnitsOfAll, UnitsOf
  <1>3. Lists(map, End)
    BY DEF MapInv, Sound
  <1>4. \A u : u \in UnitsOfAll(Listed) <=> u \in Int /\ Covers(map, End, u)
    BY FreeIsSeen DEF FreeSeen
  <1>5. ASSUME NEW a \in Units, Free!Stretch(a, n) \subseteq UnitsOfAll(Listed) PROVE FALSE
    <2>1. \A u \in a..(a + n - 1) : Covers(map, End, u)
      BY <1>4, <1>5 DEF Free!Stretch
    <2>2. PICK k \in Slots : k < End /\ map[k].addr <= a /\ a + n <= map[k].addr + map[k].size
      BY <1>3, <2>1, StretchInEntry
    <2>3. map[k].addr \in Nat /\ map[k].size \in Nat
      BY <1>3, <2>2, EntriesAreStretches
    <2>4. Enough(k, n)
      BY <2>2, <2>3 DEF Enough, Units
    <2> QED  BY <2>4 DEF MallocFails
  <1> QED  BY <1>1, <1>2, <1>5 DEF Free!Refuse, Free!Units, Units

\* mfree makes the units of the run free.
LEMMA MfreeStep ==
    ASSUME MapInv, MapInv', NEW run \in given, Mfree(run)
    PROVE  Free!Release(run)
  <1> USE ResourceMapAssumption
  <1>1. \A u \in Int : Covers(map', End', u) <=>
             Covers(map, End, u) \/ (run.addr <= u /\ u < run.addr + run.size)
    BY MfreeInv
  <1>2. /\ \A u : u \in UnitsOfAll(Listed) <=> u \in Int /\ Covers(map, End, u)
        /\ \A u : u \in UnitsOfAll(Listed)' <=> u \in Int /\ Covers(map', End', u)
    <2>1. FreeSeen /\ FreeSeen'
      BY FreeIsSeen, PTL
    <2> QED  BY <2>1 DEF FreeSeen
  <1>3. run.addr \in Nat /\ run.size \in Nat
    BY DEF MapInv, Sound, Units
  <1>4. \A u : u \in Free!Stretch(run.addr, run.size) <=>
                 u \in Int /\ run.addr <= u /\ u < run.addr + run.size
    BY <1>3 DEF Free!Stretch
  <1>5. UnitsOfAll(Listed)' = UnitsOfAll(Listed) \cup Free!Stretch(run.addr, run.size)
    <2>1. \A u : u \in UnitsOfAll(Listed)' <=>
                   u \in UnitsOfAll(Listed) \/ u \in Free!Stretch(run.addr, run.size)
      BY <1>1, <1>2, <1>4
    <2> QED  BY <2>1
  <1> QED  BY <1>5 DEF Free!Release, Mfree

\* The map implements first fit over the set of free units.
THEOREM MapImplementsFirstFit == MapSpec => ImplementsFirstFit
  <1>1. MapInit => Free!Init
    <2> SUFFICES ASSUME MapInit PROVE Free!Init
      OBVIOUS
    <2>1. MapInv /\ \A u \in Int : Covers(map, End, u) <=> u \in Units
      BY InitMapInv
    <2>2. \A u : u \in UnitsOfAll(Listed) <=> u \in Int /\ Covers(map, End, u)
      BY <2>1, FreeIsSeen DEF FreeSeen
    <2>3. \A u \in Units : u \in Int
      BY ResourceMapAssumption DEF Units
    <2>4. UnitsOfAll(Listed) = Units
      BY <2>1, <2>2, <2>3
    <2> QED  BY <2>4 DEF Free!Init, Free!Units, Units, MapInit
  <1>2. MapInv /\ MapInv' /\ [MapNext]_mapVars => [Free!Next]_(Free!vars)
    <2> SUFFICES ASSUME MapInv, MapInv', [MapNext]_mapVars PROVE [Free!Next]_(Free!vars)
      OBVIOUS
    <2>1. CASE \E n \in Units : Malloc(n)
      BY <2>1, MallocStep DEF Free!Next, Free!Units, Units
    <2>2. CASE \E n \in Units : MallocFails(n)
      BY <2>2, FailsStep DEF Free!Next, Free!Units, Units
    <2>3. CASE \E run \in given : Mfree(run)
      BY <2>3, MfreeStep DEF Free!Next
    <2>4. CASE UNCHANGED mapVars
      BY <2>4 DEF mapVars, Free!vars, Listed, End, Ended, IsEnd, UnitsOfAll, UnitsOf
    <2> QED  BY <2>1, <2>2, <2>3, <2>4 DEF MapNext, RunsOn
  <1> QED  BY <1>1, <1>2, MapInvariance, PTL DEF MapSpec, ImplementsFirstFit, Free!Spec

-----------------------------------------------------------------------------
(* The cache of frame numbers as a sequence.                               *)

\* Pushing a frame that is not there keeps the elements distinct.
LEMMA PushDistinct ==
    ASSUME NEW S, NEW s \in Seq(S), NEW e \in S,
           \A i, j \in 1..Len(s) : s[i] = s[j] => i = j,
           \A i \in 1..Len(s) : s[i] # e
    PROVE  /\ Append(s, e) \in Seq(S)
           /\ Len(Append(s, e)) = Len(s) + 1
           /\ \A i \in 1..Len(s) : Append(s, e)[i] = s[i]
           /\ Append(s, e)[Len(s) + 1] = e
           /\ \A i, j \in 1..Len(Append(s, e)) : Append(s, e)[i] = Append(s, e)[j] => i = j
  OBVIOUS

\* The length SubSeqProperties gives a sequence of n elements less its last.
LEMMA PrefixLength ==
    ASSUME NEW n \in Nat, n > 0
    PROVE  (IF 1 <= n - 1 THEN n - 1 - 1 + 1 ELSE 0) = n - 1
  OBVIOUS

\* Popping removes the last element and no other.
LEMMA PopLast ==
    ASSUME NEW S, NEW s \in Seq(S), s # <<>>
    PROVE  LET t == SubSeq(s, 1, Len(s) - 1)
           IN  /\ t \in Seq(S)
               /\ Len(t) = Len(s) - 1
               /\ \A i \in 1..Len(t) : t[i] = s[i]
  <1>1. Len(s) \in Nat /\ Len(s) > 0 /\ \A i \in 1..(Len(s) - 1) : s[i] \in S
    OBVIOUS
  <1>2. /\ SubSeq(s, 1, Len(s) - 1) \in Seq(S)
        /\ Len(SubSeq(s, 1, Len(s) - 1)) =
              IF 1 <= Len(s) - 1 THEN Len(s) - 1 - 1 + 1 ELSE 0
        /\ \A i \in 1..(Len(s) - 1 - 1 + 1) : SubSeq(s, 1, Len(s) - 1)[i] = s[1 + i - 1]
    BY <1>1, SubSeqProperties
  <1>3. Len(s) - 1 - 1 + 1 = Len(s) - 1 /\ \A i \in 1..(Len(s) - 1) : 1 + i - 1 = i
    BY <1>1
  <1> DEFINE t == SubSeq(s, 1, Len(s) - 1)
  <1>4. t \in Seq(S) /\ Len(t) = Len(s) - 1
    <2>1. Len(t) = Len(s) - 1
      BY <1>1, <1>2, PrefixLength
    <2> QED  BY <1>2, <2>1
  <1>5. \A i \in 1..Len(t) : t[i] = s[i]
    BY <1>2, <1>3, <1>4
  <1> QED  BY <1>4, <1>5

-----------------------------------------------------------------------------
(* The inductive invariant.  ScanSound is what makes the others inductive: *)
(* it tells where the numbers in the cache come from during a scan, and    *)
(* that no free frame is passed over.                                      *)

LEMMA InitIInv == CoreInit => CoreIInv
  <1> SUFFICES ASSUME CoreInit PROVE CoreIInv
    OBVIOUS
  <1> USE CoreMapAssumption DEF CoreInit
  <1>1. CoreTypeOK
    BY DEF CoreTypeOK, Frames, Idle
  <1>2. CacheIsFree /\ NoPanic /\ ScanSound
    BY DEF CacheIsFree, NoPanic, ScanSound, Idle
  <1>3. CountsFree
    <2>1. Frames \ used = FirstFree..(MaxFree - 1)
      BY DEF Frames
    <2>2. Cardinality(FirstFree..(MaxFree - 1)) = MaxFree - FirstFree
      BY FS_Interval
    <2> QED  BY <2>1, <2>2 DEF CountsFree
  <1> QED  BY <1>1, <1>2, <1>3 DEF CoreIInv

\* The frames are finitely many.
LEMMA FramesFinite == IsFiniteSet(Frames) /\ Cardinality(Frames) = MaxFree - FirstFree
  BY CoreMapAssumption, FS_Interval DEF Frames

\* The number of free frames is what freemem can be.
LEMMA FreeCount ==
    ASSUME NEW U, U \subseteq Frames
    PROVE  /\ IsFiniteSet(Frames \ U)
           /\ Cardinality(Frames \ U) \in 0..(MaxFree - FirstFree)
  <1>1. Frames \ U \in SUBSET Frames
    OBVIOUS
  <1>2. IsFiniteSet(Frames \ U) /\ Cardinality(Frames \ U) <= Cardinality(Frames)
    BY <1>1, FramesFinite, FS_Subset
  <1>3. Cardinality(Frames \ U) \in Nat
    BY <1>2, FS_CardinalityType
  <1> QED  BY <1>2, <1>3, FramesFinite, CoreMapAssumption

LEMMA MemAllIInv == ASSUME CoreIInv, NEW n \in 1..(MaxFree - FirstFree), MemAll(n) PROVE CoreIInv'
  BY CoreMapAssumption
     DEF CoreIInv, MemAll, Fits, Running, CoreTypeOK, CacheIsFree, CountsFree, ScanSound, Seen,
         NoPanic, Idle, Frames

LEMMA ScanStartIInv == ASSUME CoreIInv, ScanStart PROVE CoreIInv'
  <1> USE CoreMapAssumption
  <1>1. CoreTypeOK' /\ CacheIsFree' /\ CountsFree' /\ NoPanic'
    BY DEF CoreIInv, ScanStart, Running, CoreTypeOK, CacheIsFree, CountsFree, NoPanic, Idle,
           Frames, Next1
  <1>2. ScanSound'
    BY DEF CoreIInv, ScanStart, Running, CoreTypeOK, ScanSound, Seen, Idle, Frames, Next1
  <1> QED  BY <1>1, <1>2 DEF CoreIInv

LEMMA TakeIInv == ASSUME CoreIInv, Take PROVE CoreIInv'
  <1> USE CoreMapAssumption
  <1> DEFINE f == cache[Len(cache)]
  <1>1. /\ cache \in Seq(Frames) /\ cache # <<>> /\ Len(cache) \in Nat /\ Len(cache) > 0
        /\ f \in Frames /\ f \notin used /\ pos = Idle /\ todo > 0
    <2>1. cache \in Seq(Frames) /\ cache # <<>> /\ pos = Idle /\ todo > 0
      BY DEF CoreIInv, Take, CoreTypeOK
    <2>2. Len(cache) \in Nat /\ Len(cache) > 0 /\ f \in Frames
      BY <2>1
    <2>3. f \notin used
      BY <2>2 DEF CoreIInv, CacheIsFree
    <2> QED  BY <2>1, <2>2, <2>3
  <1>2. /\ used' = used \cup {f} /\ freemem' = freemem - 1 /\ todo' = todo - 1
        /\ panic' = panic /\ lastpos' = lastpos /\ pos' = pos
    BY <1>1 DEF Take
  <1>3. /\ cache' \in Seq(Frames) /\ Len(cache') = Len(cache) - 1
        /\ \A i \in 1..Len(cache') : cache'[i] = cache[i]
    BY <1>1, PopLast DEF Take, Popped
  <1>4. CoreTypeOK'
    <2>1. used' \subseteq Frames /\ panic' \in {"none", "lost_mem", "dup_alloc"}
      BY <1>1, <1>2 DEF CoreIInv, CoreTypeOK
    <2>2. Len(cache') <= NICMEM
      BY <1>1, <1>3 DEF CoreIInv, CoreTypeOK
    <2>3. freemem' \in 0..(MaxFree - FirstFree) /\ todo' \in 0..freemem'
      BY <1>1, <1>2 DEF CoreIInv, CoreTypeOK
    <2> QED  BY <1>2, <1>3, <2>1, <2>2, <2>3 DEF CoreIInv, CoreTypeOK
  <1>5. CacheIsFree'
    <2>1. \A i \in 1..Len(cache') : i # Len(cache) /\ i \in 1..Len(cache)
      BY <1>1, <1>3
    <2>2. \A i \in 1..Len(cache') : cache'[i] # f
      BY <1>1, <1>3, <2>1 DEF CoreIInv, CacheIsFree
    <2> QED  BY <1>2, <1>3, <2>1, <2>2 DEF CoreIInv, CacheIsFree
  <1>6. CountsFree'
    <2>1. Frames \ used' = (Frames \ used) \ {f}
      BY <1>2
    <2>2. Cardinality((Frames \ used) \ {f}) = Cardinality(Frames \ used) - 1
      BY <1>1, FreeCount, FS_RemoveElement DEF CoreIInv, CoreTypeOK
    <2> QED  BY <1>2, <2>1, <2>2 DEF CoreIInv, CountsFree
  <1>7. ScanSound' /\ NoPanic'
    BY <1>1, <1>2 DEF CoreIInv, ScanSound, NoPanic, Idle
  <1> QED  BY <1>4, <1>5, <1>6, <1>7 DEF CoreIInv

\* The parts of the type invariant that memfree does not touch.
LEMMA OtherFree ==
    ASSUME CoreIInv, NEW f \in Frames, MemFree(f),
           freemem' \in 0..(MaxFree - FirstFree),
           cache' \in Seq(Frames) /\ Len(cache') <= NICMEM
    PROVE  CoreTypeOK'
  <1>1. used' \subseteq Frames /\ todo = 0 /\ todo' = todo
    BY DEF CoreIInv, MemFree, CoreTypeOK
  <1>2. todo' \in 0..freemem'
    BY <1>1
  <1> QED  BY <1>1, <1>2 DEF CoreIInv, MemFree, CoreTypeOK

LEMMA MemFreeIInv == ASSUME CoreIInv, NEW f \in Frames, MemFree(f) PROVE CoreIInv'
  <1> USE CoreMapAssumption
  <1>1. f \in used /\ used' = used \ {f} /\ freemem' = freemem + 1 /\ pos = Idle
    <2>1. todo = 0 /\ (pos # Idle => todo > 0)
      BY DEF CoreIInv, MemFree, ScanSound
    <2> QED  BY <2>1 DEF MemFree, CountFree
  <1>2. /\ cache \in Seq(Frames)
        /\ \A i \in 1..Len(cache) : cache[i] # f
        /\ \A i, j \in 1..Len(cache) : cache[i] = cache[j] => i = j
    BY <1>1 DEF CoreIInv, CoreTypeOK, CacheIsFree
  <1>3. CountsFree'
    <2>1. Frames \ used' = (Frames \ used) \cup {f}
      BY <1>1
    <2>2. Cardinality((Frames \ used) \cup {f}) = Cardinality(Frames \ used) + 1
      BY <1>1, FreeCount, FS_AddElement DEF CoreIInv, CoreTypeOK
    <2> QED  BY <1>1, <2>1, <2>2 DEF CoreIInv, CountsFree
  <1>4. freemem' \in 0..(MaxFree - FirstFree)
    <2>1. used' \subseteq Frames
      BY <1>1 DEF CoreIInv, CoreTypeOK
    <2> QED  BY <1>3, <2>1, FreeCount DEF CountsFree
  <1>5. ScanSound' /\ NoPanic'
    BY <1>1 DEF CoreIInv, MemFree, ScanSound, NoPanic, Idle
  <1>6. CASE Len(cache) < NICMEM
    <2>1. cache' = Append(cache, f)
      BY <1>6 DEF MemFree
    <2>2. CoreTypeOK'
      <3>1. cache' \in Seq(Frames) /\ Len(cache') <= NICMEM
        BY <1>2, <1>6, <2>1, PushDistinct DEF CoreIInv, CoreTypeOK
      <3> QED  BY <1>1, <1>4, <3>1, OtherFree
    <2>3. CacheIsFree'
      BY <1>1, <1>2, <2>1, PushDistinct DEF CoreIInv, CacheIsFree
    <2> QED  BY <1>3, <1>5, <2>2, <2>3 DEF CoreIInv
  <1>7. CASE ~ Len(cache) < NICMEM
    <2>1. cache' = cache
      BY <1>7 DEF MemFree
    <2>2. CoreTypeOK'
      <3>1. cache' \in Seq(Frames) /\ Len(cache') <= NICMEM
        BY <2>1 DEF CoreIInv, CoreTypeOK
      <3> QED  BY <1>1, <1>4, <3>1, OtherFree
    <2>3. CacheIsFree'
      BY <1>1, <1>2, <2>1 DEF CoreIInv, CacheIsFree
    <2> QED  BY <1>3, <1>5, <2>2, <2>3 DEF CoreIInv
  <1> QED  BY <1>6, <1>7

\* What one round of the scan does to the cache.
LEMMA ScanCache ==
    ASSUME CoreIInv, Scan
    PROVE  /\ pos \in Frames /\ ~ Seen(pos)
           /\ cache' \in Seq(Frames)
           /\ Len(cache') = IF pos \in used THEN Len(cache) ELSE Len(cache) + 1
           /\ \A i \in 1..Len(cache) : cache'[i] = cache[i]
           /\ pos \notin used => cache'[Len(cache')] = pos
           /\ \A i \in 1..Len(cache') : cache'[i] \notin used /\ (Seen(cache'[i]) \/ cache'[i] = pos)
           /\ \A i, j \in 1..Len(cache') : cache'[i] = cache'[j] => i = j
  <1> USE CoreMapAssumption
  <1>1. pos \in Frames /\ ~ Seen(pos)
    BY DEF CoreIInv, CoreTypeOK, Scan, Seen, Idle, Frames
  <1>2. /\ cache \in Seq(Frames) /\ Len(cache) \in Nat
        /\ \A i \in 1..Len(cache) : cache[i] \notin used /\ Seen(cache[i])
        /\ \A i, j \in 1..Len(cache) : cache[i] = cache[j] => i = j
    BY DEF CoreIInv, CoreTypeOK, CacheIsFree, ScanSound, Scan
  <1>3. CASE pos \in used
    <2>1. cache' = cache
      BY <1>3 DEF Scan, Takes
    <2> QED  BY <1>1, <1>2, <1>3, <2>1
  <1>4. CASE pos \notin used
    <2>1. cache' = Append(cache, pos)
      BY <1>4 DEF Scan, Takes
    <2>2. \A i \in 1..Len(cache) : cache[i] # pos
      BY <1>1, <1>2
    <2>3. /\ Append(cache, pos) \in Seq(Frames)
          /\ Len(Append(cache, pos)) = Len(cache) + 1
          /\ \A i \in 1..Len(cache) : Append(cache, pos)[i] = cache[i]
          /\ Append(cache, pos)[Len(cache) + 1] = pos
          /\ \A i, j \in 1..Len(Append(cache, pos)) :
                Append(cache, pos)[i] = Append(cache, pos)[j] => i = j
      BY <1>1, <1>2, <2>2, PushDistinct
    <2>4. \A i \in 1..(Len(cache) + 1) : i = Len(cache) + 1 \/ i \in 1..Len(cache)
      BY <1>2
    <2>5. \A i \in 1..Len(cache') : cache'[i] \notin used /\ (Seen(cache'[i]) \/ cache'[i] = pos)
      BY <1>2, <1>4, <2>1, <2>3, <2>4
    <2> QED  BY <1>1, <1>4, <2>1, <2>3, <2>5
  <1> QED  BY <1>3, <1>4

LEMMA ScanIInv == ASSUME CoreIInv, Scan PROVE CoreIInv'
  <1> USE CoreMapAssumption
  <1> DEFINE over == pos = lastpos \/ Len(cache') = NICMEM
  <1>1. /\ pos \in Frames /\ pos # Idle /\ todo > 0 /\ Len(cache) \in Nat /\ Len(cache) < NICMEM
        /\ lastpos \in Frames \cup {MaxFree} /\ used \subseteq Frames
        /\ used' = used /\ freemem' = freemem /\ todo' = todo
        /\ pos' = IF over THEN Idle ELSE Next1(pos)
        /\ lastpos' = IF over THEN (IF pos = lastpos THEN pos ELSE Next1(pos)) ELSE lastpos
    BY ScanCache DEF CoreIInv, CoreTypeOK, ScanSound, Scan, Over
  <1>2. Next1(pos) \in Frames
    BY <1>1 DEF Next1, Frames
  <1>3. Len(cache') \in Nat /\ Len(cache') <= NICMEM
    BY <1>1, ScanCache
  <1>4. panic' = "none"
    <2> SUFFICES ASSUME pos = lastpos, cache' = <<>> PROVE FALSE
      BY <1>1, <1>3 DEF Scan, Over, Running
    <2>1. Len(cache') = 0
      OBVIOUS
    <2>2. \A f \in Frames : f = pos \/ Seen(f)
      BY <1>1 DEF Seen, Frames
    <2>3. pos \in used /\ Len(cache) = 0
      BY <1>1, <2>1, ScanCache
    <2>4. \A f \in Frames \ used : Seen(f) => \E i \in 1..Len(cache) : cache[i] = f
      BY <1>1 DEF CoreIInv, ScanSound
    <2>5. Frames \ used = {}
      BY <2>2, <2>3, <2>4
    <2>6. freemem = 0
      BY <2>5, FS_EmptySet DEF CoreIInv, CountsFree
    <2> QED  BY <1>1, <2>6 DEF CoreIInv, CoreTypeOK
  <1>5. CoreTypeOK'
    <2>1. lastpos' \in Frames \cup {MaxFree} /\ pos' \in Frames \cup {Idle}
      BY <1>1, <1>2
    <2> QED  BY <1>1, <1>3, <1>4, <2>1, ScanCache DEF CoreIInv, CoreTypeOK
  <1>6. CacheIsFree'
    BY <1>1, ScanCache DEF CacheIsFree
  <1>7. CountsFree' /\ NoPanic'
    BY <1>1, <1>4 DEF CoreIInv, CountsFree, NoPanic
  <1>8. CASE over
    <2>1. pos' = Idle /\ lastpos' \in Frames
      BY <1>1, <1>2, <1>8
    <2>2. lastpos' # MaxFree
      BY <2>1 DEF Frames
    <2> QED  BY <1>5, <1>6, <1>7, <2>1, <2>2 DEF CoreIInv, ScanSound
  <1>9. CASE ~ over
    <2>1. /\ pos' = Next1(pos) /\ lastpos' = lastpos /\ pos # lastpos
          /\ Len(cache') < NICMEM /\ pos' # Idle
      BY <1>1, <1>2, <1>3, <1>9 DEF Idle, Frames
    <2>2. lastpos = MaxFree => used = {} /\ Len(cache') = pos + 1 - FirstFree
      BY <1>1, ScanCache DEF CoreIInv, ScanSound
    <2>3. lastpos = MaxFree => Next1(pos) = pos + 1
      BY <1>1, <2>1, <2>2 DEF Next1, Frames
    <2>4. \A f \in Frames : Seen(f)' <=> Seen(f) \/ f = pos
      BY <1>1, <2>1, <2>3 DEF Seen, Next1, Frames
    <2>5. (\A i \in 1..Len(cache) : Seen(cache[i]))'
      <3> SUFFICES ASSUME NEW f \in Frames, Seen(f) \/ f = pos PROVE Seen(f)'
        BY ScanCache
      <3> QED  BY <2>4
    <2>6. (\A f \in Frames \ used : Seen(f) => \E i \in 1..Len(cache) : cache[i] = f)'
      <3> SUFFICES ASSUME NEW f \in Frames, f \notin used, Seen(f) \/ f = pos
                   PROVE  \E i \in 1..Len(cache') : cache'[i] = f
        BY <1>1, <2>4
      <3>1. CASE f = pos
        <4>1. Len(cache') \in 1..Len(cache') /\ cache'[Len(cache')] = f
          BY <1>1, <3>1, ScanCache
        <4> QED  BY <4>1
      <3>2. CASE Seen(f)
        <4>1. PICK i \in 1..Len(cache) : cache[i] = f
          BY <1>1, <3>2 DEF CoreIInv, ScanSound
        <4>2. i \in 1..Len(cache') /\ cache'[i] = f
          BY <1>1, <4>1, ScanCache
        <4> QED  BY <4>2
      <3> QED  BY <3>1, <3>2
    <2>7. (lastpos = MaxFree =>
              used = {} /\ Len(cache) = IF pos = Idle THEN 0 ELSE pos - FirstFree)'
      BY <1>1, <2>1, <2>2, <2>3 DEF Frames, Idle
    <2>8. (todo > 0 /\ Len(cache) < NICMEM)'
      BY <1>1, <2>1
    <2>9. ScanSound'
      BY <2>5, <2>6, <2>7, <2>8 DEF ScanSound
    <2> QED  BY <1>5, <1>6, <1>7, <2>9 DEF CoreIInv
  <1> QED  BY <1>8, <1>9

-----------------------------------------------------------------------------
\* Every reachable state satisfies the inductive invariant.
THEOREM Invariance == CoreSpec => []CoreIInv
  <1>1. CoreIInv /\ [CoreNext]_coreVars => CoreIInv'
    <2> SUFFICES ASSUME CoreIInv, [CoreNext]_coreVars PROVE CoreIInv'
      OBVIOUS
    <2>1. CASE \E n \in 1..(MaxFree - FirstFree) : MemAll(n)
      BY <2>1, MemAllIInv
    <2>2. CASE ScanStart
      BY <2>2, ScanStartIInv
    <2>3. CASE Scan
      BY <2>3, ScanIInv
    <2>4. CASE Take
      BY <2>4, TakeIInv
    <2>5. CASE \E f \in Frames : MemFree(f)
      BY <2>5, MemFreeIInv
    <2>6. CASE UNCHANGED coreVars
      BY <2>6 DEF coreVars, CoreIInv, CoreTypeOK, CacheIsFree, CountsFree, ScanSound, Seen, NoPanic
    <2> QED  BY <2>1, <2>2, <2>3, <2>4, <2>5, <2>6 DEF CoreNext
  <1> QED  BY InitIInv, <1>1, PTL DEF CoreSpec

\* malloc.c: the type invariant; in particular the cache does not overflow and
\* memall never wants more than is free.
THEOREM TypeCorrect == CoreSpec => []CoreTypeOK
  BY Invariance, PTL DEF CoreIInv

\* malloc.c, memall: a number popped from the cache is always that of a free
\* frame, so no frame is allocated twice, for every size of memory and cache.
THEOREM CacheCorrect == CoreSpec => []CacheIsFree
  BY Invariance, PTL DEF CoreIInv

\* malloc.c, memall: freemem is exact.
THEOREM CountCorrect == CoreSpec => []CountsFree
  BY Invariance, PTL DEF CoreIInv

\* malloc.c, memall: the panics "lost mem" and "dup alloc" cannot happen.
THEOREM NeverPanics == CoreSpec => []NoPanic
  BY Invariance, PTL DEF CoreIInv

=============================================================================
