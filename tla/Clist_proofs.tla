--------------------------- MODULE Clist_proofs ---------------------------
(***************************************************************************)
(* Proofs about Clist: every block is in one place (BlocksStay), and the   *)
(* chained blocks are queues of characters (ListsImplementQueues).         *)
(***************************************************************************)
EXTENDS Clist, FiniteSetTheorems, WellFoundedInduction, TLAPS

Blk == 1..NCLIST
Space == CBLOCK .. (NCLIST + 1) * CBLOCK - 1

-----------------------------------------------------------------------------
(* Addresses: CROUND and the blocks.                                       *)

\* Where a block begins, and how far an address is behind that.
Base(b) == b * CBLOCK
Rest(a) == a % CBLOCK

\* A number is its quotient and its rest.
LEMMA Division ==
    ASSUME NEW a \in Nat, NEW n \in Nat, n > 1
    PROVE  /\ n * (a \div n) + (a % n) = a
           /\ a % n \in 0 .. n - 1
           /\ a \div n \in Nat
  <1>1. n * (a \div n) + (a % n) = a
    <2>1. n \in Int /\ n > 0 /\ a \in Int
      OBVIOUS
    <2> QED  BY <2>1, Z3T(60)
  <1>2. a % n \in 0 .. n - 1
    OBVIOUS
  <1>3. a \div n \in Nat
    OBVIOUS
  <1> QED  BY <1>1, <1>2, <1>3

\* Products.
LEMMA Products ==
    ASSUME NEW n \in Nat, NEW x \in Nat, NEW y \in Nat
    PROVE  /\ x < y => x * n + n <= y * n
           /\ (x + 1) * n = x * n + n
           /\ x * n \in Nat /\ x * n = n * x /\ 0 * n = 0
  OBVIOUS

\* The size of a block.
LEMMA BlockSize == CBLOCK \in Nat /\ CBLOCK > 2 /\ CBLOCK = CBSIZE + 1 /\ NCLIST \in Nat /\ CBSIZE \in Nat
  BY ClistAssumption DEF CBLOCK

\* Blocks lie behind one another.
LEMMA BaseIs ==
    /\ Base(0) = 0
    /\ \A b \in Nat : Base(b) \in Nat /\ Base(b + 1) = Base(b) + CBLOCK
    /\ \A b, c \in Nat : b < c => Base(b) + CBLOCK <= Base(c)
  BY BlockSize, Products DEF Base

\* An address is in a block.
LEMMA AddressIs ==
    \A a \in Nat : /\ BlockOf(a) \in Nat /\ Rest(a) \in 0 .. CBLOCK - 1
                   /\ Base(BlockOf(a)) + Rest(a) = a
                   /\ AtEnd(a) <=> Rest(a) = 0
  <1> SUFFICES ASSUME NEW a \in Nat
               PROVE  /\ BlockOf(a) \in Nat /\ Rest(a) \in 0 .. CBLOCK - 1
                      /\ Base(BlockOf(a)) + Rest(a) = a
                      /\ AtEnd(a) <=> Rest(a) = 0
    OBVIOUS
  <1>1. CBLOCK \in Nat /\ CBLOCK > 1
    BY BlockSize
  <1>2. /\ CBLOCK * (a \div CBLOCK) + (a % CBLOCK) = a
        /\ a % CBLOCK \in 0 .. CBLOCK - 1
        /\ a \div CBLOCK \in Nat
    BY <1>1, Division
  <1>3. (a \div CBLOCK) * CBLOCK = CBLOCK * (a \div CBLOCK)
    BY <1>1, <1>2, Products
  <1> QED  BY <1>2, <1>3 DEF Base, Rest, BlockOf, AtEnd

\* It is in one block, at one place.
LEMMA AddressUnique ==
    ASSUME NEW b \in Nat, NEW r \in 0 .. CBLOCK - 1
    PROVE  BlockOf(Base(b) + r) = b /\ Rest(Base(b) + r) = r
  <1> DEFINE a == Base(b) + r
             q == BlockOf(a)
             s == Rest(a)
  <1>1. a \in Nat /\ CBLOCK \in Nat /\ Base(b) \in Nat
    <2>1. CBLOCK \in Nat /\ Base(b) \in Nat
      BY BlockSize, BaseIs
    <2> QED  BY <2>1
  <1>2. q \in Nat /\ s \in 0 .. CBLOCK - 1 /\ Base(q) + s = a /\ a = Base(b) + r /\ Base(q) \in Nat
    BY <1>1, AddressIs, BaseIs
  <1> HIDE DEF a, q, s
  <1>3. (q < b => Base(q) + CBLOCK <= Base(b)) /\ (b < q => Base(b) + CBLOCK <= Base(q))
    BY <1>2, BaseIs
  <1>4. q = b
    BY <1>1, <1>2, <1>3
  <1>5. s = r
    BY <1>1, <1>2, <1>4
  <1> QED  BY <1>4, <1>5 DEF a, q, s

\* The first character of a block is in it, and not at its end.
LEMMA InfoIs ==
    ASSUME NEW b \in Nat
    PROVE  /\ Info(b) \in Nat /\ BlockOf(Info(b)) = b /\ ~ AtEnd(Info(b)) /\ Info(b) > 0
           /\ ~ AtEnd(Info(b) + 1)
  <1>1. Info(b) = Base(b) + 1 /\ Base(b) \in Nat
    BY BaseIs DEF Info, Base
  <1>2. 1 \in 0 .. CBLOCK - 1 /\ 2 \in 0 .. CBLOCK - 1
    BY BlockSize
  <1>3. BlockOf(Base(b) + 1) = b /\ Rest(Base(b) + 1) = 1
    BY <1>2, AddressUnique
  <1>4. Base(b) + 1 \in Nat
    BY <1>1
  <1>5. ~ AtEnd(Base(b) + 1)
    BY <1>3, <1>4, AddressIs
  <1>6. Rest(Base(b) + 2) = 2
    BY <1>2, AddressUnique
  <1>7. Base(b) + 2 \in Nat /\ Info(b) + 1 = Base(b) + 2
    BY <1>1
  <1>8. ~ AtEnd(Base(b) + 2)
    BY <1>6, <1>7, AddressIs
  <1> QED  BY <1>1, <1>3, <1>5, <1>7, <1>8

\* The address after one is in the same block, or that block ends with it.
LEMMA NextAddress ==
    ASSUME NEW a \in Nat
    PROVE  /\ AtEnd(a + 1) => BlockOf(a + 1) - 1 = BlockOf(a)
           /\ ~ AtEnd(a + 1) => BlockOf(a + 1) = BlockOf(a)
  <1> DEFINE q == BlockOf(a)
             r == Rest(a)
  <1>1. q \in Nat /\ r \in 0 .. CBLOCK - 1 /\ Base(q) + r = a /\ Base(q) \in Nat
        /\ Base(q + 1) = Base(q) + CBLOCK /\ CBLOCK \in Nat /\ CBLOCK > 2
    BY BlockSize, BaseIs, AddressIs
  <1>2. AtEnd(a + 1) <=> Rest(a + 1) = 0
    BY AddressIs
  <1>e. BlockOf(a) = q
    OBVIOUS
  <1> HIDE DEF q, r
  <1>3. CASE r = CBLOCK - 1
    <2>1. a + 1 = Base(q + 1) + 0 /\ 0 \in 0 .. CBLOCK - 1 /\ q + 1 \in Nat
      BY <1>1, <1>3
    <2>2. BlockOf(a + 1) = q + 1 /\ Rest(a + 1) = 0
      BY <2>1, AddressUnique
    <2> QED  BY <1>1, <1>2, <1>e, <2>2
  <1>4. CASE r # CBLOCK - 1
    <2>0. r \in Nat /\ r < CBLOCK - 1
      BY <1>1, <1>4
    <2>1. a + 1 = Base(q) + (r + 1) /\ r + 1 \in 0 .. CBLOCK - 1 /\ r + 1 # 0
      <3>1. a + 1 = Base(q) + (r + 1)
        BY <1>1, <2>0
      <3>2. r + 1 \in 0 .. CBLOCK - 1 /\ r + 1 # 0
        BY <1>1, <2>0
      <3> QED  BY <3>1, <3>2
    <2>2. BlockOf(a + 1) = q /\ Rest(a + 1) = r + 1
      BY <1>1, <2>1, AddressUnique
    <2> QED  BY <1>1, <1>2, <1>e, <2>1, <2>2
  <1> QED  BY <1>3, <1>4

\* The addresses of the blocks.
LEMMA SpaceIs ==
    /\ \A a \in Nat : a \in Space <=> BlockOf(a) \in Blk
    /\ \A a \in Space : a \in Nat /\ a > 0
  <1>1. CBLOCK \in Nat /\ CBLOCK > 2 /\ NCLIST \in Nat
    BY BlockSize
  <1>2. Space = CBLOCK .. (Base(NCLIST) + CBLOCK - 1) /\ Base(NCLIST) \in Nat
    <2>1. (NCLIST + 1) * CBLOCK = NCLIST * CBLOCK + CBLOCK
      BY <1>1, Products
    <2>2. NCLIST * CBLOCK = Base(NCLIST) /\ Base(NCLIST) \in Nat
      BY <1>1, BaseIs DEF Base
    <2>3. Space = CBLOCK .. (NCLIST + 1) * CBLOCK - 1
      BY DEF Space
    <2> DEFINE t == (NCLIST + 1) * CBLOCK
    <2>4. t = Base(NCLIST) + CBLOCK /\ Space = CBLOCK .. t - 1
      BY <2>1, <2>2, <2>3, Zenon
    <2> HIDE DEF t
    <2> QED  BY <1>1, <2>2, <2>4
  <1>3. ASSUME NEW a \in Nat PROVE a \in Space <=> BlockOf(a) \in Blk
    <2> DEFINE q == BlockOf(a)
               r == Rest(a)
    <2>1. q \in Nat /\ r \in 0 .. CBLOCK - 1 /\ Base(q) + r = a /\ Base(q) \in Nat
      BY AddressIs, BaseIs
    <2>2. Blk = 1..NCLIST
      BY DEF Blk
    <2> HIDE DEF q, r
    <2>3. /\ q = 0 => Base(q) = 0
          /\ 0 < q => Base(0) + CBLOCK <= Base(q)
          /\ Base(0) = 0
          /\ q < NCLIST => Base(q) + CBLOCK <= Base(NCLIST)
          /\ NCLIST < q => Base(NCLIST) + CBLOCK <= Base(q)
      BY <1>1, <2>1, BaseIs
    <2>4. q \in Blk <=> (0 < q /\ q <= NCLIST)
      BY <1>1, <2>1, <2>2
    <2>5. a \in Space <=> (CBLOCK <= a /\ a <= Base(NCLIST) + CBLOCK - 1)
      BY <1>1, <1>2
    <2>6. CASE q = 0
      BY <1>1, <2>1, <2>3, <2>4, <2>5, <2>6 DEF q
    <2>7. CASE 0 < q /\ q < NCLIST
      BY <1>1, <1>2, <2>1, <2>3, <2>4, <2>5, <2>7 DEF q
    <2>8. CASE 0 < q /\ q = NCLIST
      BY <1>1, <1>2, <2>1, <2>3, <2>4, <2>5, <2>8 DEF q
    <2>9. CASE NCLIST < q
      BY <1>1, <1>2, <2>1, <2>3, <2>4, <2>5, <2>9 DEF q
    <2> QED  BY <1>1, <2>1, <2>6, <2>7, <2>8, <2>9
  <1>4. \A a \in Space : a \in Nat /\ a > 0
    BY <1>1, <1>2
  <1> QED  BY <1>3, <1>4

-----------------------------------------------------------------------------
(* What the functions of Clist compute.                                    *)

\* A set of natural numbers that is not empty has a least element.
LEMMA LeastOf ==
    ASSUME NEW S \in SUBSET Nat, S # {}
    PROVE  \E n \in S : \A k \in S : n <= k
  <1> DEFINE R == OpToRel(<, Nat)
  <1>1. IsWellFoundedOn(R, Nat)
    BY NatLessThanWellFounded
  <1>2. \A x, y \in Nat : x < y => <<x, y>> \in R
    BY DEF OpToRel
  <1> HIDE DEF R
  <1>3. \E x \in S : \A y \in S : ~ (<<y, x>> \in R)
    BY <1>1, WFMin
  <1>4. PICK n \in S : \A y \in S : ~ (<<y, n>> \in R)
    BY <1>3
  <1>5. ASSUME NEW k \in S PROVE n <= k
    <2>1. n \in Nat /\ k \in Nat
      OBVIOUS
    <2>2. <<k, n>> \notin R
      BY <1>4
    <2>3. ~ (k < n)
      BY <1>2, <2>1, <2>2
    <2> QED  BY <2>1, <2>3
  <1> QED  BY <1>5

\* There is a function that computes what Address does.
LEMMA AddressExists ==
    ASSUME NEW m, NEW k, m.q[k].cc \in Nat
    PROVE  \E g : g = [i \in 0 .. m.q[k].cc |-> IF i <= 1 THEN m.q[k].cf ELSE Follows(m, g[i - 1])]
  <1> DEFINE Upto(g, e) == g = [i \in 0 .. e |-> IF i <= 1 THEN m.q[k].cf ELSE Follows(m, g[i - 1])]
             S == {e \in Nat : ~ \E g : Upto(g, e)}
  <1>0. m.q[k].cc \in Nat
    OBVIOUS
  <1>1. SUFFICES ASSUME S # {} PROVE FALSE
    BY <1>0
  <1>2. PICK e \in S : \A d \in S : e <= d
    BY <1>1, LeastOf
  <1>3. e > 1
    <2> SUFFICES ASSUME ~ (e > 1) PROVE FALSE
      OBVIOUS
    <2> DEFINE h == [i \in 0 .. e |-> m.q[k].cf]
    <2>1. e \in 0 .. 1
      OBVIOUS
    <2>2. Upto(h, e)
      BY <2>1
    <2>3. ~ \E g : Upto(g, e)
      BY <1>2
    <2> QED  BY <2>2, <2>3
  <1>4. PICK g : Upto(g, e - 1)
    <2>1. e - 1 \in Nat /\ ~ (e <= e - 1)
      BY <1>3
    <2>2. e - 1 \notin S
      BY <1>2, <2>1
    <2> QED  BY <2>1, <2>2
  <1> DEFINE h == [i \in 0 .. e |-> IF i = e THEN Follows(m, g[e - 1]) ELSE g[i]]
  <1>5. Upto(h, e)
    <2>1. ASSUME NEW i \in 0 .. e
          PROVE  h[i] = IF i <= 1 THEN m.q[k].cf ELSE Follows(m, h[i - 1])
      <3>1. CASE i = e
        <4>1. ~ (i <= 1) /\ i - 1 \in 0 .. e /\ i - 1 # e
          BY <1>3, <3>1
        <4>2. h[i - 1] = g[e - 1] /\ h[i] = Follows(m, g[e - 1])
          BY <4>1, <3>1
        <4> HIDE DEF h
        <4> QED  BY <4>1, <4>2, <3>1
      <3>2. CASE i # e
        <4>1. i \in 0 .. e - 1 /\ h[i] = g[i]
          BY <3>2
        <4>2. g[i] = IF i <= 1 THEN m.q[k].cf ELSE Follows(m, g[i - 1])
          BY <1>4, <4>1
        <4>3. ~ (i <= 1) => h[i - 1] = g[i - 1]
          BY <4>1
        <4> HIDE DEF h
        <4> QED  BY <4>1, <4>2, <4>3
      <3> QED  BY <3>1, <3>2
    <2> HIDE DEF h
    <2>2. h = [i \in 0 .. e |-> h[i]]
      BY DEF h
    <2> QED  BY <2>1, <2>2
  <1> QED  BY <1>2, <1>5

\* What b_to_q goes through.
LEMMA PutsExist ==
    ASSUME NEW m, NEW k, NEW s, Len(s) \in Nat
    PROVE  \E g : g = [i \in 0 .. Len(s) |-> IF i = 0 THEN m ELSE putc(g[i - 1], k, s[i])]
  <1> DEFINE Upto(g, e) == g = [i \in 0 .. e |-> IF i = 0 THEN m ELSE putc(g[i - 1], k, s[i])]
             S == {e \in Nat : ~ \E g : Upto(g, e)}
  <1>0. Len(s) \in Nat
    OBVIOUS
  <1>1. SUFFICES ASSUME S # {} PROVE FALSE
    BY <1>0
  <1>2. PICK e \in S : \A d \in S : e <= d
    BY <1>1, LeastOf
  <1>3. e > 0
    <2> SUFFICES ASSUME ~ (e > 0) PROVE FALSE
      OBVIOUS
    <2> DEFINE h == [i \in 0 .. e |-> m]
    <2>1. e \in 0 .. 0
      OBVIOUS
    <2>2. Upto(h, e)
      BY <2>1
    <2>3. ~ \E g : Upto(g, e)
      BY <1>2
    <2> QED  BY <2>2, <2>3
  <1>4. PICK g : Upto(g, e - 1)
    <2>1. e - 1 \in Nat /\ ~ (e <= e - 1)
      BY <1>3
    <2>2. e - 1 \notin S
      BY <1>2, <2>1
    <2> QED  BY <2>1, <2>2
  <1> DEFINE h == [i \in 0 .. e |-> IF i = e THEN putc(g[e - 1], k, s[e]) ELSE g[i]]
  <1>5. Upto(h, e)
    <2>1. ASSUME NEW i \in 0 .. e
          PROVE  h[i] = IF i = 0 THEN m ELSE putc(h[i - 1], k, s[i])
      <3>1. CASE i = e
        <4>1. ~ (i = 0) /\ i - 1 \in 0 .. e /\ i - 1 # e
          BY <1>3, <3>1
        <4>2. h[i - 1] = g[e - 1] /\ h[i] = putc(g[e - 1], k, s[e])
          BY <4>1, <3>1
        <4> HIDE DEF h
        <4> QED  BY <4>1, <4>2, <3>1
      <3>2. CASE i # e
        <4>1. i \in 0 .. e - 1 /\ h[i] = g[i]
          BY <3>2
        <4>2. g[i] = IF i = 0 THEN m ELSE putc(g[i - 1], k, s[i])
          BY <1>4, <4>1
        <4>3. ~ (i = 0) => h[i - 1] = g[i - 1]
          BY <4>1
        <4> HIDE DEF h
        <4> QED  BY <4>1, <4>2, <4>3
      <3> QED  BY <3>1, <3>2
    <2> HIDE DEF h
    <2>2. h = [i \in 0 .. e |-> h[i]]
      BY DEF h
    <2> QED  BY <2>1, <2>2
  <1> QED  BY <1>2, <1>5

\* g are the lists that q_to_b goes through.
Gets(g, m, k, n) == g = [i \in 0 .. n |-> IF i = 0 THEN m ELSE getc(g[i - 1], k)]

\* There is a function that computes what Taking does.
LEMMA GetsExist ==
    ASSUME NEW m, NEW k, NEW n \in Nat
    PROVE  \E g : Gets(g, m, k, n)
  <1> DEFINE Upto(g, e) == g = [i \in 0 .. e |-> IF i = 0 THEN m ELSE getc(g[i - 1], k)]
             S == {e \in Nat : ~ \E g : Upto(g, e)}
  <1>0. n \in Nat
    OBVIOUS
  <1>1. SUFFICES ASSUME S # {} PROVE FALSE
    BY DEF Gets
  <1>2. PICK e \in S : \A d \in S : e <= d
    BY <1>1, LeastOf
  <1>3. e > 0
    <2> SUFFICES ASSUME ~ (e > 0) PROVE FALSE
      OBVIOUS
    <2> DEFINE h == [i \in 0 .. e |-> m]
    <2>1. e \in 0 .. 0
      OBVIOUS
    <2>2. Upto(h, e)
      BY <2>1
    <2>3. ~ \E g : Upto(g, e)
      BY <1>2
    <2> QED  BY <2>2, <2>3
  <1>4. PICK g : Upto(g, e - 1)
    <2>1. e - 1 \in Nat /\ ~ (e <= e - 1)
      BY <1>3
    <2>2. e - 1 \notin S
      BY <1>2, <2>1
    <2> QED  BY <2>1, <2>2
  <1> DEFINE h == [i \in 0 .. e |-> IF i = e THEN getc(g[e - 1], k) ELSE g[i]]
  <1>5. Upto(h, e)
    <2>1. ASSUME NEW i \in 0 .. e
          PROVE  h[i] = IF i = 0 THEN m ELSE getc(h[i - 1], k)
      <3>1. CASE i = e
        <4>1. ~ (i = 0) /\ i - 1 \in 0 .. e /\ i - 1 # e
          BY <1>3, <3>1
        <4>2. h[i - 1] = g[e - 1] /\ h[i] = getc(g[e - 1], k)
          BY <4>1, <3>1
        <4> HIDE DEF h
        <4> QED  BY <4>1, <4>2, <3>1
      <3>2. CASE i # e
        <4>1. i \in 0 .. e - 1 /\ h[i] = g[i]
          BY <3>2
        <4>2. g[i] = IF i = 0 THEN m ELSE getc(g[i - 1], k)
          BY <1>4, <4>1
        <4>3. ~ (i = 0) => h[i - 1] = g[i - 1]
          BY <4>1
        <4> HIDE DEF h
        <4> QED  BY <4>1, <4>2, <4>3
      <3> QED  BY <3>1, <3>2
    <2> HIDE DEF h
    <2>2. h = [i \in 0 .. e |-> h[i]]
      BY DEF h
    <2> QED  BY <2>1, <2>2
  <1> QED  BY <1>2, <1>5

\* g are the blocks that FreeChain looks at.
Chain(g, free, next, n) ==
    g = [i \in 1 .. n |-> IF i = 1 THEN free ELSE IF g[i - 1] = NULL THEN NULL ELSE next[g[i - 1]]]

\* There is a function that computes what FreeChain does.
LEMMA ChainExists ==
    ASSUME NEW free, NEW next, NEW n \in Nat
    PROVE  \E g : Chain(g, free, next, n)
  <1> DEFINE Upto(g, e) == g = [i \in 1 .. e |-> IF i = 1 THEN free
                                                 ELSE (IF g[i - 1] = NULL THEN NULL ELSE next[g[i - 1]])]
             S == {e \in Nat : ~ \E g : Upto(g, e)}
  <1>0. n \in Nat
    OBVIOUS
  <1>1. SUFFICES ASSUME S # {} PROVE FALSE
    BY <1>0 DEF Chain
  <1>2. PICK e \in S : \A d \in S : e <= d
    BY <1>1, LeastOf
  <1>3. e > 1
    <2> SUFFICES ASSUME ~ (e > 1) PROVE FALSE
      OBVIOUS
    <2> DEFINE h == [i \in 1 .. e |-> free]
    <2>1. e \in 0 .. 1
      OBVIOUS
    <2>2. Upto(h, e)
      BY <2>1
    <2>3. ~ \E g : Upto(g, e)
      BY <1>2
    <2> QED  BY <2>2, <2>3
  <1>4. PICK g : Upto(g, e - 1)
    <2>1. e - 1 \in Nat /\ ~ (e <= e - 1)
      BY <1>3
    <2>2. e - 1 \notin S
      BY <1>2, <2>1
    <2> QED  BY <2>1, <2>2
  <1> DEFINE h == [i \in 1 .. e |-> IF i = e THEN (IF g[e - 1] = NULL THEN NULL ELSE next[g[e - 1]]) ELSE g[i]]
  <1>5. Upto(h, e)
    <2>1. ASSUME NEW i \in 1 .. e
          PROVE  h[i] = IF i = 1 THEN free ELSE (IF h[i - 1] = NULL THEN NULL ELSE next[h[i - 1]])
      <3>1. CASE i = e
        <4>1. ~ (i = 1) /\ i - 1 \in 1 .. e /\ i - 1 # e
          BY <1>3, <3>1
        <4>2. h[i - 1] = g[e - 1] /\ h[i] = (IF g[e - 1] = NULL THEN NULL ELSE next[g[e - 1]])
          BY <4>1, <3>1
        <4> HIDE DEF h
        <4> QED  BY <4>1, <4>2, <3>1
      <3>2. CASE i # e
        <4>1. i \in 1 .. e - 1 /\ h[i] = g[i]
          BY <3>2
        <4>2. g[i] = IF i = 1 THEN free ELSE (IF g[i - 1] = NULL THEN NULL ELSE next[g[i - 1]])
          BY <1>4, <4>1
        <4>3. ~ (i = 1) => h[i - 1] = g[i - 1]
          BY <4>1
        <4> HIDE DEF h
        <4> QED  BY <4>1, <4>2, <4>3
      <3> QED  BY <3>1, <3>2
    <2> HIDE DEF h
    <2>2. h = [i \in 1 .. e |-> h[i]]
      BY DEF h
    <2> QED  BY <2>1, <2>2
  <1> QED  BY <1>2, <1>5 DEF Chain

-----------------------------------------------------------------------------
(* The addresses of a queue.                                               *)

At(m, k, i) == Address(m, k)[i]

\* The character there.
Chr(m, k, i) == m.info[At(m, k, i)]

\* The first is c_cf, and each follows the one before.
LEMMA AddressSteps ==
    ASSUME NEW m, NEW k, m.q[k].cc \in Nat
    PROVE  \A i \in 1 .. m.q[k].cc :
             At(m, k, i) = IF i = 1 THEN m.q[k].cf ELSE Follows(m, At(m, k, i - 1))
  <1> DEFINE a == Address(m, k)
             c == m.q[k].cc
  <1>1. \E g : g = [i \in 0 .. c |-> IF i <= 1 THEN m.q[k].cf ELSE Follows(m, g[i - 1])]
    BY AddressExists
  <1>2. a = CHOOSE g : g = [i \in 0 .. c |-> IF i <= 1 THEN m.q[k].cf ELSE Follows(m, g[i - 1])]
    BY DEF Address
  <1>3. a = [i \in 0 .. c |-> IF i <= 1 THEN m.q[k].cf ELSE Follows(m, a[i - 1])]
    BY <1>1, <1>2
  <1>4. c \in Nat
    OBVIOUS
  <1>5. \A i \in 1 .. c : At(m, k, i) = a[i] /\ At(m, k, i - 1) = a[i - 1]
    BY DEF At
  <1> HIDE DEF a, c
  <1>6. ASSUME NEW i \in 1 .. c
        PROVE  a[i] = IF i = 1 THEN m.q[k].cf ELSE Follows(m, a[i - 1])
    <2>1. i \in 0 .. c /\ (i <= 1 <=> i = 1)
      BY <1>4
    <2> QED  BY <1>3, <2>1
  <1> QED  BY <1>5, <1>6 DEF c

\* There is no other such sequence.
LEMMA AddressesAre ==
    ASSUME NEW m, NEW k, m.q[k].cc \in Nat, NEW g,
           \A i \in 1 .. m.q[k].cc : g[i] = IF i = 1 THEN m.q[k].cf ELSE Follows(m, g[i - 1])
    PROVE  \A i \in 1 .. m.q[k].cc : At(m, k, i) = g[i]
  <1> DEFINE c == m.q[k].cc
             f == m.q[k].cf
             S == {i \in 1 .. c : At(m, k, i) # g[i]}
  <1>0. c \in Nat /\ \A i \in 1 .. c : g[i] = IF i = 1 THEN f ELSE Follows(m, g[i - 1])
    OBVIOUS
  <1>1. \A i \in 1 .. c : At(m, k, i) = IF i = 1 THEN f ELSE Follows(m, At(m, k, i - 1))
    BY AddressSteps
  <1> HIDE DEF c, f
  <1>2. SUFFICES ASSUME S # {} PROVE FALSE
    BY DEF c
  <1>3. PICK e \in S : \A d \in S : e <= d
    <2>1. S \in SUBSET Nat
      BY <1>0
    <2> QED  BY <1>2, <2>1, LeastOf
  <1>4. e # 1 /\ e \in 1 .. c
    BY <1>0, <1>1
  <1>5. e - 1 \in 1 .. c /\ ~ (e <= e - 1)
    BY <1>0, <1>4
  <1>6. At(m, k, e - 1) = g[e - 1]
    BY <1>3, <1>5
  <1> QED  BY <1>0, <1>1, <1>4, <1>6

-----------------------------------------------------------------------------
(* The inductive invariant, of a state m of the lists.                     *)

Counts == [cc : Nat, cf : Nat, cl : Nat]
Typed(m) ==
    m \in [free : 0 .. NCLIST, next : [Blk -> 0 .. NCLIST], info : [Space -> Char],
           q : [Queue -> Counts]]

\* Addresses of characters.
Place == {a \in Space : ~ AtEnd(a)}

\* c_cl is behind the last character; in a block the addresses go up, and only
\* its last one is at its end.
QueueSound(m, k) ==
    /\ m.q[k].cc = 0 => m.q[k] = EmptyQueue
    /\ m.q[k].cc > 0 => m.q[k].cl = At(m, k, m.q[k].cc) + 1
    /\ \A i \in 1 .. m.q[k].cc : At(m, k, i) \in Place
    /\ \A i, j \in 1 .. m.q[k].cc :
         i < j /\ BlockOf(At(m, k, i)) = BlockOf(At(m, k, j)) =>
           At(m, k, i) < At(m, k, j) /\ ~ AtEnd(At(m, k, i) + 1)

\* A block has characters of one queue.
Apart(m) ==
    \A k, j \in Queue : \A x \in 1 .. m.q[k].cc, y \in 1 .. m.q[j].cc :
      BlockOf(At(m, k, x)) = BlockOf(At(m, j, y)) => k = j

InQueues(m, b) == \E k \in Queue : \E i \in 1 .. m.q[k].cc : BlockOf(At(m, k, i)) = b

\* s is the free list, without repetition.
FreeAre(m, s) ==
    /\ s \in Seq(Blk)
    /\ \A i, j \in 1 .. Len(s) : s[i] = s[j] => i = j
    /\ s = <<>> => m.free = NULL
    /\ s # <<>> => m.free = s[1]
    /\ \A i \in 1 .. Len(s) : m.next[s[i]] = IF i = Len(s) THEN NULL ELSE s[i + 1]

\* It has the blocks that are in no queue.
Covers(m, s) == \A b \in Blk : (\E i \in 1 .. Len(s) : s[i] = b) <=> ~ InQueues(m, b)

Sound(m) ==
    /\ Typed(m) /\ Apart(m)
    /\ \A k \in Queue : QueueSound(m, k)
    /\ \E s : FreeAre(m, s) /\ Covers(m, s)

\* The other queues have their characters; k has some more; k has less.
OthersSame(m, n, k) ==
    \A j \in Queue \ {k} : /\ n.q[j].cc = m.q[j].cc
                           /\ \A i \in 1 .. m.q[j].cc : Chr(n, j, i) = Chr(m, j, i)
Longer(m, n, k) ==
    /\ OthersSame(m, n, k) /\ m.q[k].cc <= n.q[k].cc
    /\ \A i \in 1 .. m.q[k].cc : Chr(n, k, i) = Chr(m, k, i)
Shorter(m, n, k) ==
    /\ OthersSame(m, n, k) /\ n.q[k].cc <= m.q[k].cc
    /\ \A i \in 1 .. n.q[k].cc : Chr(n, k, i) = Chr(m, k, i + (m.q[k].cc - n.q[k].cc))

\* Behind its characters k has c.
Appended(m, n, k, c) ==
    /\ Longer(m, n, k) /\ n.q[k].cc = m.q[k].cc + 1
    /\ Chr(n, k, m.q[k].cc + 1) = c

\* What the types say.
LEMMA Types ==
    ASSUME NEW m, Typed(m)
    PROVE  /\ m.free \in 0 .. NCLIST /\ m.next \in [Blk -> 0 .. NCLIST]
           /\ m.info \in [Space -> Char]
           /\ \A k \in Queue : m.q[k] \in Counts /\ m.q[k].cc \in Nat /\ m.q[k].cf \in Nat
                               /\ m.q[k].cl \in Nat
           /\ m.q \in [Queue -> Counts]
  BY DEF Typed, Counts

\* A place is in a block.
LEMMA PlaceIs == \A a \in Place : a \in Nat /\ a > 0 /\ BlockOf(a) \in Blk /\ a \in Space /\ ~ AtEnd(a)
  BY SpaceIs DEF Place
\* An address in a block is a place, unless it is the one of c_next.
LEMMA PlaceOf == \A a \in Nat : BlockOf(a) \in Blk /\ ~ AtEnd(a) => a \in Place
  BY SpaceIs DEF Place

-----------------------------------------------------------------------------
(* A character more: putc.                                                 *)

\* Queues whose blocks are chained as before have the addresses they had.
LEMMA SameAddresses ==
    ASSUME NEW m, NEW n, NEW j \in Queue, Typed(m), n.q[j] = m.q[j],
           \A i \in 1 .. m.q[j].cc :
             i < m.q[j].cc => Follows(n, At(m, j, i)) = Follows(m, At(m, j, i))
    PROVE  \A i \in 1 .. m.q[j].cc : At(n, j, i) = At(m, j, i)
  <1> DEFINE g == Address(m, j)
             d == m.q[j].cc
  <1>0. d \in Nat /\ n.q[j].cc = d /\ n.q[j].cf = m.q[j].cf
    BY Types
  <1>g. \A i : g[i] = At(m, j, i)
    BY DEF At
  <1>1. \A i \in 1 .. d : At(m, j, i) = IF i = 1 THEN m.q[j].cf ELSE Follows(m, At(m, j, i - 1))
    BY <1>0, AddressSteps
  <1>f. \A i \in 1 .. d : i < d => Follows(n, At(m, j, i)) = Follows(m, At(m, j, i))
    OBVIOUS
  <1> HIDE DEF g, d
  <1>2. ASSUME NEW i \in 1 .. d PROVE g[i] = IF i = 1 THEN n.q[j].cf ELSE Follows(n, g[i - 1])
    <2>1. CASE i = 1
      BY <1>0, <1>1, <1>g, <2>1
    <2>2. CASE i # 1
      <3>1. i - 1 \in 1 .. d /\ i - 1 < d
        BY <1>0, <2>2
      <3>2. Follows(n, At(m, j, i - 1)) = Follows(m, At(m, j, i - 1))
        BY <1>f, <3>1
      <3>3. At(m, j, i) = Follows(m, At(m, j, i - 1))
        BY <1>1, <2>2
      <3> QED  BY <1>g, <2>2, <3>2, <3>3
    <2> QED  BY <2>1, <2>2
  <1>3. \A i \in 1 .. n.q[j].cc : g[i] = IF i = 1 THEN n.q[j].cf ELSE Follows(n, g[i - 1])
    BY <1>0, <1>2
  <1>4. n.q[j].cc \in Nat
    BY <1>0
  <1>5. \A i \in 1 .. n.q[j].cc : At(n, j, i) = g[i]
    BY <1>3, <1>4, AddressesAre
  <1> QED  BY <1>0, <1>5, <1>g DEF d

\* A character c at p, behind the others of queue k in their last block or in one
\* that has been in no queue.
LEMMA Added ==
    ASSUME NEW m, NEW n, NEW k \in Queue, NEW p \in Place, NEW c \in Char,
           Typed(m), Apart(m), \A j \in Queue : QueueSound(m, j), Typed(n),
           \A j \in Queue \ {k} : n.q[j] = m.q[j],
           n.q[k].cc = m.q[k].cc + 1, n.q[k].cl = p + 1,
           n.q[k].cf = IF m.q[k].cc = 0 THEN p ELSE m.q[k].cf,
           \A a \in Space \ {p} : n.info[a] = m.info[a],
           n.info[p] = c,
           \A j \in Queue : \A i \in 1 .. m.q[j].cc :
             i < m.q[j].cc => Follows(n, At(m, j, i)) = Follows(m, At(m, j, i)),
           m.q[k].cc > 0 => Follows(n, At(m, k, m.q[k].cc)) = p,
           \/ /\ m.q[k].cc > 0 /\ p = At(m, k, m.q[k].cc) + 1
              /\ BlockOf(p) = BlockOf(At(m, k, m.q[k].cc))
           \/ ~ InQueues(m, BlockOf(p))
    PROVE  /\ Apart(n) /\ \A j \in Queue : QueueSound(n, j)
           /\ \A b : InQueues(n, b) <=> (InQueues(m, b) \/ b = BlockOf(p))
           /\ Appended(m, n, k, c)
  <1> DEFINE d == m.q[k].cc
             last == At(m, k, d)
  <1>0. /\ d \in Nat /\ \A j \in Queue : m.q[j].cc \in Nat
        /\ \A j \in Queue \ {k} : n.q[j].cc = m.q[j].cc
        /\ n.q[k].cc = d + 1
    BY Types
  <1>1. \A j \in Queue \ {k} : \A i \in 1 .. m.q[j].cc : At(n, j, i) = At(m, j, i)
    BY SameAddresses
  <1>2. /\ \A i \in 1 .. d : At(n, k, i) = At(m, k, i)
        /\ At(n, k, d + 1) = p
    <2> DEFINE g == [i \in 0 .. d + 1 |-> IF i = d + 1 THEN p ELSE At(m, k, i)]
    <2>1. \A i \in 1 .. d : At(m, k, i) = IF i = 1 THEN m.q[k].cf ELSE Follows(m, At(m, k, i - 1))
      BY <1>0, AddressSteps
    <2>2. /\ \A i \in 1 .. d : i < d => Follows(n, At(m, k, i)) = Follows(m, At(m, k, i))
          /\ n.q[k].cf = IF d = 0 THEN p ELSE m.q[k].cf
          /\ d > 0 => Follows(n, last) = p
      OBVIOUS
    <2>3. /\ \A i \in 0 .. d : g[i] = At(m, k, i)
          /\ g[d + 1] = p
      BY <1>0
    <2> HIDE DEF g, d
    <2>4. ASSUME NEW i \in 1 .. d + 1
          PROVE  g[i] = IF i = 1 THEN n.q[k].cf ELSE Follows(n, g[i - 1])
      <3>1. CASE i = 1 /\ d = 0
        BY <2>2, <2>3, <3>1
      <3>2. CASE i = 1 /\ d # 0
        <4>1. i \in 1 .. d /\ i \in 0 .. d
          BY <1>0, <3>2
        <4> QED  BY <2>1, <2>2, <2>3, <3>2, <4>1
      <3>3. CASE i # 1 /\ i = d + 1
        <4>1. d > 0 /\ i - 1 = d /\ d \in 0 .. d
          BY <1>0, <3>3
        <4> QED  BY <2>2, <2>3, <3>3, <4>1
      <3>4. CASE i # 1 /\ i # d + 1
        <4>1. i \in 1 .. d /\ i - 1 \in 1 .. d /\ i - 1 < d /\ i \in 0 .. d /\ i - 1 \in 0 .. d
          BY <1>0, <3>4
        <4>2. At(m, k, i) = Follows(m, At(m, k, i - 1))
          BY <2>1, <3>4, <4>1
        <4>3. Follows(n, At(m, k, i - 1)) = Follows(m, At(m, k, i - 1))
          BY <2>2, <4>1
        <4> QED  BY <2>3, <3>4, <4>1, <4>2, <4>3
      <3> QED  BY <3>1, <3>2, <3>3, <3>4
    <2>5. \A i \in 1 .. n.q[k].cc : g[i] = IF i = 1 THEN n.q[k].cf ELSE Follows(n, g[i - 1])
      BY <1>0, <2>4
    <2>6. n.q[k].cc \in Nat
      BY <1>0
    <2>7. \A i \in 1 .. n.q[k].cc : At(n, k, i) = g[i]
      BY <2>5, <2>6, AddressesAre
    <2>8. /\ \A i \in 1 .. d : i \in 1 .. d + 1 /\ i \in 0 .. d
          /\ d + 1 \in 1 .. d + 1
      BY <1>0
    <2> QED  BY <1>0, <2>3, <2>7, <2>8
  <1>3. \A j \in Queue : \A i \in 1 .. m.q[j].cc : At(m, j, i) \in Place /\ At(n, j, i) = At(m, j, i)
    BY <1>1, <1>2 DEF QueueSound
  <1>s. \A i \in 1 .. d + 1 : i \in 1 .. d \/ i = d + 1
    BY <1>0
  <1>t. d > 0 => d \in 1 .. d
    BY <1>0
  <1>u. d + 1 \in 1 .. d + 1 /\ \A i \in 1 .. d : i \in 1 .. d + 1
    BY <1>0
  <1>x. \/ d > 0 /\ p = last + 1 /\ BlockOf(p) = BlockOf(last)
        \/ ~ InQueues(m, BlockOf(p))
    OBVIOUS
  \* Who is in the block of p is in queue k, before p.
  <1>4. ASSUME NEW j \in Queue, NEW i \in 1 .. m.q[j].cc, BlockOf(At(m, j, i)) = BlockOf(p)
        PROVE  j = k /\ d > 0 /\ p = last + 1 /\ BlockOf(last) = BlockOf(p)
    <2>1. InQueues(m, BlockOf(p))
      BY <1>4 DEF InQueues
    <2>2. d > 0 /\ p = last + 1 /\ BlockOf(p) = BlockOf(last)
      BY <1>x, <2>1
    <2>3. d \in 1 .. d
      BY <1>t, <2>2
    <2>4. BlockOf(At(m, j, i)) = BlockOf(At(m, k, d))
      BY <1>4, <2>2
    <2> QED  BY <2>2, <2>3, <2>4 DEF Apart
  <1>q. QueueSound(m, k)
    OBVIOUS
  <1>k. /\ \A j \in Queue \ {k} : QueueSound(m, j)
        /\ \A j \in Queue \ {k} : n.q[j] = m.q[j]
        /\ n.q[k].cl = p + 1
        /\ \A a \in Space \ {p} : n.info[a] = m.info[a]
    OBVIOUS
  <1>5. QueueSound(n, k)
    <2>1. n.q[k].cc > 0 /\ n.q[k].cc # 0
      BY <1>0
    <2>2. n.q[k].cl = At(n, k, n.q[k].cc) + 1
      BY <1>0, <1>2, <1>k
    <2>3. ASSUME NEW i \in 1 .. d + 1 PROVE At(n, k, i) \in Place
      BY <1>2, <1>3, <1>s
    <2>4. ASSUME NEW i \in 1 .. d + 1, NEW j \in 1 .. d + 1, i < j,
                 BlockOf(At(n, k, i)) = BlockOf(At(n, k, j))
          PROVE  At(n, k, i) < At(n, k, j) /\ ~ AtEnd(At(n, k, i) + 1)
      <3>1. i \in 1 .. d /\ (j \in 1 .. d \/ j = d + 1)
        BY <1>0, <2>4
      <3>2. CASE j \in 1 .. d
        <4>1. BlockOf(At(m, k, i)) = BlockOf(At(m, k, j))
          BY <1>2, <2>4, <3>1, <3>2
        <4>2. At(m, k, i) < At(m, k, j) /\ ~ AtEnd(At(m, k, i) + 1)
          BY <1>q, <2>4, <3>1, <3>2, <4>1 DEF QueueSound
        <4> QED  BY <1>2, <3>1, <3>2, <4>2
      <3>3. CASE j = d + 1
        <4>1. At(n, k, i) = At(m, k, i) /\ At(n, k, j) = p
          BY <1>2, <3>1, <3>3
        <4>2. d > 0 /\ p = last + 1 /\ BlockOf(last) = BlockOf(p) /\ BlockOf(At(m, k, i)) = BlockOf(p)
          BY <1>4, <2>4, <3>1, <4>1
        <4>3. ~ AtEnd(p)
          BY PlaceIs
        <4>4. d \in 1 .. d /\ last \in Nat /\ At(m, k, i) \in Nat
          BY <1>3, <1>t, <3>1, <4>2, PlaceIs
        <4>5. CASE i = d
          BY <4>1, <4>2, <4>3, <4>4, <4>5
        <4>6. CASE i # d
          <5>1. i < d
            BY <1>0, <3>1, <4>6
          <5>2. At(m, k, i) < last /\ ~ AtEnd(At(m, k, i) + 1)
            BY <1>q, <3>1, <4>2, <4>4, <5>1 DEF QueueSound
          <5> QED  BY <4>1, <4>2, <4>4, <5>2
        <4> QED  BY <4>5, <4>6
      <3> QED  BY <3>1, <3>2, <3>3
    <2> HIDE DEF d, last
    <2> QED  BY <1>0, <2>1, <2>2, <2>3, <2>4 DEF QueueSound
  <1>6. ASSUME NEW j \in Queue \ {k} PROVE QueueSound(n, j)
    <2>1. m.q[j].cc \in Nat /\ n.q[j] = m.q[j] /\ QueueSound(m, j)
      BY <1>0, <1>k
    <2>2. \A i \in 1 .. m.q[j].cc : At(n, j, i) = At(m, j, i)
      BY <1>1
    <2>3. m.q[j].cc > 0 => m.q[j].cc \in 1 .. m.q[j].cc
      BY <2>1
    <2> HIDE DEF d, last
    <2>4. m.q[j].cc > 0 => m.q[j].cl = At(n, j, m.q[j].cc) + 1
      BY <2>1, <2>2, <2>3 DEF QueueSound
    <2> QED  BY <2>1, <2>2, <2>4 DEF QueueSound
  <1>7. Apart(n)
    <2> SUFFICES ASSUME NEW i \in Queue, NEW j \in Queue,
                        NEW x \in 1 .. n.q[i].cc, NEW y \in 1 .. n.q[j].cc,
                        BlockOf(At(n, i, x)) = BlockOf(At(n, j, y))
                 PROVE  i = j
      BY DEF Apart
    <2>1. x \in 1 .. m.q[i].cc \/ (i = k /\ x = d + 1)
      BY <1>0, <1>s
    <2>2. y \in 1 .. m.q[j].cc \/ (j = k /\ y = d + 1)
      BY <1>0, <1>s
    <2>3. CASE x \in 1 .. m.q[i].cc /\ y \in 1 .. m.q[j].cc
      <3>1. BlockOf(At(m, i, x)) = BlockOf(At(m, j, y))
        BY <1>3, <2>3
      <3> QED  BY <2>3, <3>1 DEF Apart
    <2>4. CASE x \in 1 .. m.q[i].cc /\ j = k /\ y = d + 1
      <3>1. BlockOf(At(m, i, x)) = BlockOf(p)
        BY <1>2, <1>3, <2>4
      <3> QED  BY <1>4, <2>4, <3>1
    <2>5. CASE y \in 1 .. m.q[j].cc /\ i = k /\ x = d + 1
      <3>1. BlockOf(At(m, j, y)) = BlockOf(p)
        BY <1>2, <1>3, <2>5
      <3> QED  BY <1>4, <2>5, <3>1
    <2> QED  BY <2>1, <2>2, <2>3, <2>4, <2>5
  <1>8. ASSUME NEW b PROVE InQueues(n, b) <=> (InQueues(m, b) \/ b = BlockOf(p))
    <2>1. ASSUME InQueues(n, b) PROVE InQueues(m, b) \/ b = BlockOf(p)
      <3>a. PICK j \in Queue : \E i \in 1 .. n.q[j].cc : BlockOf(At(n, j, i)) = b
        BY <2>1 DEF InQueues
      <3>1. PICK i \in 1 .. n.q[j].cc : BlockOf(At(n, j, i)) = b
        BY <3>a
      <3>2. i \in 1 .. m.q[j].cc \/ (j = k /\ i = d + 1)
        BY <1>0, <1>s
      <3>3. CASE i \in 1 .. m.q[j].cc
        <4>1. BlockOf(At(m, j, i)) = b
          BY <1>3, <3>1, <3>3
        <4> QED  BY <3>3, <4>1 DEF InQueues
      <3>4. CASE j = k /\ i = d + 1
        BY <1>2, <3>1, <3>4
      <3> QED  BY <3>2, <3>3, <3>4
    <2>2. ASSUME InQueues(m, b) PROVE InQueues(n, b)
      <3>a. PICK j \in Queue : \E i \in 1 .. m.q[j].cc : BlockOf(At(m, j, i)) = b
        BY <2>2 DEF InQueues
      <3>1. PICK i \in 1 .. m.q[j].cc : BlockOf(At(m, j, i)) = b
        BY <3>a
      <3>2. i \in 1 .. n.q[j].cc
        BY <1>0, <1>u
      <3>3. BlockOf(At(n, j, i)) = b
        BY <1>3, <3>1
      <3> QED  BY <3>2, <3>3 DEF InQueues
    <2>3. ASSUME b = BlockOf(p) PROVE InQueues(n, b)
      <3>1. d + 1 \in 1 .. n.q[k].cc /\ BlockOf(At(n, k, d + 1)) = b
        BY <1>0, <1>2, <1>u, <2>3
      <3> QED  BY <3>1 DEF InQueues
    <2> QED  BY <2>1, <2>2, <2>3
  <1>9. Longer(m, n, k)
    <2>1. ASSUME NEW j \in Queue, NEW i \in 1 .. m.q[j].cc PROVE Chr(n, j, i) = Chr(m, j, i)
      <3>1. At(m, j, i) \in Space /\ At(n, j, i) = At(m, j, i)
        BY <1>3, PlaceIs
      <3>2. At(m, j, i) # p
        <4>1. SUFFICES ASSUME At(m, j, i) = p PROVE FALSE
          OBVIOUS
        <4>2. j = k /\ d > 0 /\ p = last + 1 /\ BlockOf(last) = BlockOf(p)
          BY <1>4, <4>1
        <4>3. i \in 1 .. d /\ d \in 1 .. d /\ last \in Nat
          BY <1>3, <1>t, <4>2, PlaceIs
        <4>4. i = d \/ At(m, k, i) < last
          <5>1. i # d => i < d
            BY <1>0, <4>3
          <5> QED  BY <1>q, <4>1, <4>2, <4>3, <5>1 DEF QueueSound
        <4> QED  BY <4>1, <4>2, <4>3, <4>4
      <3> QED  BY <1>k, <3>1, <3>2 DEF Chr
    <2>2. m.q[k].cc <= n.q[k].cc
      BY <1>0
    <2> HIDE DEF d, last
    <2> QED  BY <1>0, <2>1, <2>2 DEF Longer, OthersSame
  <1>10. Appended(m, n, k, c)
    <2>1. Chr(n, k, d + 1) = c
      BY <1>2 DEF Chr
    <2> HIDE DEF last
    <2> QED  BY <1>0, <1>9, <2>1 DEF Appended
  <1> QED  BY <1>5, <1>6, <1>7, <1>8, <1>10

-----------------------------------------------------------------------------
(* A character less: getc.                                                 *)

\* b has a character other than the first of queue k.
InLater(m, k, b) ==
    \E j \in Queue : \E i \in 1 .. m.q[j].cc : (j # k \/ i # 1) /\ BlockOf(At(m, j, i)) = b

\* The first character of queue k is taken; the others stay where they are.
LEMMA Removed ==
    ASSUME NEW m, NEW n, NEW k \in Queue,
           Typed(m), Apart(m), \A j \in Queue : QueueSound(m, j), Typed(n),
           \A j \in Queue \ {k} : n.q[j] = m.q[j],
           m.q[k].cc > 0, n.q[k].cc = m.q[k].cc - 1,
           m.q[k].cc = 1 => n.q[k] = EmptyQueue,
           m.q[k].cc > 1 => n.q[k].cf = At(m, k, 2) /\ n.q[k].cl = m.q[k].cl,
           \A j \in Queue : \A i \in 1 .. m.q[j].cc :
             (j # k \/ i # 1) => n.info[At(m, j, i)] = m.info[At(m, j, i)],
           \A j \in Queue : \A i \in 1 .. m.q[j].cc :
             (j # k \/ i # 1) /\ i < m.q[j].cc => Follows(n, At(m, j, i)) = Follows(m, At(m, j, i))
    PROVE  /\ Apart(n) /\ \A j \in Queue : QueueSound(n, j)
           /\ \A b : InQueues(n, b) <=> InLater(m, k, b)
           /\ Shorter(m, n, k)
  <1> DEFINE d == m.q[k].cc
  <1>0. /\ d \in Nat /\ d > 0 /\ \A j \in Queue : m.q[j].cc \in Nat
        /\ \A j \in Queue \ {k} : n.q[j].cc = m.q[j].cc
        /\ n.q[k].cc = d - 1 /\ d - 1 \in Nat
    BY Types
  <1>1. \A j \in Queue \ {k} : \A i \in 1 .. m.q[j].cc : At(n, j, i) = At(m, j, i)
    <2> SUFFICES ASSUME NEW j \in Queue \ {k}
                 PROVE  \A i \in 1 .. m.q[j].cc : At(n, j, i) = At(m, j, i)
      OBVIOUS
    <2>1. n.q[j] = m.q[j] /\ j # k /\ j \in Queue
      OBVIOUS
    <2>2. \A i \in 1 .. m.q[j].cc : i < m.q[j].cc => Follows(n, At(m, j, i)) = Follows(m, At(m, j, i))
      BY <2>1
    <2> QED  BY <2>1, <2>2, SameAddresses
  <1>f. \A i \in 1 .. d : i # 1 /\ i < d => Follows(n, At(m, k, i)) = Follows(m, At(m, k, i))
    OBVIOUS
  <1>2. \A i \in 1 .. d - 1 : At(n, k, i) = At(m, k, i + 1)
    <2> DEFINE g == [i \in 0 .. d - 1 |-> At(m, k, i + 1)]
    <2>1. \A i \in 1 .. d : At(m, k, i) = IF i = 1 THEN m.q[k].cf ELSE Follows(m, At(m, k, i - 1))
      BY <1>0, AddressSteps
    <2>2. d > 1 => n.q[k].cf = At(m, k, 2)
      OBVIOUS
    <2>3. \A i \in 0 .. d - 1 : g[i] = At(m, k, i + 1)
      OBVIOUS
    <2> HIDE DEF g, d
    <2>4. ASSUME NEW i \in 1 .. d - 1
          PROVE  g[i] = IF i = 1 THEN n.q[k].cf ELSE Follows(n, g[i - 1])
      <3>0. i \in 0 .. d - 1 /\ i - 1 \in 0 .. d - 1 /\ d > 1 /\ (i - 1) + 1 = i
        BY <1>0
      <3>1. CASE i = 1
        <4>1. i + 1 = 2
          BY <3>1
        <4> QED  BY <2>2, <2>3, <3>0, <3>1, <4>1
      <3>2. CASE i # 1
        <4>1. i + 1 \in 1 .. d /\ (i + 1) - 1 = i /\ i + 1 # 1 /\ i \in 1 .. d /\ i < d
          BY <1>0
        <4>2. At(m, k, i + 1) = Follows(m, At(m, k, i))
          BY <2>1, <4>1
        <4>3. Follows(n, At(m, k, i)) = Follows(m, At(m, k, i))
          BY <1>f, <3>2, <4>1
        <4> QED  BY <2>3, <3>0, <3>2, <4>2, <4>3
      <3> QED  BY <3>1, <3>2
    <2>5. \A i \in 1 .. n.q[k].cc : g[i] = IF i = 1 THEN n.q[k].cf ELSE Follows(n, g[i - 1])
      BY <1>0, <2>4
    <2>6. n.q[k].cc \in Nat
      BY <1>0
    <2>7. \A i \in 1 .. n.q[k].cc : At(n, k, i) = g[i]
      BY <2>5, <2>6, AddressesAre
    <2>8. \A i \in 1 .. d - 1 : i \in 0 .. d - 1
      BY <1>0
    <2> QED  BY <1>0, <2>3, <2>7, <2>8
  <1>s. \A i \in 1 .. d - 1 : i + 1 \in 1 .. d /\ i + 1 # 1
    BY <1>0
  <1>q. QueueSound(m, k)
    OBVIOUS
  <1>k. /\ \A j \in Queue \ {k} : QueueSound(m, j) /\ n.q[j] = m.q[j]
        /\ d = 1 => n.q[k] = EmptyQueue
        /\ d > 1 => n.q[k].cl = m.q[k].cl
    OBVIOUS
  <1>i. \A j \in Queue : \A i \in 1 .. m.q[j].cc :
             (j # k \/ i # 1) => n.info[At(m, j, i)] = m.info[At(m, j, i)]
    OBVIOUS
  \* Each character that is left was there.
  <1>3. ASSUME NEW j \in Queue, NEW i \in 1 .. n.q[j].cc
        PROVE  \E l \in 1 .. m.q[j].cc : /\ j # k \/ l # 1
                                         /\ At(n, j, i) = At(m, j, l)
                                         /\ l = IF j = k THEN i + 1 ELSE i
    <2>1. CASE j = k
      BY <1>0, <1>2, <1>s, <2>1
    <2>2. CASE j # k
      BY <1>0, <1>1, <2>2
    <2> QED  BY <2>1, <2>2
  <1>5. QueueSound(n, k)
    <2>1. n.q[k].cc = 0 => n.q[k] = EmptyQueue
      <3>1. d - 1 = 0 => d = 1
        BY <1>0
      <3> QED  BY <1>0, <1>k, <3>1
    <2>2. n.q[k].cc > 0 => n.q[k].cl = At(n, k, n.q[k].cc) + 1
      <3>1. d - 1 > 0 => d > 1 /\ d - 1 \in 1 .. d - 1 /\ (d - 1) + 1 = d
        BY <1>0
      <3>2. m.q[k].cl = At(m, k, d) + 1
        BY <1>0, <1>q DEF QueueSound
      <3> HIDE DEF d
      <3> QED  BY <1>0, <1>2, <1>k, <3>1, <3>2
    <2>3. ASSUME NEW i \in 1 .. n.q[k].cc PROVE At(n, k, i) \in Place
      BY <1>0, <1>2, <1>q, <1>s DEF QueueSound
    <2>4. ASSUME NEW i \in 1 .. n.q[k].cc, NEW j \in 1 .. n.q[k].cc, i < j,
                 BlockOf(At(n, k, i)) = BlockOf(At(n, k, j))
          PROVE  At(n, k, i) < At(n, k, j) /\ ~ AtEnd(At(n, k, i) + 1)
      <3>1. i + 1 \in 1 .. d /\ j + 1 \in 1 .. d /\ i + 1 < j + 1
        BY <1>0, <1>s, <2>4
      <3>2. At(n, k, i) = At(m, k, i + 1) /\ At(n, k, j) = At(m, k, j + 1)
        BY <1>0, <1>2
      <3> QED  BY <1>q, <2>4, <3>1, <3>2 DEF QueueSound
    <2> HIDE DEF d
    <2> QED  BY <2>1, <2>2, <2>3, <2>4 DEF QueueSound
  <1>6. ASSUME NEW j \in Queue \ {k} PROVE QueueSound(n, j)
    <2>1. m.q[j].cc \in Nat /\ n.q[j] = m.q[j] /\ QueueSound(m, j)
      BY <1>0, <1>k
    <2>2. \A i \in 1 .. m.q[j].cc : At(n, j, i) = At(m, j, i)
      BY <1>1
    <2>3. m.q[j].cc > 0 => m.q[j].cc \in 1 .. m.q[j].cc
      BY <2>1
    <2> HIDE DEF d
    <2>4. m.q[j].cc > 0 => m.q[j].cl = At(n, j, m.q[j].cc) + 1
      BY <2>1, <2>2, <2>3 DEF QueueSound
    <2> QED  BY <2>1, <2>2, <2>4 DEF QueueSound
  <1>7. Apart(n)
    <2> SUFFICES ASSUME NEW i \in Queue, NEW j \in Queue,
                        NEW x \in 1 .. n.q[i].cc, NEW y \in 1 .. n.q[j].cc,
                        BlockOf(At(n, i, x)) = BlockOf(At(n, j, y))
                 PROVE  i = j
      BY DEF Apart
    <2>1. PICK v \in 1 .. m.q[i].cc : At(n, i, x) = At(m, i, v)
      BY <1>3
    <2>2. PICK w \in 1 .. m.q[j].cc : At(n, j, y) = At(m, j, w)
      BY <1>3
    <2> QED  BY <2>1, <2>2 DEF Apart
  <1>8. ASSUME NEW b PROVE InQueues(n, b) <=> InLater(m, k, b)
    <2>1. ASSUME InQueues(n, b) PROVE InLater(m, k, b)
      <3>a. PICK j \in Queue : \E i \in 1 .. n.q[j].cc : BlockOf(At(n, j, i)) = b
        BY <2>1 DEF InQueues
      <3>1. PICK i \in 1 .. n.q[j].cc : BlockOf(At(n, j, i)) = b
        BY <3>a
      <3>2. PICK v \in 1 .. m.q[j].cc : (j # k \/ v # 1) /\ At(n, j, i) = At(m, j, v)
        BY <1>3
      <3>3. BlockOf(At(m, j, v)) = b
        BY <3>1, <3>2
      <3> QED  BY <3>2, <3>3 DEF InLater
    <2>2. ASSUME InLater(m, k, b) PROVE InQueues(n, b)
      <3>a. PICK j \in Queue : \E i \in 1 .. m.q[j].cc : (j # k \/ i # 1) /\ BlockOf(At(m, j, i)) = b
        BY <2>2 DEF InLater
      <3>1. PICK i \in 1 .. m.q[j].cc : (j # k \/ i # 1) /\ BlockOf(At(m, j, i)) = b
        BY <3>a
      <3>2. CASE j # k
        <4>1. i \in 1 .. n.q[j].cc /\ BlockOf(At(n, j, i)) = b
          BY <1>0, <1>1, <3>1, <3>2
        <4> QED  BY <4>1 DEF InQueues
      <3>3. CASE j = k
        <4>0. i \in 1 .. d /\ i # 1
          BY <3>1, <3>3
        <4>1. i - 1 \in 1 .. d - 1 /\ (i - 1) + 1 = i
          BY <1>0, <4>0
        <4>2. At(n, k, i - 1) = At(m, k, i)
          BY <1>2, <4>1
        <4>3. i - 1 \in 1 .. n.q[j].cc /\ BlockOf(At(n, j, i - 1)) = b
          BY <1>0, <3>1, <3>3, <4>1, <4>2
        <4> QED  BY <4>3 DEF InQueues
      <3> QED  BY <3>2, <3>3
    <2> QED  BY <2>1, <2>2
  <1>9. Shorter(m, n, k)
    <2>1. ASSUME NEW j \in Queue \ {k}, NEW i \in 1 .. m.q[j].cc PROVE Chr(n, j, i) = Chr(m, j, i)
      <3>1. At(n, j, i) = At(m, j, i) /\ n.info[At(m, j, i)] = m.info[At(m, j, i)]
        BY <1>1, <1>i
      <3> QED  BY <3>1 DEF Chr
    <2>2. n.q[k].cc <= m.q[k].cc /\ m.q[k].cc - n.q[k].cc = 1
      BY <1>0
    <2>3. ASSUME NEW i \in 1 .. n.q[k].cc PROVE Chr(n, k, i) = Chr(m, k, i + 1)
      <3>1. At(n, k, i) = At(m, k, i + 1) /\ i + 1 \in 1 .. d /\ i + 1 # 1
        BY <1>0, <1>2, <1>s
      <3>2. n.info[At(m, k, i + 1)] = m.info[At(m, k, i + 1)]
        BY <1>i, <3>1
      <3> QED  BY <3>1, <3>2 DEF Chr
    <2> HIDE DEF d
    <2> QED  BY <1>0, <2>1, <2>2, <2>3 DEF Shorter, OthersSame
  <1> QED  BY <1>5, <1>6, <1>7, <1>8, <1>9

-----------------------------------------------------------------------------
(* putc.                                                                   *)

\* Fields make the record.
LEMMA Made ==
    ASSUME NEW free \in 0 .. NCLIST, NEW next \in [Blk -> 0 .. NCLIST], NEW info \in [Space -> Char],
           NEW q \in [Queue -> Counts]
    PROVE  Typed([free |-> free, next |-> next, info |-> info, q |-> q])
  BY DEF Typed
\* The record of the lists is its fields.
LEMMA Fields ==
    ASSUME NEW m, Typed(m)
    PROVE  m = [free |-> m.free, next |-> m.next, info |-> m.info, q |-> m.q]
  BY DEF Typed
\* A queue is set.
LEMMA SetQueue ==
    ASSUME NEW f, NEW x, NEW i, NEW q, NEW k, NEW v
    PROVE  [[free |-> f, next |-> x, info |-> i, q |-> q] EXCEPT !.q[k] = v]
           = [free |-> f, next |-> x, info |-> i, q |-> [q EXCEPT ![k] = v]]
  OBVIOUS
\* A character is set.
LEMMA SetInfo ==
    ASSUME NEW f, NEW x, NEW i, NEW q, NEW k, NEW v
    PROVE  [[free |-> f, next |-> x, info |-> i, q |-> q] EXCEPT !.info[k] = v]
           = [free |-> f, next |-> x, info |-> [i EXCEPT ![k] = v], q |-> q]
  OBVIOUS
\* A c_next is set.
LEMMA SetNext ==
    ASSUME NEW f, NEW x, NEW i, NEW q, NEW k, NEW v
    PROVE  [[free |-> f, next |-> x, info |-> i, q |-> q] EXCEPT !.next[k] = v]
           = [free |-> f, next |-> [x EXCEPT ![k] = v], info |-> i, q |-> q]
  OBVIOUS

\* How putc ends: the character is written, and the queue after that.
Write(m, k, a, c, v) == [[m EXCEPT !.info[a] = c] EXCEPT !.q[k] = v]

\* What that does to the fields.
LEMMA PutcIs ==
    ASSUME NEW f, NEW x, NEW i, NEW q, NEW k, NEW a, NEW c, NEW v
    PROVE  Write([free |-> f, next |-> x, info |-> i, q |-> q], k, a, c, v)
           = [free |-> f, next |-> x, info |-> [i EXCEPT ![a] = c], q |-> [q EXCEPT ![k] = v]]
  <1> DEFINE j == [i EXCEPT ![a] = c]
  <1>1. [[free |-> f, next |-> x, info |-> i, q |-> q] EXCEPT !.info[a] = c]
        = [free |-> f, next |-> x, info |-> j, q |-> q]
    BY SetInfo
  <1> HIDE DEF j
  <1>2. [[free |-> f, next |-> x, info |-> j, q |-> q] EXCEPT !.q[k] = v]
        = [free |-> f, next |-> x, info |-> j, q |-> [q EXCEPT ![k] = v]]
    BY SetQueue
  <1>3. [[[free |-> f, next |-> x, info |-> i, q |-> q] EXCEPT !.info[a] = c] EXCEPT !.q[k] = v]
        = [free |-> f, next |-> x, info |-> j, q |-> [q EXCEPT ![k] = v]]
    BY <1>1, <1>2, Zenon
  <1> QED  BY <1>3, Zenon DEF j, Write

\* The same of a state of the lists.
LEMMA Written ==
    ASSUME NEW m, Typed(m), NEW k, NEW a, NEW c, NEW v
    PROVE  Write(m, k, a, c, v)
           = [free |-> m.free, next |-> m.next, info |-> [m.info EXCEPT ![a] = c],
              q |-> [m.q EXCEPT ![k] = v]]
  <1> DEFINE f == m.free
             x == m.next
             i == m.info
             q == m.q
  <1>1. m = [free |-> f, next |-> x, info |-> i, q |-> q]
    BY Fields
  <1> HIDE DEF f, x, i, q
  <1>2. Write([free |-> f, next |-> x, info |-> i, q |-> q], k, a, c, v)
        = [free |-> f, next |-> x, info |-> [i EXCEPT ![a] = c], q |-> [q EXCEPT ![k] = v]]
    BY PutcIs
  <1>3. Write(m, k, a, c, v)
        = [free |-> f, next |-> x, info |-> [i EXCEPT ![a] = c], q |-> [q EXCEPT ![k] = v]]
    BY <1>1, <1>2
  <1> QED  BY <1>3, Zenon DEF f, x, i, q

\* An empty queue has no c_cl, and only that.
LEMMA EmptyOrNot ==
    ASSUME NEW m, NEW k \in Queue, Typed(m), QueueSound(m, k)
    PROVE  /\ m.q[k].cc \in Nat /\ (m.q[k].cc = 0 <=> m.q[k].cl = NULL)
           /\ m.q[k].cc > 0 => /\ At(m, k, m.q[k].cc) \in Place
                               /\ m.q[k].cl = At(m, k, m.q[k].cc) + 1
                               /\ At(m, k, 1) \in Place /\ m.q[k].cf = At(m, k, 1)
           /\ m.q[k].cc = 0 => m.q[k] = EmptyQueue
  <1> DEFINE d == m.q[k].cc
  <1>1. d \in Nat
    BY Types
  <1>2. d > 0 => d \in 1 .. d /\ 1 \in 1 .. d
    BY <1>1
  <1>3. d > 0 => At(m, k, d) \in Place /\ m.q[k].cl = At(m, k, d) + 1 /\ At(m, k, 1) \in Place
    BY <1>2 DEF QueueSound
  <1>4. d = 0 => m.q[k] = EmptyQueue
    BY DEF QueueSound
  <1>5. EmptyQueue.cl = NULL /\ NULL = 0
    BY DEF EmptyQueue, NULL
  <1>6. d > 0 => m.q[k].cf = At(m, k, 1)
    BY <1>1, <1>2, AddressSteps
  <1>7. d > 0 => At(m, k, d) \in Nat
    BY <1>3, PlaceIs
  <1> HIDE DEF d
  <1>8. d > 0 => m.q[k].cl # NULL
    BY <1>3, <1>5, <1>7
  <1>9. d = 0 <=> m.q[k].cl = NULL
    BY <1>1, <1>4, <1>5, <1>8
  <1> QED  BY <1>1, <1>3, <1>4, <1>6, <1>9 DEF d

\* There is room in the last block.
LEMMA PutcInBlock ==
    ASSUME NEW m, Sound(m), NEW k \in Queue, NEW c \in Char, ~ NeedsBlock(m.q[k])
    PROVE  Sound(putc(m, k, c)) /\ Appended(m, putc(m, k, c), k, c) /\ putc(m, k, c).free = m.free
  <1> DEFINE p == m.q[k].cl
             d == m.q[k].cc
             info == [m.info EXCEPT ![p] = c]
             q == [m.q EXCEPT ![k] = [cc |-> d + 1, cf |-> m.q[k].cf, cl |-> p + 1]]
             n == [free |-> m.free, next |-> m.next, info |-> info, q |-> q]
  <1>0. Typed(m) /\ Apart(m) /\ (\A j \in Queue : QueueSound(m, j)) /\ QueueSound(m, k)
    BY DEF Sound
  <1>t. /\ m.free \in 0 .. NCLIST /\ m.next \in [Blk -> 0 .. NCLIST]
        /\ m.info \in [Space -> Char] /\ m.q \in [Queue -> Counts]
        /\ m.q[k] \in Counts /\ d \in Nat /\ m.q[k].cf \in Nat /\ p \in Nat
    BY <1>0, Types
  <1>1. putc(m, k, c) = n
    <2> DEFINE v == [cc |-> m.q[k].cc + 1, cf |-> m.q[k].cf, cl |-> m.q[k].cl + 1]
    <2>1. putc(m, k, c) = Write(m, k, m.q[k].cl, c, v)
      BY DEF putc, Write, Refused
    <2>2. n = [free |-> m.free, next |-> m.next, info |-> [m.info EXCEPT ![m.q[k].cl] = c],
               q |-> [m.q EXCEPT ![k] = v]]
      OBVIOUS
    <2> HIDE DEF v, n
    <2> QED  BY <1>0, <2>1, <2>2, Written
  <1>2. d > 0 /\ At(m, k, d) \in Place /\ p = At(m, k, d) + 1
    <2>1. p # NULL
      BY DEF NeedsBlock
    <2>2. d \in Nat /\ (d = 0 <=> p = NULL)
          /\ (d > 0 => At(m, k, d) \in Place /\ p = At(m, k, d) + 1)
      BY <1>0, EmptyOrNot
    <2> HIDE DEF d, p
    <2> QED  BY <2>1, <2>2
  <1>3. p \in Place /\ BlockOf(p) = BlockOf(At(m, k, d))
    <2>1. ~ AtEnd(p)
      BY DEF NeedsBlock
    <2>2. At(m, k, d) \in Nat /\ BlockOf(At(m, k, d)) \in Blk
      BY <1>2, PlaceIs
    <2> HIDE DEF p, d
    <2>3. BlockOf(p) = BlockOf(At(m, k, d))
      BY <1>2, <2>1, <2>2, NextAddress
    <2> QED  BY <1>t, <2>1, <2>2, <2>3, PlaceOf
  <1>4. /\ n.free = m.free /\ n.next = m.next /\ n.info = info /\ n.q = q
        /\ \A j \in Queue \ {k} : q[j] = m.q[j]
        /\ q[k].cc = d + 1 /\ q[k].cl = p + 1 /\ q[k].cf = m.q[k].cf
        /\ \A a \in Space \ {p} : info[a] = m.info[a]
        /\ info[p] = c /\ info \in [Space -> Char]
    BY <1>t, <1>3, PlaceIs
  <1>5. q \in [Queue -> Counts]
    <2>1. [cc |-> d + 1, cf |-> m.q[k].cf, cl |-> p + 1] \in Counts
      BY <1>t DEF Counts
    <2> QED  BY <1>t, <2>1
  <1>6. Typed(n)
    BY <1>4, <1>5, <1>t, Made
  <1> HIDE DEF info, q, n
  <1>7. \A a : Follows(n, a) = Follows(m, a)
    BY <1>4 DEF Follows
  <1>8. /\ \A j \in Queue \ {k} : n.q[j] = m.q[j]
        /\ n.q[k].cc = m.q[k].cc + 1 /\ n.q[k].cl = p + 1
        /\ n.q[k].cf = IF m.q[k].cc = 0 THEN p ELSE m.q[k].cf
        /\ \A a \in Space \ {p} : n.info[a] = m.info[a]
        /\ n.info[p] = c
        /\ \A j \in Queue : \A i \in 1 .. m.q[j].cc :
             i < m.q[j].cc => Follows(n, At(m, j, i)) = Follows(m, At(m, j, i))
    BY <1>2, <1>4, <1>7
  <1>9. Follows(n, At(m, k, d)) = p
    <2>1. Follows(m, At(m, k, d)) = At(m, k, d) + 1
      BY <1>2, <1>3, PlaceIs DEF Follows
    <2> QED  BY <1>2, <1>7, <2>1
  <1>10. /\ Apart(n) /\ \A j \in Queue : QueueSound(n, j)
         /\ \A b : InQueues(n, b) <=> (InQueues(m, b) \/ b = BlockOf(p))
         /\ Appended(m, n, k, c)
    BY <1>0, <1>2, <1>3, <1>6, <1>8, <1>9, Added
  <1>11. \A b : InQueues(n, b) <=> InQueues(m, b)
    <2>1. InQueues(m, BlockOf(p))
      <3>1. d \in 1 .. d
        BY <1>t, <1>2
      <3> QED  BY <1>3, <3>1 DEF InQueues
    <2> QED  BY <1>10, <2>1
  <1>12. \E s : FreeAre(n, s) /\ Covers(n, s)
    <2>1. PICK s : FreeAre(m, s) /\ Covers(m, s)
      BY DEF Sound
    <2>2. FreeAre(n, s)
      BY <1>4, <2>1 DEF FreeAre
    <2>3. Covers(n, s)
      BY <1>11, <2>1 DEF Covers
    <2> QED  BY <2>2, <2>3
  <1> QED  BY <1>1, <1>4, <1>6, <1>10, <1>12 DEF Sound

\* The queue has a new block, and so has the block that was its last.
LEMMA ExtendedIs ==
    ASSUME NEW m, Typed(m), NEW k \in Queue, m.free \in Blk
    PROVE  /\ m.q[k].cl = NULL => Extended(m, k) =
                [free |-> m.next[m.free], next |-> [m.next EXCEPT ![m.free] = NULL], info |-> m.info,
                 q |-> [m.q EXCEPT ![k] = [cc |-> m.q[k].cc, cf |-> Info(m.free), cl |-> Info(m.free)]]]
           /\ m.q[k].cl # NULL => Extended(m, k) =
                [free |-> m.next[m.free],
                 next |-> [[m.next EXCEPT ![m.free] = NULL] EXCEPT ![BlockOf(m.q[k].cl) - 1] = m.free],
                 info |-> m.info,
                 q |-> [m.q EXCEPT ![k] = [cc |-> m.q[k].cc, cf |-> m.q[k].cf, cl |-> Info(m.free)]]]
  <1> DEFINE b == m.free
             f == m.next[b]
             x == [m.next EXCEPT ![b] = NULL]
             i == m.info
             q == m.q
             p == Info(b)
             z == BlockOf(q[k].cl) - 1
             v == [cc |-> q[k].cc, cf |-> q[k].cf, cl |-> p]
             u == [cc |-> q[k].cc, cf |-> p, cl |-> p]
             n == [free |-> f, next |-> x, info |-> i, q |-> [q EXCEPT ![k] = v]]
  <1>1. q \in [Queue -> Counts] /\ q[k] \in Counts
    BY Types
  <1>2. [q[k] EXCEPT !.cl = p] = v /\ [v EXCEPT !.cf = p] = u
    BY <1>1 DEF Counts
  <1>3. NewBlock(m) = [free |-> f, next |-> x, info |-> i, q |-> q]
    BY DEF NewBlock
  <1>4. [NewBlock(m) EXCEPT !.q[k] = [@ EXCEPT !.cl = p]]
        = [[free |-> f, next |-> x, info |-> i, q |-> q] EXCEPT !.q[k] = v]
    BY <1>2, <1>3
  <1>5. [[free |-> f, next |-> x, info |-> i, q |-> q] EXCEPT !.q[k] = v] = n
    BY SetQueue
  <1>6. q[k].cl = NULL => Extended(m, k) = [n EXCEPT !.q[k] = [@ EXCEPT !.cf = p]]
    BY <1>4, <1>5 DEF Extended
  <1>7. q[k].cl # NULL => Extended(m, k) = [n EXCEPT !.next[z] = b]
    BY <1>4, <1>5 DEF Extended
  <1>8. [n EXCEPT !.q[k] = [@ EXCEPT !.cf = p]]
        = [free |-> f, next |-> x, info |-> i, q |-> [q EXCEPT ![k] = u]]
    BY <1>1, <1>2
  <1>9. [n EXCEPT !.next[z] = b]
        = [free |-> f, next |-> [x EXCEPT ![z] = b], info |-> i, q |-> [q EXCEPT ![k] = v]]
    BY SetNext
  <1> QED  BY <1>6, <1>7, <1>8, <1>9

\* What putc makes of the lists when it takes a new block.
LEMMA PutcInNewIs ==
    ASSUME NEW m, Typed(m), NEW k \in Queue, NEW c \in Char, NeedsBlock(m.q[k]), m.free \in Blk,
           m.q[k].cl # NULL => BlockOf(m.q[k].cl) - 1 \in Blk,
           NEW n, n = putc(m, k, c)
    PROVE  /\ n.free = m.next[m.free]
           /\ n.info = [m.info EXCEPT ![Info(m.free)] = c]
           /\ n.q = [m.q EXCEPT ![k] = [cc |-> m.q[k].cc + 1, cl |-> Info(m.free) + 1,
                                        cf |-> IF m.q[k].cl = NULL THEN Info(m.free) ELSE m.q[k].cf]]
           /\ n.next = IF m.q[k].cl = NULL THEN [m.next EXCEPT ![m.free] = NULL]
                       ELSE [[m.next EXCEPT ![m.free] = NULL] EXCEPT ![BlockOf(m.q[k].cl) - 1] = m.free]
           /\ n = [free |-> n.free, next |-> n.next, info |-> n.info, q |-> n.q]
  <1> DEFINE b == m.free
             l == m.q[k].cl
             p == Info(b)
             cf == IF l = NULL THEN p ELSE m.q[k].cf
             x == IF l = NULL THEN [m.next EXCEPT ![b] = NULL]
                  ELSE [[m.next EXCEPT ![b] = NULL] EXCEPT ![BlockOf(l) - 1] = b]
             v == [cc |-> m.q[k].cc, cf |-> cf, cl |-> p]
             w == [cc |-> m.q[k].cc + 1, cf |-> cf, cl |-> p + 1]
             q == [m.q EXCEPT ![k] = v]
             e == [free |-> m.next[b], next |-> x, info |-> m.info, q |-> q]
  <1>t. /\ b \in Blk /\ m.next \in [Blk -> 0 .. NCLIST] /\ m.info \in [Space -> Char]
        /\ m.q \in [Queue -> Counts] /\ m.q[k] \in Counts /\ m.q[k].cc \in Nat /\ m.q[k].cf \in Nat
    BY Types
  <1>0. m.free # NULL /\ NULL = 0
    BY BlockSize DEF Blk, NULL
  <1>1. Extended(m, k) = e
    BY ExtendedIs
  <1>2. e.q[k] = v /\ v.cc = m.q[k].cc /\ v.cf = cf /\ v.cl = p
    BY <1>t
  <1>3. putc(m, k, c) = Write(e, k, p, c, w)
    <2>1. putc(m, k, c) = [[e EXCEPT !.info[e.q[k].cl] = c]
            EXCEPT !.q[k] = [cc |-> e.q[k].cc + 1, cf |-> e.q[k].cf, cl |-> e.q[k].cl + 1]]
      <3> HIDE DEF e
      <3> QED  BY <1>0, <1>1 DEF putc, Refused
    <2>2. putc(m, k, c) = Write(e, k, e.q[k].cl, c, [cc |-> e.q[k].cc + 1, cf |-> e.q[k].cf, cl |-> e.q[k].cl + 1])
      <3> HIDE DEF e
      <3> QED  BY <2>1 DEF Write
    <2>3. [cc |-> e.q[k].cc + 1, cf |-> e.q[k].cf, cl |-> e.q[k].cl + 1] = w /\ e.q[k].cl = p
      BY <1>2
    <2> HIDE DEF e, w
    <2> QED  BY <2>2, <2>3
  <1>4. Write(e, k, p, c, w) = [free |-> m.next[b], next |-> x, info |-> [m.info EXCEPT ![p] = c],
                                q |-> [q EXCEPT ![k] = w]]
    <2> DEFINE f == m.next[b]
               i == m.info
    <2>1. e = [free |-> f, next |-> x, info |-> i, q |-> q]
      OBVIOUS
    <2> HIDE DEF f, i, x, q, e, w, p
    <2>2. Write([free |-> f, next |-> x, info |-> i, q |-> q], k, p, c, w)
          = [free |-> f, next |-> x, info |-> [i EXCEPT ![p] = c], q |-> [q EXCEPT ![k] = w]]
      BY PutcIs
    <2>3. Write(e, k, p, c, w) = [free |-> f, next |-> x, info |-> [i EXCEPT ![p] = c], q |-> [q EXCEPT ![k] = w]]
      BY <2>1, <2>2
    <2> QED  BY <2>3 DEF f, i
  <1>5. [q EXCEPT ![k] = w] = [m.q EXCEPT ![k] = w]
    <2> HIDE DEF w, v
    <2> QED  BY <1>t
  <1>6. putc(m, k, c) = [free |-> m.next[b], next |-> x, info |-> [m.info EXCEPT ![p] = c],
                         q |-> [m.q EXCEPT ![k] = w]]
    <2> HIDE DEF e, w, q, x, p
    <2> QED  BY <1>3, <1>4, <1>5
  <1>7. w = [cc |-> m.q[k].cc + 1, cl |-> p + 1, cf |-> cf]
    OBVIOUS
  <1> DEFINE i == [m.info EXCEPT ![p] = c]
             y == [m.q EXCEPT ![k] = w]
             g == m.next[b]
  <1>8. n = [free |-> g, next |-> x, info |-> i, q |-> y]
    BY <1>6
  <1>9. n.free = g /\ n.next = x /\ n.info = i /\ n.q = y
        /\ n = [free |-> n.free, next |-> n.next, info |-> n.info, q |-> n.q]
    <2> HIDE DEF g, x, i, y
    <2> QED  BY <1>8
  <1> QED  BY <1>7, <1>9

\* The last block is full, or there is none: the first free block is chained.
LEMMA PutcInNew ==
    ASSUME NEW m, Sound(m), NEW k \in Queue, NEW c \in Char, NeedsBlock(m.q[k]), m.free # NULL
    PROVE  /\ Sound(putc(m, k, c)) /\ Appended(m, putc(m, k, c), k, c)
           /\ ~ NeedsBlock(putc(m, k, c).q[k])
  <1> DEFINE b == m.free
             l == m.q[k].cl
             d == m.q[k].cc
             p == Info(b)
             last == At(m, k, d)
             n == putc(m, k, c)
  <1>0. Typed(m) /\ Apart(m) /\ (\A j \in Queue : QueueSound(m, j)) /\ QueueSound(m, k)
    BY DEF Sound
  <1>t. /\ m.next \in [Blk -> 0 .. NCLIST] /\ m.info \in [Space -> Char]
        /\ m.q \in [Queue -> Counts] /\ m.q[k] \in Counts /\ m.q[k].cf \in Nat
        /\ \A j \in Queue : m.q[j].cc \in Nat
    BY <1>0, Types
  <1>s. PICK s : FreeAre(m, s) /\ Covers(m, s)
    BY DEF Sound
  <1>1. s # <<>> /\ s[1] = b /\ s \in Seq(Blk) /\ b \in Blk /\ 1 \in 1 .. Len(s) /\ Len(s) \in Nat
    <2>1. s # <<>> /\ s \in Seq(Blk) /\ b = s[1]
      BY <1>s DEF FreeAre
    <2>2. 1 \in 1 .. Len(s) /\ Len(s) \in Nat
      BY <2>1
    <2>3. s[1] \in Blk
      BY <2>1, <2>2
    <2> QED  BY <2>1, <2>2, <2>3
  <1>2. ~ InQueues(m, b)
    BY <1>s, <1>1 DEF Covers
  <1>3. b \in Nat /\ NULL \in 0 .. NCLIST /\ b \in 0 .. NCLIST /\ NULL = 0
    BY <1>1, BlockSize DEF Blk, NULL
  <1>4. p \in Nat /\ BlockOf(p) = b /\ ~ AtEnd(p) /\ p \in Place
    <2>1. p \in Nat /\ BlockOf(p) = b /\ ~ AtEnd(p)
      BY <1>3, InfoIs
    <2> QED  BY <2>1, <1>1, PlaceOf
  <1>5. /\ d \in Nat /\ (d = 0 <=> l = NULL)
        /\ d > 0 => last \in Place /\ l = last + 1
    BY <1>0, EmptyOrNot
  <1>6. d > 0 => /\ AtEnd(last + 1) /\ BlockOf(l) - 1 = BlockOf(last) /\ BlockOf(last) \in Blk
                 /\ last \in Nat /\ d \in 1 .. d /\ InQueues(m, BlockOf(last)) /\ BlockOf(last) # b
    <2> SUFFICES ASSUME d > 0
                 PROVE  /\ AtEnd(last + 1) /\ BlockOf(l) - 1 = BlockOf(last) /\ BlockOf(last) \in Blk
                        /\ last \in Nat /\ d \in 1 .. d /\ InQueues(m, BlockOf(last)) /\ BlockOf(last) # b
      OBVIOUS
    <2>1. AtEnd(l) /\ l = last + 1
      BY <1>5 DEF NeedsBlock
    <2>2. last \in Nat /\ BlockOf(last) \in Blk
      BY <1>5, PlaceIs
    <2>3. d \in 1 .. d
      BY <1>5
    <2>4. InQueues(m, BlockOf(last))
      BY <2>3 DEF InQueues
    <2>5. BlockOf(l) - 1 = BlockOf(last)
      BY <2>1, <2>2, NextAddress
    <2> HIDE DEF last, l
    <2> QED  BY <2>1, <2>2, <2>3, <2>4, <2>5, <1>2
  <1>7. /\ n.free = m.next[b]
        /\ n.info = [m.info EXCEPT ![p] = c]
        /\ n.q = [m.q EXCEPT ![k] = [cc |-> d + 1, cl |-> p + 1, cf |-> IF l = NULL THEN p ELSE m.q[k].cf]]
        /\ n.next = IF l = NULL THEN [m.next EXCEPT ![b] = NULL]
                    ELSE [[m.next EXCEPT ![b] = NULL] EXCEPT ![BlockOf(l) - 1] = b]
        /\ n = [free |-> n.free, next |-> n.next, info |-> n.info, q |-> n.q]
    <2>1. l # NULL => BlockOf(l) - 1 \in Blk
      <3> HIDE DEF l, d, last
      <3> QED  BY <1>5, <1>6
    <2>2. Typed(m) /\ NeedsBlock(m.q[k]) /\ m.free \in Blk
      BY <1>0, <1>1
    <2>3. n = putc(m, k, c)
      OBVIOUS
    <2> HIDE DEF n
    <2> QED  BY <2>1, <2>2, <2>3, PutcInNewIs
  <1> HIDE DEF n
  <1>8. /\ \A j \in Queue \ {k} : n.q[j] = m.q[j]
        /\ n.q[k].cc = d + 1 /\ n.q[k].cl = p + 1
        /\ n.q[k].cf = IF d = 0 THEN p ELSE m.q[k].cf
        /\ n.q \in [Queue -> Counts]
    <2> DEFINE cf == IF l = NULL THEN p ELSE m.q[k].cf
               v == [cc |-> d + 1, cl |-> p + 1, cf |-> cf]
    <2>1. n.q = [m.q EXCEPT ![k] = v] /\ v.cc = d + 1 /\ v.cl = p + 1 /\ v.cf = cf
      BY <1>7
    <2>2. cf = IF d = 0 THEN p ELSE m.q[k].cf
      BY <1>5
    <2>3. v \in Counts
      <3>1. cf \in Nat
        <4> HIDE DEF p
        <4> QED  BY <1>4, <1>t
      <3>2. d + 1 \in Nat /\ p + 1 \in Nat
        <4> HIDE DEF p, d
        <4> QED  BY <1>4, <1>5
      <3> HIDE DEF cf, p, d
      <3> QED  BY <3>1, <3>2 DEF Counts
    <2> HIDE DEF v, cf
    <2> QED  BY <1>t, <2>1, <2>2, <2>3
  <1>9. /\ \A a \in Space \ {p} : n.info[a] = m.info[a]
        /\ n.info[p] = c /\ n.info \in [Space -> Char]
    <2> HIDE DEF p
    <2> QED  BY <1>t, <1>4, <1>7, PlaceIs
  <1>10. /\ n.next \in [Blk -> 0 .. NCLIST]
         /\ \A e \in Blk : e # b /\ (d > 0 => e # BlockOf(last)) => n.next[e] = m.next[e]
         /\ d > 0 => n.next[BlockOf(last)] = b
    <2> HIDE DEF b, d, l, last
    <2>1. CASE d = 0
      <3>1. n.next = [m.next EXCEPT ![b] = NULL]
        BY <1>5, <1>7, <2>1
      <3>2. n.next \in [Blk -> 0 .. NCLIST]
        BY <3>1, <1>t, <1>3
      <3>3. \A e \in Blk : e # b => n.next[e] = m.next[e]
        BY <3>1, <1>t
      <3>4. ~ (d > 0)
        BY <2>1
      <3> QED  BY <3>2, <3>3, <3>4
    <2>2. CASE d > 0
      <3>1. n.next = [[m.next EXCEPT ![b] = NULL] EXCEPT ![BlockOf(last)] = b]
        BY <1>5, <1>6, <1>7, <2>2
      <3> QED  BY <3>1, <1>6, <2>2, <1>t, <1>3
    <2> QED  BY <1>5, <2>1, <2>2
  <1>11. n.free \in 0 .. NCLIST
    BY <1>1, <1>7, <1>t
  <1>12. Typed(n)
    <2> DEFINE f == n.free
               x == n.next
               i == n.info
               q == n.q
    <2>1. n = [free |-> f, next |-> x, info |-> i, q |-> q]
      BY <1>7
    <2>2. f \in 0 .. NCLIST /\ x \in [Blk -> 0 .. NCLIST] /\ i \in [Space -> Char] /\ q \in [Queue -> Counts]
      BY <1>8, <1>9, <1>10, <1>11
    <2> HIDE DEF f, x, i, q
    <2> QED  BY <2>1, <2>2, Made
  <1>13. \A j \in Queue : \A i \in 1 .. m.q[j].cc :
           i < m.q[j].cc => Follows(n, At(m, j, i)) = Follows(m, At(m, j, i))
    <2> SUFFICES ASSUME NEW j \in Queue, NEW i \in 1 .. m.q[j].cc, i < m.q[j].cc,
                        AtEnd(At(m, j, i) + 1)
                 PROVE  n.next[BlockOf(At(m, j, i))] = m.next[BlockOf(At(m, j, i))]
      BY DEF Follows
    <2> DEFINE a == At(m, j, i)
    <2>1. a \in Place /\ BlockOf(a) \in Blk
      BY <1>0, PlaceIs DEF QueueSound
    <2>2. BlockOf(a) # b
      BY <1>2 DEF InQueues
    <2>3. d > 0 => BlockOf(a) # BlockOf(last)
      <3> SUFFICES ASSUME d > 0, BlockOf(a) = BlockOf(last) PROVE FALSE
        OBVIOUS
      <3>1. d \in 1 .. d
        BY <1>6
      <3>2. j = k
        BY <1>0, <3>1 DEF Apart
      <3>3. i \in 1 .. d /\ i < d
        BY <3>2
      <3>4. ~ AtEnd(At(m, k, i) + 1)
        BY <1>0, <3>1, <3>2, <3>3 DEF QueueSound
      <3> QED  BY <3>2, <3>4
    <2> QED  BY <1>10, <2>1, <2>2, <2>3
  <1>14. d > 0 => Follows(n, last) = p
    BY <1>6, <1>10 DEF Follows
  <1>15. ~ InQueues(m, BlockOf(p))
    BY <1>2, <1>4
  <1>16. /\ Apart(n) /\ \A j \in Queue : QueueSound(n, j)
         /\ \A e : InQueues(n, e) <=> (InQueues(m, e) \/ e = BlockOf(p))
         /\ Appended(m, n, k, c)
    BY <1>0, <1>4, <1>8, <1>9, <1>12, <1>13, <1>14, <1>15, Added
  <1> DEFINE t == Tail(s)
  <1>17. /\ t \in Seq(Blk) /\ Len(t) = Len(s) - 1
         /\ \A i \in 1 .. Len(t) : t[i] = s[i + 1] /\ i + 1 \in 1 .. Len(s)
         /\ (t = <<>>) <=> (Len(s) = 1)
    <2>1. t \in Seq(Blk) /\ Len(t) = Len(s) - 1
      BY <1>1
    <2>2. \A i \in 1 .. Len(t) : t[i] = s[i + 1] /\ i + 1 \in 1 .. Len(s)
      BY <1>1, <2>1
    <2>3. (t = <<>>) <=> (Len(t) = 0)
      <3> HIDE DEF t
      <3>1. t = <<>> => Len(t) = 0
        OBVIOUS
      <3>2. Len(t) = 0 => t = <<>>
        BY <2>1
      <3> QED  BY <3>1, <3>2
    <2> HIDE DEF t
    <2> QED  BY <1>1, <2>1, <2>2, <2>3
  <1>18. /\ \A i, j \in 1 .. Len(s) : s[i] = s[j] => i = j
         /\ \A i \in 1 .. Len(s) : m.next[s[i]] = IF i = Len(s) THEN NULL ELSE s[i + 1]
         /\ \A e \in Blk : (\E i \in 1 .. Len(s) : s[i] = e) <=> ~ InQueues(m, e)
    BY <1>s DEF FreeAre, Covers
  <1> HIDE DEF t
  <1>19. \A i \in 1 .. Len(t) : t[i] \in Blk /\ t[i] # b /\ n.next[t[i]] = m.next[t[i]]
    <2> SUFFICES ASSUME NEW i \in 1 .. Len(t) PROVE t[i] \in Blk /\ t[i] # b /\ n.next[t[i]] = m.next[t[i]]
      OBVIOUS
    <2>1. i + 1 \in 1 .. Len(s) /\ i + 1 # 1 /\ t[i] = s[i + 1]
      BY <1>17, <1>1
    <2>2. t[i] \in Blk
      BY <1>1, <2>1
    <2>3. t[i] # b
      BY <1>1, <1>18, <2>1
    <2>4. ~ InQueues(m, t[i])
      BY <1>18, <2>1, <2>2
    <2> QED  BY <1>6, <1>10, <2>2, <2>3, <2>4
  <1>20. FreeAre(n, t)
    <2>1. ASSUME NEW i \in 1 .. Len(t), NEW j \in 1 .. Len(t), t[i] = t[j] PROVE i = j
      <3>1. i + 1 \in 1 .. Len(s) /\ j + 1 \in 1 .. Len(s) /\ s[i + 1] = s[j + 1]
        BY <1>17, <2>1
      <3>2. i + 1 = j + 1
        BY <1>18, <3>1
      <3> QED  BY <1>1, <1>17, <3>2
    <2>a. n.free = IF 1 = Len(s) THEN NULL ELSE s[2]
      <3>1. n.free = m.next[s[1]]
        BY <1>1, <1>7
      <3>2. m.next[s[1]] = IF 1 = Len(s) THEN NULL ELSE s[1 + 1]
        BY <1>1, <1>18
      <3> QED  BY <3>1, <3>2
    <2>2. t = <<>> => n.free = NULL
      BY <1>17, <2>a
    <2>3. t # <<>> => n.free = t[1]
      <3> SUFFICES ASSUME t # <<>> PROVE n.free = t[1]
        OBVIOUS
      <3>1. Len(s) # 1 /\ 1 \in 1 .. Len(t)
        BY <1>1, <1>17
      <3>2. t[1] = s[1 + 1]
        BY <1>17, <3>1
      <3> QED  BY <2>a, <3>1, <3>2
    <2>4. \A i \in 1 .. Len(t) : n.next[t[i]] = IF i = Len(t) THEN NULL ELSE t[i + 1]
      <3> SUFFICES ASSUME NEW i \in 1 .. Len(t)
                   PROVE  n.next[t[i]] = IF i = Len(t) THEN NULL ELSE t[i + 1]
        OBVIOUS
      <3>1. i + 1 \in 1 .. Len(s) /\ t[i] = s[i + 1] /\ n.next[t[i]] = m.next[t[i]]
        BY <1>17, <1>19
      <3>2. m.next[s[i + 1]] = IF i + 1 = Len(s) THEN NULL ELSE s[i + 1 + 1]
        BY <1>18, <3>1
      <3>3. i # Len(t) => i + 1 \in 1 .. Len(t) /\ t[i + 1] = s[i + 1 + 1]
        BY <1>1, <1>17
      <3>4. i + 1 = Len(s) <=> i = Len(t)
        BY <1>1, <1>17
      <3> QED  BY <3>1, <3>2, <3>3, <3>4
    <2> QED  BY <1>17, <2>1, <2>2, <2>3, <2>4 DEF FreeAre
  <1>21. Covers(n, t)
    <2> SUFFICES ASSUME NEW e \in Blk PROVE (\E i \in 1 .. Len(t) : t[i] = e) <=> ~ InQueues(n, e)
      BY DEF Covers
    <2>1. (\E i \in 1 .. Len(t) : t[i] = e) <=> (e # b /\ \E i \in 1 .. Len(s) : s[i] = e)
      <3>1. ASSUME NEW i \in 1 .. Len(t), t[i] = e PROVE e # b /\ \E j \in 1 .. Len(s) : s[j] = e
        BY <1>17, <1>19, <3>1
      <3>2. ASSUME e # b, NEW i \in 1 .. Len(s), s[i] = e PROVE \E j \in 1 .. Len(t) : t[j] = e
        <4>1. i - 1 \in 1 .. Len(t) /\ i - 1 + 1 = i
          BY <1>1, <1>17, <3>2
        <4> QED  BY <1>17, <3>2, <4>1
      <3> QED  BY <3>1, <3>2
    <2>2. InQueues(n, e) <=> (InQueues(m, e) \/ e = b)
      BY <1>4, <1>16
    <2> QED  BY <1>18, <2>1, <2>2
  <1>22. ~ NeedsBlock(n.q[k])
    <2>1. p + 1 # NULL /\ ~ AtEnd(p + 1)
      BY <1>3, InfoIs DEF NULL
    <2> HIDE DEF p
    <2> QED  BY <1>8, <2>1 DEF NeedsBlock
  <1> QED  BY <1>12, <1>16, <1>20, <1>21, <1>22 DEF Sound, n

\* putc keeps what is sound; it adds its character at the end, or there is no
\* free block.
LEMMA PutcKeeps ==
    ASSUME NEW m, Sound(m), NEW k \in Queue, NEW c \in Char
    PROVE  /\ Sound(putc(m, k, c))
           /\ ~ Refused(m, k) => Appended(m, putc(m, k, c), k, c)
           /\ Refused(m, k) => putc(m, k, c) = m
           /\ m.free # NULL => ~ Refused(putc(m, k, c), k)
  <1>1. CASE ~ NeedsBlock(m.q[k])
    BY <1>1, PutcInBlock DEF Refused
  <1>2. CASE NeedsBlock(m.q[k]) /\ m.free # NULL
    BY <1>2, PutcInNew DEF Refused
  <1>3. CASE NeedsBlock(m.q[k]) /\ m.free = NULL
    <2>1. putc(m, k, c) = m /\ Refused(m, k)
      BY <1>3 DEF putc, Refused
    <2> QED  BY <1>3, <2>1
  <1> QED  BY <1>1, <1>2, <1>3

-----------------------------------------------------------------------------
(* getc.                                                                   *)

\* There is a first character, at c_cf; a second follows it.
LEMMA FirstIs ==
    ASSUME NEW m, Sound(m), NEW k \in Queue, m.q[k].cc > 0
    PROVE  /\ m.q[k].cf = At(m, k, 1) /\ At(m, k, 1) \in Place /\ 1 \in 1 .. m.q[k].cc
           /\ m.q[k].cc > 1 => /\ At(m, k, 2) = Follows(m, At(m, k, 1)) /\ 2 \in 1 .. m.q[k].cc
                               /\ At(m, k, 2) \in Place
  <1> DEFINE d == m.q[k].cc
  <1>1. d \in Nat /\ d > 0 /\ QueueSound(m, k) /\ Typed(m)
    BY Types DEF Sound
  <1>2. m.q[k].cf = At(m, k, 1) /\ At(m, k, 1) \in Place
    BY <1>1, EmptyOrNot
  <1>3. \A i \in 1 .. d : At(m, k, i) = IF i = 1 THEN m.q[k].cf ELSE Follows(m, At(m, k, i - 1))
    BY <1>1, AddressSteps
  <1>4. \A i \in 1 .. d : At(m, k, i) \in Place
    BY <1>1 DEF QueueSound
  <1> HIDE DEF d
  <1>5. d > 1 => 2 \in 1 .. d /\ 2 - 1 = 1 /\ 2 # 1
    BY <1>1
  <1>6. 1 \in 1 .. d
    BY <1>1
  <1>7. d > 1 => At(m, k, 2) = Follows(m, At(m, k, 1)) /\ At(m, k, 2) \in Place
    BY <1>3, <1>4, <1>5
  <1> QED  BY <1>2, <1>5, <1>6, <1>7 DEF d

\* The first character goes, and with it a block that has no other.
LEMMA GoneWithBlock ==
    ASSUME NEW m, Sound(m), NEW k \in Queue, m.q[k].cc > 0, NEW n, NEW b,
           b = BlockOf(At(m, k, 1)), ~ InLater(m, k, b), Typed(n),
           n.free = b, n.next = [m.next EXCEPT ![b] = m.free],
           \A a \in Space : BlockOf(a) # b => n.info[a] = m.info[a],
           \A j \in Queue \ {k} : n.q[j] = m.q[j],
           n.q[k].cc = m.q[k].cc - 1,
           m.q[k].cc = 1 => n.q[k] = EmptyQueue,
           m.q[k].cc > 1 => n.q[k].cf = At(m, k, 2) /\ n.q[k].cl = m.q[k].cl
    PROVE  Sound(n) /\ Shorter(m, n, k)
  <1>0. Typed(m) /\ Apart(m) /\ (\A j \in Queue : QueueSound(m, j))
    BY DEF Sound
  <1>t. m.next \in [Blk -> 0 .. NCLIST] /\ m.free \in 0 .. NCLIST
    BY <1>0, Types
  <1>1. 1 \in 1 .. m.q[k].cc /\ b \in Blk
    BY FirstIs, PlaceIs
  <1>2. \A j \in Queue : \A i \in 1 .. m.q[j].cc :
          (j # k \/ i # 1) => BlockOf(At(m, j, i)) # b /\ BlockOf(At(m, j, i)) \in Blk /\ At(m, j, i) \in Space
    BY <1>0, PlaceIs DEF InLater, QueueSound
  <1>3. \A j \in Queue : \A i \in 1 .. m.q[j].cc :
          (j # k \/ i # 1) => n.info[At(m, j, i)] = m.info[At(m, j, i)]
    BY <1>2
  <1>4. \A e \in Blk : e # b => n.next[e] = m.next[e]
    BY <1>t
  <1>5. \A j \in Queue : \A i \in 1 .. m.q[j].cc :
          (j # k \/ i # 1) /\ i < m.q[j].cc => Follows(n, At(m, j, i)) = Follows(m, At(m, j, i))
    BY <1>2, <1>4 DEF Follows
  <1>6. /\ Apart(n) /\ \A j \in Queue : QueueSound(n, j)
        /\ \A e : InQueues(n, e) <=> InLater(m, k, e)
        /\ Shorter(m, n, k)
    BY <1>0, <1>3, <1>5, Removed
  <1>7. \A e : InQueues(m, e) <=> (InLater(m, k, e) \/ e = b)
    BY <1>1 DEF InQueues, InLater
  <1>8. PICK s : FreeAre(m, s) /\ Covers(m, s)
    BY DEF Sound
  <1>9. /\ s \in Seq(Blk) /\ Len(s) \in Nat
        /\ \A i, j \in 1 .. Len(s) : s[i] = s[j] => i = j
        /\ s = <<>> => m.free = NULL
        /\ s # <<>> => m.free = s[1]
        /\ \A i \in 1 .. Len(s) : m.next[s[i]] = IF i = Len(s) THEN NULL ELSE s[i + 1]
        /\ \A e \in Blk : (\E i \in 1 .. Len(s) : s[i] = e) <=> ~ InQueues(m, e)
        /\ \A i \in 1 .. Len(s) : s[i] \in Blk
    BY <1>8 DEF FreeAre, Covers
  <1> DEFINE t == <<b>> \o s
  <1>10. /\ t \in Seq(Blk) /\ Len(t) = Len(s) + 1 /\ t[1] = b /\ t # <<>>
         /\ \A i \in 1 .. Len(s) : t[i + 1] = s[i]
         /\ \A i \in 1 .. Len(t) : i # 1 => i - 1 \in 1 .. Len(s) /\ t[i] = s[i - 1]
    <2>1. t \in Seq(Blk) /\ Len(t) = Len(s) + 1 /\ t[1] = b
      BY <1>1, <1>9
    <2>2. \A i \in 1 .. Len(s) : t[i + 1] = s[i]
      BY <1>1, <1>9
    <2>3. \A i \in 1 .. Len(t) : i # 1 => i - 1 \in 1 .. Len(s) /\ t[i] = s[i - 1]
      BY <1>1, <1>9, <2>1
    <2> HIDE DEF t
    <2>4. t # <<>>
      BY <1>9, <2>1
    <2> QED  BY <2>1, <2>2, <2>3, <2>4
  <1> HIDE DEF t
  <1>11. \A i \in 1 .. Len(s) : s[i] # b
    BY <1>1, <1>7, <1>9
  <1>12. FreeAre(n, t)
    <2>1. \A i, j \in 1 .. Len(t) : t[i] = t[j] => i = j
      <3> SUFFICES ASSUME NEW i \in 1 .. Len(t), NEW j \in 1 .. Len(t), t[i] = t[j] PROVE i = j
        OBVIOUS
      <3>1. CASE i = 1
        BY <1>10, <1>11, <3>1
      <3>2. CASE j = 1
        BY <1>10, <1>11, <3>2
      <3>3. CASE i # 1 /\ j # 1
        <4>0. i - 1 \in 1 .. Len(s) /\ j - 1 \in 1 .. Len(s) /\ s[i - 1] = s[j - 1]
          BY <1>10, <3>3
        <4>1. i - 1 = j - 1
          BY <1>9, <4>0
        <4> QED  BY <1>9, <1>10, <4>1
      <3> QED  BY <3>1, <3>2, <3>3
    <2>2. n.free = t[1]
      BY <1>10
    <2>3. ASSUME NEW i \in 1 .. Len(t) PROVE n.next[t[i]] = IF i = Len(t) THEN NULL ELSE t[i + 1]
      <3>1. CASE i = 1
        <4>1. n.next[t[i]] = m.free
          BY <1>1, <1>t, <1>10, <3>1
        <4>2. (i = Len(t)) <=> (Len(s) = 0)
          BY <1>9, <1>10, <3>1
        <4>3. (Len(s) = 0) <=> (s = <<>>)
          <5>1. s = <<>> => Len(s) = 0
            OBVIOUS
          <5>2. Len(s) = 0 => s = <<>>
            BY <1>9
          <5> QED  BY <5>1, <5>2
        <4>4. Len(s) # 0 => t[i + 1] = s[1]
          BY <1>9, <1>10, <3>1
        <4> QED  BY <1>9, <4>1, <4>2, <4>3, <4>4
      <3>2. CASE i # 1
        <4>1. i - 1 \in 1 .. Len(s) /\ t[i] = s[i - 1]
          BY <1>10, <3>2
        <4>2. n.next[t[i]] = m.next[s[i - 1]]
          BY <1>4, <1>9, <1>11, <4>1
        <4>3. m.next[s[i - 1]] = IF i - 1 = Len(s) THEN NULL ELSE s[i - 1 + 1]
          BY <1>9, <4>1
        <4>4. (i = Len(t)) <=> (i - 1 = Len(s))
          BY <1>9, <1>10
        <4>5. i # Len(t) => t[i + 1] = s[i - 1 + 1]
          <5> SUFFICES ASSUME i # Len(t) PROVE t[i + 1] = s[i - 1 + 1]
            OBVIOUS
          <5>1. i - 1 + 1 = i /\ i \in 1 .. Len(s)
            BY <1>9, <1>10, <4>1, <4>4
          <5> QED  BY <1>10, <5>1
        <4> QED  BY <4>2, <4>3, <4>4, <4>5
      <3> QED  BY <3>1, <3>2
    <2> QED  BY <1>10, <2>1, <2>2, <2>3 DEF FreeAre
  <1>13. Covers(n, t)
    <2> SUFFICES ASSUME NEW e \in Blk PROVE (\E i \in 1 .. Len(t) : t[i] = e) <=> ~ InQueues(n, e)
      BY DEF Covers
    <2>1. (\E i \in 1 .. Len(t) : t[i] = e) <=> (e = b \/ \E i \in 1 .. Len(s) : s[i] = e)
      <3>1. ASSUME NEW i \in 1 .. Len(t), t[i] = e PROVE e = b \/ \E j \in 1 .. Len(s) : s[j] = e
        BY <1>10, <3>1
      <3>2. ASSUME NEW i \in 1 .. Len(s), s[i] = e PROVE \E j \in 1 .. Len(t) : t[j] = e
        <4>1. i + 1 \in 1 .. Len(t)
          BY <1>9, <1>10, <3>2
        <4> QED  BY <1>10, <3>2, <4>1
      <3>3. 1 \in 1 .. Len(t)
        BY <1>9, <1>10
      <3> QED  BY <1>10, <3>1, <3>2, <3>3
    <2>2. InQueues(n, e) <=> InLater(m, k, e)
      BY <1>6
    <2> QED  BY <1>7, <1>9, <2>1, <2>2
  <1> QED  BY <1>6, <1>12, <1>13 DEF Sound

\* The first character goes, and there is another in its block.
LEMMA GoneInBlock ==
    ASSUME NEW m, Sound(m), NEW k \in Queue, m.q[k].cc > 1, ~ AtEnd(At(m, k, 1) + 1), NEW n, Typed(n),
           n.free = m.free, n.next = m.next, n.info = m.info,
           \A j \in Queue \ {k} : n.q[j] = m.q[j],
           n.q[k].cc = m.q[k].cc - 1, n.q[k].cf = At(m, k, 2), n.q[k].cl = m.q[k].cl
    PROVE  Sound(n) /\ Shorter(m, n, k)
  <1>0. Typed(m) /\ Apart(m) /\ (\A j \in Queue : QueueSound(m, j)) /\ m.q[k].cc \in Nat
    BY Types DEF Sound
  <1>1. /\ At(m, k, 1) \in Nat /\ 1 \in 1 .. m.q[k].cc /\ 2 \in 1 .. m.q[k].cc
        /\ At(m, k, 2) = Follows(m, At(m, k, 1)) /\ m.q[k].cc > 0 /\ m.q[k].cc # 1
    <2>1. m.q[k].cc > 0 /\ m.q[k].cc # 1
      BY <1>0
    <2> QED  BY <2>1, FirstIs, PlaceIs
  <1>2. BlockOf(At(m, k, 2)) = BlockOf(At(m, k, 1))
    <2>1. At(m, k, 2) = At(m, k, 1) + 1
      BY <1>1 DEF Follows
    <2> QED  BY <1>1, <2>1, NextAddress
  <1>3. \A a : Follows(n, a) = Follows(m, a)
    BY DEF Follows
  <1>4. /\ Apart(n) /\ \A j \in Queue : QueueSound(n, j)
        /\ \A e : InQueues(n, e) <=> InLater(m, k, e)
        /\ Shorter(m, n, k)
    BY <1>0, <1>1, <1>3, Removed
  <1>5. \A e : InQueues(m, e) <=> InLater(m, k, e)
    <2>1. InLater(m, k, BlockOf(At(m, k, 1)))
      BY <1>1, <1>2 DEF InLater
    <2>2. ASSUME NEW e PROVE InQueues(m, e) => (InLater(m, k, e) \/ e = BlockOf(At(m, k, 1)))
      BY DEF InQueues, InLater
    <2>3. ASSUME NEW e PROVE InLater(m, k, e) => InQueues(m, e)
      BY DEF InQueues, InLater
    <2> QED  BY <2>1, <2>2, <2>3
  <1>6. PICK s : FreeAre(m, s) /\ Covers(m, s)
    BY DEF Sound
  <1>7. FreeAre(n, s)
    BY <1>6 DEF FreeAre
  <1>8. Covers(n, s)
    BY <1>4, <1>5, <1>6 DEF Covers
  <1> QED  BY <1>4, <1>7, <1>8 DEF Sound

\* The first character is the last in its block.
LEMMA NoneLater ==
    ASSUME NEW m, Sound(m), NEW k \in Queue,
           m.q[k].cc = 1 \/ (m.q[k].cc > 1 /\ AtEnd(At(m, k, 1) + 1))
    PROVE  ~ InLater(m, k, BlockOf(At(m, k, 1)))
  <1>1. Apart(m) /\ QueueSound(m, k) /\ m.q[k].cc \in Nat
    BY Types DEF Sound
  <1>2. 1 \in 1 .. m.q[k].cc
    BY <1>1
  <1> SUFFICES ASSUME NEW j \in Queue, NEW i \in 1 .. m.q[j].cc, j # k \/ i # 1,
                      BlockOf(At(m, j, i)) = BlockOf(At(m, k, 1))
               PROVE  FALSE
    BY DEF InLater
  <1>3. j = k
    BY <1>1, <1>2 DEF Apart
  <1>4. i \in 1 .. m.q[k].cc /\ i # 1
    BY <1>3
  <1>5. 1 < i /\ m.q[k].cc > 1
    BY <1>1, <1>4
  <1>6. ~ AtEnd(At(m, k, 1) + 1)
    BY <1>1, <1>2, <1>3, <1>4, <1>5 DEF QueueSound
  <1> QED  BY <1>1, <1>5, <1>6

\* How getc ends when the block goes back.
Freed(m, b, k, v) == [Release(m, b) EXCEPT !.q[k] = v]

\* What getc makes of the lists when the block goes back.
LEMMA ReleaseIs ==
    ASSUME NEW m, Typed(m), NEW b \in Blk, NEW k \in Queue, NEW v \in Counts,
           NEW n, n = Freed(m, b, k, v)
    PROVE  /\ Typed(n) /\ n.free = b /\ n.next = [m.next EXCEPT ![b] = m.free]
           /\ \A a \in Space : BlockOf(a) # b => n.info[a] = m.info[a]
           /\ n.q = [m.q EXCEPT ![k] = v]
  <1> DEFINE x == [m.next EXCEPT ![b] = m.free]
             i == [a \in DOMAIN m.info |-> IF BlockOf(a) = b THEN Old ELSE m.info[a]]
             q == m.q
             z == [q EXCEPT ![k] = v]
  <1>1. /\ m.free \in 0 .. NCLIST /\ m.next \in [Blk -> 0 .. NCLIST]
        /\ m.info \in [Space -> Char] /\ q \in [Queue -> Counts]
    BY Types
  <1>2. n = [[free |-> b, next |-> x, info |-> i, q |-> q] EXCEPT !.q[k] = v]
    BY DEF Release, Freed
  <1>3. Old \in Char
    BY ClistAssumption DEF Old
  <1>4. b \in 0 .. NCLIST /\ x \in [Blk -> 0 .. NCLIST] /\ i \in [Space -> Char] /\ z \in [Queue -> Counts]
    <2>1. b \in 0 .. NCLIST
      BY BlockSize DEF Blk
    <2> QED  BY <1>1, <1>3, <2>1
  <1>5. \A a \in Space : BlockOf(a) # b => i[a] = m.info[a]
    BY <1>1
  <1> HIDE DEF x, i, q
  <1>6. n = [free |-> b, next |-> x, info |-> i, q |-> z]
    BY <1>2, SetQueue
  <1> HIDE DEF z
  <1>7. Typed(n) /\ n.free = b /\ n.next = x /\ n.info = i /\ n.q = z
    <2>1. n.free = b /\ n.next = x /\ n.info = i /\ n.q = z
      BY <1>6
    <2>2. Typed([free |-> b, next |-> x, info |-> i, q |-> z])
      BY <1>4, <1>6, Made
    <2> QED  BY <1>6, <2>1, <2>2
  <1> QED  BY <1>5, <1>7 DEF x, z, q

\* And when it stays.
LEMMA StayIs ==
    ASSUME NEW m, Typed(m), NEW k \in Queue, NEW v \in Counts, NEW n, n = [m EXCEPT !.q[k] = v]
    PROVE  /\ Typed(n) /\ n.free = m.free /\ n.next = m.next /\ n.info = m.info
           /\ n.q = [m.q EXCEPT ![k] = v]
           /\ v = m.q[k] => n = m
  <1> DEFINE f == m.free
             x == m.next
             i == m.info
             q == m.q
             z == [q EXCEPT ![k] = v]
  <1>1. /\ f \in 0 .. NCLIST /\ x \in [Blk -> 0 .. NCLIST]
        /\ i \in [Space -> Char] /\ q \in [Queue -> Counts]
    BY Types
  <1>2. m = [free |-> f, next |-> x, info |-> i, q |-> q]
    BY Fields
  <1>3. z \in [Queue -> Counts] /\ (v = q[k] => z = q)
    <2> HIDE DEF q
    <2> QED  BY <1>1
  <1>e. m.q[k] = q[k]
    OBVIOUS
  <1> HIDE DEF f, x, i, q
  <1>4. n = [[free |-> f, next |-> x, info |-> i, q |-> q] EXCEPT !.q[k] = v]
    BY <1>2
  <1>5. n = [free |-> f, next |-> x, info |-> i, q |-> z]
    BY <1>4, SetQueue
  <1> HIDE DEF z
  <1>6. Typed(n) /\ n.free = f /\ n.next = x /\ n.info = i /\ n.q = z
    <2>1. n.free = f /\ n.next = x /\ n.info = i /\ n.q = z
      BY <1>5
    <2>2. Typed([free |-> f, next |-> x, info |-> i, q |-> z])
      BY <1>1, <1>3, <1>5, Made
    <2> QED  BY <1>5, <2>1, <2>2
  <1>7. v = m.q[k] => n = m
    BY <1>2, <1>3, <1>5, <1>e
  <1> QED  BY <1>6, <1>7 DEF f, x, i, q, z

\* getc keeps what is sound, and takes at most the first character.
LEMMA GetcKeeps ==
    ASSUME NEW m, Sound(m), NEW k \in Queue
    PROVE  /\ Sound(getc(m, k)) /\ Shorter(m, getc(m, k), k)
           /\ m.q[k].cc > 0 => getc(m, k).q[k].cc = m.q[k].cc - 1
           /\ m.q[k].cc = 0 => getc(m, k) = m
  <1> DEFINE d == m.q[k].cc
             a == m.q[k].cf + 1
             n == getc(m, k)
  <1>0. /\ Typed(m) /\ d \in Nat /\ m.q \in [Queue -> Counts] /\ QueueSound(m, k) /\ m.q[k] \in Counts
        /\ \A j \in Queue : m.q[j].cc \in Nat
    BY Types DEF Sound
  <1>e. EmptyQueue \in Counts /\ EmptyQueue.cc = 0
    BY DEF EmptyQueue, Counts, NULL
  <1>f. d > 0 => /\ m.q[k].cf = At(m, k, 1) /\ At(m, k, 1) \in Place /\ At(m, k, 1) \in Nat
                 /\ BlockOf(At(m, k, 1)) \in Blk
    BY FirstIs, PlaceIs
  <1>1. CASE d = 0
    <2>1. n = [m EXCEPT !.q[k] = EmptyQueue] /\ m.q[k] = EmptyQueue
      BY <1>0, <1>1 DEF getc, QueueSound
    <2>2. n = m
      <3> HIDE DEF n, d
      <3> QED  BY <1>0, <1>e, <2>1, StayIs
    <2>3. Shorter(m, m, k)
      BY <1>0 DEF Shorter, OthersSame
    <2> QED  BY <1>1, <2>2, <2>3
  <1>2. CASE d = 1
    <2> DEFINE b == BlockOf(m.q[k].cf)
    <2>0. b = BlockOf(At(m, k, 1)) /\ b \in Blk /\ d > 0 /\ ~ InLater(m, k, b)
      BY <1>2, <1>f, NoneLater
    <2>1. n = Freed(m, b, k, EmptyQueue)
      BY <1>2 DEF getc, Freed
    <2> HIDE DEF n, b, d, a
    <2>2. /\ Typed(n) /\ n.free = b /\ n.next = [m.next EXCEPT ![b] = m.free]
          /\ \A e \in Space : BlockOf(e) # b => n.info[e] = m.info[e]
          /\ n.q = [m.q EXCEPT ![k] = EmptyQueue]
      <3>1. Typed(m) /\ EmptyQueue \in Counts /\ b \in Blk
        BY <1>0, <1>e, <2>0
      <3> QED  BY <2>1, <3>1, ReleaseIs
    <2>3. (\A j \in Queue \ {k} : n.q[j] = m.q[j]) /\ n.q[k] = EmptyQueue
      BY <1>0, <2>2
    <2>4. m.q[k].cc = 1 /\ m.q[k].cc > 0 /\ ~ (m.q[k].cc > 1) /\ n.q[k].cc = m.q[k].cc - 1
      BY <1>2, <1>e, <2>3 DEF d
    <2>5. Sound(n) /\ Shorter(m, n, k)
      BY <2>0, <2>2, <2>3, <2>4, GoneWithBlock
    <2> QED  BY <2>4, <2>5 DEF n
  <1>3. CASE d > 1 /\ AtEnd(a)
    <2> DEFINE b == BlockOf(a) - 1
               v == [cc |-> d - 1, cf |-> Info(m.next[b]), cl |-> m.q[k].cl]
    <2>a. d # 0 /\ d # 1 /\ d > 0 /\ a = At(m, k, 1) + 1
      <3>1. d # 0 /\ d # 1 /\ d > 0
        <4> HIDE DEF d
        <4> QED  BY <1>0, <1>3
      <3>2. m.q[k].cf = At(m, k, 1)
        BY <1>f, <3>1
      <3> QED  BY <1>3, <3>1, <3>2
    <2>0. b = BlockOf(At(m, k, 1)) /\ b \in Blk /\ ~ InLater(m, k, b)
      <3>1. b = BlockOf(At(m, k, 1))
        BY <1>3, <1>f, <2>a, NextAddress
      <3>2. ~ InLater(m, k, BlockOf(At(m, k, 1)))
        BY <1>3, <2>a, NoneLater
      <3> HIDE DEF b
      <3> QED  BY <3>1, <3>2, <1>f, <2>a
    <2>1. n = Freed(m, b, k, v)
      BY <1>3, <2>a DEF getc, Freed
    <2>2. At(m, k, 2) = Info(m.next[b]) /\ At(m, k, 2) \in Nat
      <3>1. At(m, k, 2) = Follows(m, At(m, k, 1)) /\ At(m, k, 2) \in Place
        BY <1>3, <2>a, FirstIs
      <3>2. AtEnd(At(m, k, 1) + 1)
        BY <1>3, <2>a
      <3>3. Follows(m, At(m, k, 1)) = Info(m.next[BlockOf(At(m, k, 1))])
        BY <3>2 DEF Follows
      <3> HIDE DEF b
      <3> QED  BY <2>0, <3>1, <3>3, PlaceIs
    <2>3. v \in Counts /\ v.cc = d - 1 /\ v.cf = At(m, k, 2) /\ v.cl = m.q[k].cl
      <3>1. d - 1 \in Nat /\ m.q[k].cl \in Nat
        <4>1. m.q[k].cl \in Nat
          BY <1>0, Types
        <4> HIDE DEF d
        <4> QED  BY <1>0, <1>3, <4>1
      <3>2. v = [cc |-> d - 1, cf |-> At(m, k, 2), cl |-> m.q[k].cl]
        BY <2>2
      <3> HIDE DEF v
      <3>3. v.cc = d - 1 /\ v.cf = At(m, k, 2) /\ v.cl = m.q[k].cl
        BY <3>2
      <3> HIDE DEF d
      <3> QED  BY <2>2, <3>1, <3>2, <3>3 DEF Counts
    <2> HIDE DEF n, b, v, d, a
    <2>4. /\ Typed(n) /\ n.free = b /\ n.next = [m.next EXCEPT ![b] = m.free]
          /\ \A e \in Space : BlockOf(e) # b => n.info[e] = m.info[e]
          /\ n.q = [m.q EXCEPT ![k] = v]
      <3>1. Typed(m) /\ b \in Blk /\ v \in Counts
        BY <1>0, <2>0, <2>3
      <3> QED  BY <2>1, <3>1, ReleaseIs
    <2>5. (\A j \in Queue \ {k} : n.q[j] = m.q[j]) /\ n.q[k] = v
      BY <1>0, <2>4
    <2>6. /\ m.q[k].cc # 1 /\ m.q[k].cc > 0 /\ n.q[k].cc = m.q[k].cc - 1
          /\ n.q[k].cf = At(m, k, 2) /\ n.q[k].cl = m.q[k].cl
      BY <2>a, <2>3, <2>5 DEF d
    <2>7. Sound(n) /\ Shorter(m, n, k)
      <3>1. /\ m.q[k].cc = 1 => n.q[k] = EmptyQueue
            /\ m.q[k].cc > 1 => n.q[k].cf = At(m, k, 2) /\ n.q[k].cl = m.q[k].cl
        BY <2>6
      <3>2. n.free = b /\ n.next = [m.next EXCEPT ![b] = m.free] /\ Typed(n)
            /\ \A e \in Space : BlockOf(e) # b => n.info[e] = m.info[e]
        BY <2>4
      <3>3. b = BlockOf(At(m, k, 1)) /\ ~ InLater(m, k, b)
        BY <2>0
      <3>4. m.q[k].cc > 0 /\ n.q[k].cc = m.q[k].cc - 1 /\ \A j \in Queue \ {k} : n.q[j] = m.q[j]
        BY <2>5, <2>6
      <3> QED  BY <3>1, <3>2, <3>3, <3>4, GoneWithBlock
    <2> QED  BY <2>6, <2>7 DEF n
  <1>4. CASE d > 1 /\ ~ AtEnd(a)
    <2> DEFINE v == [cc |-> d - 1, cf |-> a, cl |-> m.q[k].cl]
    <2>a. d # 0 /\ d # 1 /\ d > 0 /\ a = At(m, k, 1) + 1 /\ ~ AtEnd(At(m, k, 1) + 1)
      <3>1. d # 0 /\ d # 1 /\ d > 0
        <4> HIDE DEF d
        <4> QED  BY <1>0, <1>4
      <3>2. m.q[k].cf = At(m, k, 1)
        BY <1>f, <3>1
      <3> QED  BY <1>4, <3>1, <3>2
    <2>1. n = [m EXCEPT !.q[k] = v]
      BY <1>4, <2>a DEF getc
    <2>2. At(m, k, 2) = a /\ a \in Nat
      <3>1. At(m, k, 2) = Follows(m, At(m, k, 1))
        BY <1>4, <2>a, FirstIs
      <3>2. Follows(m, At(m, k, 1)) = At(m, k, 1) + 1
        BY <2>a DEF Follows
      <3> HIDE DEF a
      <3> QED  BY <1>f, <2>a, <3>1, <3>2
    <2>3. v \in Counts /\ v.cc = d - 1 /\ v.cf = a /\ v.cl = m.q[k].cl
      <3>1. d - 1 \in Nat /\ m.q[k].cl \in Nat
        <4>1. m.q[k].cl \in Nat
          BY <1>0, Types
        <4> HIDE DEF d
        <4> QED  BY <1>0, <1>4, <4>1
      <3> HIDE DEF d, a
      <3> QED  BY <2>2, <3>1 DEF Counts
    <2> HIDE DEF n, v, d, a
    <2>4. Typed(n) /\ n.free = m.free /\ n.next = m.next /\ n.info = m.info /\ n.q = [m.q EXCEPT ![k] = v]
      BY <1>0, <2>1, <2>3, StayIs
    <2>5. (\A j \in Queue \ {k} : n.q[j] = m.q[j]) /\ n.q[k] = v
      BY <1>0, <2>4
    <2>6. /\ m.q[k].cc > 1 /\ n.q[k].cc = m.q[k].cc - 1
          /\ n.q[k].cf = At(m, k, 2) /\ n.q[k].cl = m.q[k].cl
      BY <1>4, <2>2, <2>3, <2>5 DEF d
    <2>7. Sound(n) /\ Shorter(m, n, k)
      BY <2>a, <2>4, <2>5, <2>6, GoneInBlock
    <2> QED  BY <2>6, <2>7 DEF n
  <1>5. d = 0 \/ d = 1 \/ d > 1
    <2> HIDE DEF d
    <2> QED  BY <1>0
  <1> QED  BY <1>1, <1>2, <1>3, <1>4, <1>5

-----------------------------------------------------------------------------
(* Several characters.                                                     *)

\* More and still more is more.
LEMMA LongerOnce ==
    ASSUME NEW m, NEW n, NEW o, NEW k \in Queue, Typed(m), Typed(n), Typed(o),
           Longer(m, n, k), Longer(n, o, k)
    PROVE  Longer(m, o, k)
  <1>1. m.q[k].cc \in Nat /\ n.q[k].cc \in Nat /\ o.q[k].cc \in Nat
    BY Types
  <1>2. m.q[k].cc <= n.q[k].cc /\ n.q[k].cc <= o.q[k].cc
    BY DEF Longer
  <1>3. \A i \in 1 .. m.q[k].cc : i \in 1 .. n.q[k].cc
    BY <1>1, <1>2
  <1>4. \A i \in 1 .. m.q[k].cc : Chr(o, k, i) = Chr(m, k, i)
    BY <1>3 DEF Longer
  <1>5. OthersSame(m, o, k)
    BY DEF Longer, OthersSame
  <1> QED  BY <1>1, <1>2, <1>4, <1>5 DEF Longer

\* Less and still less is less.
LEMMA ShorterOnce ==
    ASSUME NEW m, NEW n, NEW o, NEW k \in Queue, Typed(m), Typed(n), Typed(o),
           Shorter(m, n, k), Shorter(n, o, k)
    PROVE  Shorter(m, o, k)
  <1> DEFINE a == m.q[k].cc
             b == n.q[k].cc
             c == o.q[k].cc
  <1>1. a \in Nat /\ b \in Nat /\ c \in Nat
    BY Types
  <1>2. b <= a /\ c <= b
    BY DEF Shorter
  <1>3. /\ \A i \in 1 .. b : Chr(n, k, i) = Chr(m, k, i + (a - b))
        /\ \A i \in 1 .. c : Chr(o, k, i) = Chr(n, k, i + (b - c))
    BY DEF Shorter
  <1>5. OthersSame(m, o, k)
    BY DEF Shorter, OthersSame
  <1> HIDE DEF a, b, c
  <1>4. ASSUME NEW i \in 1 .. c PROVE Chr(o, k, i) = Chr(m, k, i + (a - c))
    <2>1. i + (b - c) \in 1 .. b /\ (i + (b - c)) + (a - b) = i + (a - c)
      BY <1>1, <1>2
    <2>2. Chr(n, k, i + (b - c)) = Chr(m, k, (i + (b - c)) + (a - b))
      BY <1>3, <2>1
    <2> QED  BY <1>3, <2>1, <2>2
  <1>6. c <= a
    BY <1>1, <1>2
  <1> QED  BY <1>4, <1>5, <1>6 DEF Shorter, a, c

\* Nothing is both.
LEMMA SameIs ==
    ASSUME NEW m, NEW k \in Queue, Typed(m)
    PROVE  Longer(m, m, k) /\ Shorter(m, m, k)
  <1>1. \A j \in Queue : m.q[j].cc \in Nat
    BY Types
  <1> QED  BY <1>1 DEF Longer, Shorter, OthersSame

\* Of s, i characters have been offered to queue k; those of them that are not
\* in it come last, and are not in it for want of a block.
Offered(m, n, k, s, i) ==
    /\ Sound(n) /\ Longer(m, n, k)
    /\ n.q[k].cc - m.q[k].cc \in 0 .. i
    /\ \A j \in 1 .. n.q[k].cc - m.q[k].cc : Chr(n, k, m.q[k].cc + j) = s[j]
    /\ n.q[k].cc - m.q[k].cc < i => Refused(n, k)

\* One more is offered.
LEMMA OfferedOnce ==
    ASSUME NEW m, Sound(m), NEW n, NEW k \in Queue, NEW s \in Seq(Char), NEW i \in 1 .. Len(s),
           Offered(m, n, k, s, i - 1)
    PROVE  Offered(m, putc(n, k, s[i]), k, s, i)
  <1> DEFINE o == putc(n, k, s[i])
             a == m.q[k].cc
             b == n.q[k].cc
  <1>1. i \in Nat /\ i > 0 /\ a \in Nat /\ b \in Nat /\ s[i] \in Char
    BY Types DEF Offered, Sound
  <1>2. /\ Sound(n) /\ Longer(m, n, k) /\ b - a \in 0 .. i - 1
        /\ \A j \in 1 .. b - a : Chr(n, k, a + j) = s[j]
        /\ b - a < i - 1 => Refused(n, k)
    BY DEF Offered
  <1>3. CASE Refused(n, k)
    <2>1. o = n
      BY <1>1, <1>2, <1>3, PutcKeeps
    <2>2. b - a \in 0 .. i
      BY <1>1, <1>2
    <2> HIDE DEF o
    <2>3. Offered(m, n, k, s, i)
      BY <1>2, <1>3, <2>2 DEF Offered
    <2> QED  BY <2>1, <2>3 DEF o
  <1>4. CASE ~ Refused(n, k)
    <2>1. Sound(o) /\ Appended(n, o, k, s[i])
      BY <1>1, <1>2, <1>4, PutcKeeps
    <2>2. b - a = i - 1
      BY <1>1, <1>2, <1>4
    <2>3. Longer(n, o, k) /\ o.q[k].cc = b + 1 /\ Chr(o, k, b + 1) = s[i]
      BY <2>1 DEF Appended
    <2> HIDE DEF o, a, b
    <2>4. Longer(m, o, k)
      BY <1>2, <2>1, <2>3, LongerOnce DEF Sound
    <2>5. (b + 1) - a = i /\ i \in 0 .. i /\ ~ (i < i)
      BY <1>1, <2>2
    <2>6. ASSUME NEW j \in 1 .. i PROVE Chr(o, k, a + j) = s[j]
      <3>1. CASE j = i
        <4>1. a + j = b + 1
          BY <1>1, <2>2, <3>1
        <4> QED  BY <2>3, <3>1, <4>1
      <3>2. CASE j # i
        <4>1. j \in 1 .. b - a /\ a + j \in 1 .. b
          BY <1>1, <2>2, <3>2
        <4>2. Chr(o, k, a + j) = Chr(n, k, a + j)
          BY <2>3, <4>1 DEF Longer, b
        <4> QED  BY <1>2, <4>1, <4>2
      <3> QED  BY <3>1, <3>2
    <2>7. o.q[k].cc - m.q[k].cc = i
      BY <2>3, <2>5 DEF a
    <2>8. \A j \in 1 .. o.q[k].cc - m.q[k].cc : Chr(o, k, m.q[k].cc + j) = s[j]
      BY <2>6, <2>7 DEF a
    <2>9. Offered(m, o, k, s, i)
      BY <2>1, <2>4, <2>5, <2>7, <2>8 DEF Offered
    <2> QED  BY <2>9 DEF o
  <1> QED  BY <1>3, <1>4

\* Nothing has been offered yet.
LEMMA OfferedNone ==
    ASSUME NEW m, Sound(m), NEW k \in Queue, NEW s
    PROVE  Offered(m, m, k, s, 0)
  <1>1. m.q[k].cc \in Nat /\ Longer(m, m, k)
    BY Types, SameIs DEF Sound
  <1>2. m.q[k].cc - m.q[k].cc = 0
    BY <1>1
  <1> QED  BY <1>1, <1>2 DEF Offered

\* b_to_q keeps what is sound, and puts characters at the end until there is no
\* room.
LEMMA PutsKeep ==
    ASSUME NEW m, Sound(m), NEW k \in Queue, NEW s \in Seq(Char)
    PROVE  Offered(m, b_to_q(m, k, s), k, s, Len(s))
  <1> DEFINE d == Len(s)
             f == CHOOSE g : g = [i \in 0 .. d |-> IF i = 0 THEN m ELSE putc(g[i - 1], k, s[i])]
             S == {i \in 0 .. d : ~ Offered(m, f[i], k, s, i)}
  <1>1. d \in Nat
    OBVIOUS
  <1>2. b_to_q(m, k, s) = f[d]
    BY DEF b_to_q
  <1>3. f = [i \in 0 .. d |-> IF i = 0 THEN m ELSE putc(f[i - 1], k, s[i])]
    BY <1>1, PutsExist
  <1>d. d = Len(s)
    OBVIOUS
  <1> HIDE DEF f, d
  <1>4. \A i \in 0 .. d : f[i] = IF i = 0 THEN m ELSE putc(f[i - 1], k, s[i])
    BY <1>3
  <1>5. S = {}
    <2> SUFFICES ASSUME S # {} PROVE FALSE
      OBVIOUS
    <2>1. PICK e \in S : \A i \in S : e <= i
      <3>1. S \in SUBSET Nat
        BY <1>1
      <3> QED  BY <3>1, LeastOf
    <2>2. e # 0
      <3>1. 0 \in 0 .. d => f[0] = m
        BY <1>4
      <3> QED  BY <3>1, OfferedNone
    <2>3. e - 1 \in 0 .. d /\ ~ (e <= e - 1) /\ e \in 1 .. d /\ e \in 0 .. d
      BY <1>1, <2>2
    <2>4. Offered(m, f[e - 1], k, s, e - 1)
      BY <2>1, <2>3
    <2>5. f[e] = putc(f[e - 1], k, s[e])
      BY <1>4, <2>2, <2>3
    <2>6. Offered(m, f[e], k, s, e)
      BY <1>d, <2>3, <2>4, <2>5, OfferedOnce
    <2> QED  BY <2>6
  <1>6. d \in 0 .. d
    BY <1>1
  <1> QED  BY <1>2, <1>5, <1>6, <1>d

\* The first i characters of k are gone.
Fewer(m, n, k, i) == Sound(n) /\ Shorter(m, n, k) /\ n.q[k].cc = m.q[k].cc - i

\* One more goes, and it is the next.
LEMMA FewerOnce ==
    ASSUME NEW m, Sound(m), NEW n, NEW k \in Queue, NEW i \in 1 .. m.q[k].cc, Fewer(m, n, k, i - 1)
    PROVE  Fewer(m, getc(n, k), k, i) /\ FirstOf(n, k) = Chr(m, k, i)
  <1> DEFINE o == getc(n, k)
             a == m.q[k].cc
             b == n.q[k].cc
  <1>1. /\ a \in Nat /\ b \in Nat /\ i \in 1 .. a /\ b = a - (i - 1)
        /\ Sound(n) /\ Shorter(m, n, k)
    BY Types DEF Fewer, Sound
  <1>2. Sound(o) /\ Shorter(n, o, k) /\ (b > 0 => o.q[k].cc = b - 1)
    BY <1>1, GetcKeeps
  <1>3. Shorter(m, o, k)
    <2> HIDE DEF o
    <2> QED  BY <1>1, <1>2, ShorterOnce DEF Sound
  <1>4. b > 0 => n.q[k].cf = At(n, k, 1)
    BY <1>1, FirstIs
  <1>5. \A j \in 1 .. b : Chr(n, k, j) = Chr(m, k, j + (a - b))
    BY <1>1 DEF Shorter
  <1> HIDE DEF o, a, b
  <1>6. b > 0 /\ 1 \in 1 .. b /\ 1 + (a - b) = i /\ b - 1 = a - i
    BY <1>1
  <1>7. FirstOf(n, k) = Chr(m, k, i)
    <2>1. FirstOf(n, k) = Chr(n, k, 1)
      BY <1>4, <1>6 DEF FirstOf, Chr
    <2>2. Chr(n, k, 1) = Chr(m, k, 1 + (a - b))
      BY <1>5, <1>6
    <2> QED  BY <1>6, <2>1, <2>2
  <1>8. o.q[k].cc = a - i
    BY <1>2, <1>6
  <1> QED  BY <1>2, <1>3, <1>7, <1>8 DEF Fewer, o, a

\* None is gone yet.
LEMMA FewerNone ==
    ASSUME NEW m, Sound(m), NEW k \in Queue
    PROVE  Fewer(m, m, k, 0)
  <1>1. m.q[k].cc \in Nat /\ Shorter(m, m, k)
    BY Types, SameIs DEF Sound
  <1>2. m.q[k].cc - 0 = m.q[k].cc
    BY <1>1
  <1> QED  BY <1>1, <1>2 DEF Fewer

\* q_to_b keeps what is sound, and takes and copies characters from the front.
LEMMA GetsKeep ==
    ASSUME NEW m, Sound(m), NEW k \in Queue, NEW n \in Nat, NEW d, d = Least(n, m.q[k].cc)
    PROVE  /\ d \in 0 .. m.q[k].cc
           /\ Fewer(m, q_to_b(m, k, n), k, d)
           /\ Copied(m, k, n) = [i \in 1 .. d |-> Chr(m, k, i)]
  <1> DEFINE c == m.q[k].cc
             f == Taking(m, k, d)
             S == {i \in 0 .. d : ~ Fewer(m, f[i], k, i)}
  <1>1. c \in Nat /\ d \in 0 .. c /\ d \in Nat
    <2>1. c \in Nat
      BY Types DEF Sound
    <2> HIDE DEF c
    <2>2. d = Least(n, c)
      BY DEF c
    <2> QED  BY <2>1, <2>2 DEF Least
  <1>2. q_to_b(m, k, n) = f[d] /\ Copied(m, k, n) = [i \in 1 .. d |-> FirstOf(f[i - 1], k)]
    BY DEF q_to_b, Copied
  <1>3. f = [i \in 0 .. d |-> IF i = 0 THEN m ELSE getc(f[i - 1], k)]
    <2>1. \E g : Gets(g, m, k, d)
      BY <1>1, GetsExist
    <2>2. f = CHOOSE g : Gets(g, m, k, d)
      BY DEF Taking, Gets
    <2> HIDE DEF f
    <2>3. Gets(f, m, k, d)
      BY <2>1, <2>2
    <2> QED  BY <2>3 DEF Gets
  <1> HIDE DEF f
  <1>4. \A i \in 0 .. d : f[i] = IF i = 0 THEN m ELSE getc(f[i - 1], k)
    BY <1>3
  <1>m. \A i \in 1 .. d : i \in 1 .. m.q[k].cc /\ i - 1 \in 0 .. d /\ i \in 0 .. d /\ i # 0
    BY <1>1
  <1>n. m.q[k].cc = c
    OBVIOUS
  <1> HIDE DEF c
  <1>5. S = {}
    <2> SUFFICES ASSUME S # {} PROVE FALSE
      OBVIOUS
    <2>1. PICK e \in S : \A i \in S : e <= i
      <3>1. S \in SUBSET Nat
        BY <1>1
      <3> QED  BY <3>1, LeastOf
    <2>2. e # 0
      <3>1. 0 \in 0 .. d => f[0] = m
        BY <1>4
      <3> QED  BY <3>1, FewerNone
    <2>3. e - 1 \in 0 .. d /\ ~ (e <= e - 1) /\ e \in 1 .. d /\ e \in 0 .. d
      BY <1>1, <2>2
    <2>4. Fewer(m, f[e - 1], k, e - 1)
      BY <2>1, <2>3
    <2>5. f[e] = getc(f[e - 1], k)
      BY <1>4, <2>2, <2>3
    <2>6. Fewer(m, f[e], k, e)
      BY <1>m, <2>3, <2>4, <2>5, FewerOnce
    <2> QED  BY <2>6
  <1>6. d \in 0 .. d
    BY <1>1
  <1>7. ASSUME NEW i \in 1 .. d PROVE FirstOf(f[i - 1], k) = Chr(m, k, i)
    <2>1. Fewer(m, f[i - 1], k, i - 1)
      BY <1>5, <1>m
    <2> QED  BY <1>m, <2>1, FewerOnce
  <1>8. Copied(m, k, n) = [i \in 1 .. d |-> Chr(m, k, i)]
    BY <1>2, <1>7
  <1>9. Fewer(m, f[d], k, d)
    BY <1>5, <1>6
  <1> QED  BY <1>1, <1>2, <1>8, <1>9, <1>n

\* A step puts characters s into a queue k, all but a number n of them for which
\* there is no block, or takes a number n of them.
Puts(k, s, n) ==
    /\ s \in Seq(Char) /\ n \in 0 .. Len(s)
    /\ Offered(clists, clists', k, s, Len(s))
    /\ clists'.q[k].cc = clists.q[k].cc + (Len(s) - n)
    /\ n > 0 => clists'.free = NULL
Takes(k, n) == n \in 0 .. clists.q[k].cc /\ Fewer(clists, clists', k, n)

\* The first n characters.
Foremost(k, n) == [i \in 1 .. n |-> Chr(clists, k, i)]

\* A function on the numbers up to n is a sequence.
LEMMA SequenceIs ==
    ASSUME NEW n \in Nat, NEW f \in [1 .. n -> Char]
    PROVE  f \in Seq(Char) /\ Len(f) = n
  OBVIOUS

\* Of a function with values on two numbers.
LEMMA TwoIs ==
    ASSUME NEW f, f \in [1 .. 2 -> Char]
    PROVE  f \in Seq(Char) /\ Len(f) = 2 /\ f[1] \in Char /\ f[2] \in Char
  <1>1. f[1] \in Char /\ f[2] \in Char
    OBVIOUS
  <1>2. f \in Seq(Char) /\ Len(f) = 2
    <2>1. 2 \in Nat
      OBVIOUS
    <2> QED  BY <2>1, SequenceIs
  <1> QED  BY <1>1, <1>2

\* putc.
LEMMA PutCIs ==
    ASSUME Sound(clists), NEW k \in Queue, PutC(k)
    PROVE  \E s, n : Puts(k, s, n) /\ Returns("put", k, s, n)
  <1>1. PICK c \in Char : /\ clists' = putc(clists, k, c)
                          /\ Returns("put", k, <<c>>, IF Refused(clists, k) THEN 1 ELSE 0)
    BY DEF PutC
  <1> DEFINE s == <<c>>
             n == IF Refused(clists, k) THEN 1 ELSE 0
             a == clists.q[k].cc
             b == clists'.q[k].cc
  <1>2. s \in Seq(Char) /\ Len(s) = 1 /\ s[1] = c /\ n \in 0 .. 1 /\ 1 \in 1 .. Len(s)
    OBVIOUS
  <1>3. Offered(clists, clists', k, s, 1)
    <2>1. Offered(clists, clists, k, s, 1 - 1)
      BY OfferedNone
    <2>2. Offered(clists, putc(clists, k, s[1]), k, s, 1)
      <3> HIDE DEF s
      <3> QED  BY <1>2, <2>1, OfferedOnce
    <2> QED  BY <1>1, <1>2, <2>2
  <1>4. a \in Nat /\ (n = 0 => b = a + 1) /\ (n = 1 => b = a /\ clists'.free = NULL)
    <2>1. a \in Nat
      BY Types DEF Sound
    <2>2. ~ Refused(clists, k) => b = a + 1
      BY <1>1, PutcKeeps DEF Appended
    <2>3. Refused(clists, k) => clists' = clists /\ clists.free = NULL
      BY <1>1, PutcKeeps DEF Refused
    <2> QED  BY <2>1, <2>2, <2>3
  <1>5. Returns("put", k, s, n)
    BY <1>1
  <1> HIDE DEF s, n, a, b
  <1>6. b = a + (1 - n) /\ (n > 0 => clists'.free = NULL)
    BY <1>2, <1>4
  <1> QED  BY <1>2, <1>3, <1>5, <1>6 DEF Puts, a, b

\* b_to_q.
LEMMA BToQIs ==
    ASSUME Sound(clists), NEW k \in Queue, BToQ(k)
    PROVE  \E s, n : Puts(k, s, n) /\ Returns("put", k, s, n)
  <1>1. PICK z \in 1 .. MaxMove : \E s \in [1 .. z -> Char] :
          clists' = b_to_q(clists, k, s) /\ Returns("put", k, s, NotPut(clists, k, s))
    BY DEF BToQ
  <1>2. PICK s \in [1 .. z -> Char] :
          clists' = b_to_q(clists, k, s) /\ Returns("put", k, s, NotPut(clists, k, s))
    BY <1>1
  <1>3. s \in Seq(Char) /\ Len(s) \in Nat
    <2>1. z \in Nat
      BY ClistAssumption
    <2> QED  BY <2>1
  <1> DEFINE n == NotPut(clists, k, s)
             a == clists.q[k].cc
             b == clists'.q[k].cc
  <1>4. Offered(clists, clists', k, s, Len(s))
    BY <1>2, <1>3, PutsKeep
  <1>5. n = Len(s) - (b - a) /\ a \in Nat /\ b \in Nat
    <2>1. Sound(clists')
      BY <1>4 DEF Offered
    <2>2. a \in Nat /\ b \in Nat
      BY <2>1, Types DEF Sound
    <2> QED  BY <1>2, <2>2 DEF NotPut
  <1>6. b - a \in 0 .. Len(s) /\ (b - a < Len(s) => clists'.free = NULL)
    BY <1>4 DEF Offered, Refused
  <1>7. Returns("put", k, s, n)
    BY <1>2
  <1> HIDE DEF n, a, b
  <1>8. n \in 0 .. Len(s) /\ b = a + (Len(s) - n) /\ (n > 0 => clists'.free = NULL)
    BY <1>3, <1>5, <1>6
  <1> QED  BY <1>3, <1>4, <1>7, <1>8 DEF Puts, a, b

\* putw: if there is a block there is room for both.
LEMMA PutWIs ==
    ASSUME Sound(clists), NEW k \in Queue, PutW(k)
    PROVE  \E s : /\ Len(s) = 2
                  /\ \/ Puts(k, s, 0) /\ Returns("putw", k, s, 0)
                     \/ /\ clists.free = NULL /\ clists' = clists /\ s \in Seq(Char)
                        /\ Returns("putw", k, s, 2)
  <1>1. PICK s \in [1 .. 2 -> Char] : /\ clists' = putw(clists, k, s)
                                      /\ Returns("putw", k, s, IF clists.free = NULL THEN 2 ELSE 0)
    BY DEF PutW
  <1>2. s \in Seq(Char) /\ Len(s) = 2 /\ s[1] \in Char /\ s[2] \in Char
    BY TwoIs
  <1>3. CASE clists.free = NULL
    BY <1>1, <1>2, <1>3 DEF putw
  <1>4. CASE clists.free # NULL
    <2> DEFINE n == putc(clists, k, s[1])
               o == putc(n, k, s[2])
    <2>1. clists' = o /\ Returns("putw", k, s, 0)
      BY <1>1, <1>4 DEF putw
    <2>2. /\ ~ Refused(clists, k)
          /\ Sound(n) /\ Appended(clists, n, k, s[1]) /\ ~ Refused(n, k)
      <3>1. ~ Refused(clists, k)
        BY <1>4 DEF Refused
      <3> QED  BY <1>2, <1>4, <3>1, PutcKeeps
    <2>3. Sound(o) /\ Appended(n, o, k, s[2])
      <3> HIDE DEF n
      <3> QED  BY <1>2, <2>2, PutcKeeps
    <2>4. Offered(clists, o, k, s, 2)
      <3>1. 1 \in 1 .. Len(s) /\ 2 \in 1 .. Len(s) /\ 1 - 1 = 0 /\ 2 - 1 = 1
        BY <1>2
      <3>2. Offered(clists, clists, k, s, 0)
        BY OfferedNone
      <3>3. Offered(clists, n, k, s, 1)
        BY <1>2, <3>1, <3>2, OfferedOnce
      <3> HIDE DEF n
      <3> QED  BY <1>2, <3>1, <3>3, OfferedOnce
    <2>5. o.q[k].cc = clists.q[k].cc + (2 - 0)
      <3>1. n.q[k].cc = clists.q[k].cc + 1 /\ o.q[k].cc = n.q[k].cc + 1 /\ clists.q[k].cc \in Nat
        BY <2>2, <2>3, Types DEF Appended, Sound
      <3> HIDE DEF n, o
      <3> QED  BY <3>1
    <2> HIDE DEF n, o
    <2>6. Puts(k, s, 0)
      <3>1. 0 \in 0 .. 2 /\ ~ (0 > 0)
        OBVIOUS
      <3> QED  BY <1>2, <2>1, <2>4, <2>5, <3>1 DEF Puts
    <2> QED  BY <1>2, <2>1, <2>6
  <1> QED  BY <1>3, <1>4

\* getc.
LEMMA GetCIs ==
    ASSUME Sound(clists), NEW k \in Queue, GetC(k)
    PROVE  \E n : /\ n = Least(1, clists.q[k].cc) /\ Takes(k, n)
                  /\ Returns("take", k, Foremost(k, n), 1)
  <1> DEFINE a == clists.q[k].cc
  <1>1. a \in Nat /\ clists' = getc(clists, k) /\ Fewer(clists, clists, k, 0)
    BY FewerNone, Types DEF GetC, Sound
  <1>2. Returns("take", k, IF a = 0 THEN <<>> ELSE <<FirstOf(clists, k)>>, 1)
    BY DEF GetC
  <1>3. CASE a = 0
    <2>1. clists' = clists
      BY <1>1, <1>3, GetcKeeps
    <2>2. Least(1, a) = 0 /\ 0 \in 0 .. a
      BY <1>3 DEF Least
    <2>3. Foremost(k, 0) = <<>>
      BY DEF Foremost
    <2>4. Takes(k, 0) /\ Returns("take", k, Foremost(k, 0), 1)
      BY <1>1, <1>2, <1>3, <2>1, <2>2, <2>3 DEF Takes
    <2> QED  BY <2>2, <2>4
  <1>4. CASE a # 0
    <2>1. Least(1, a) = 1 /\ 1 \in 0 .. a /\ 1 \in 1 .. a /\ 1 - 1 = 0
      BY <1>1, <1>4 DEF Least
    <2>2. Fewer(clists, clists', k, 1) /\ FirstOf(clists, k) = Chr(clists, k, 1)
      BY <1>1, <2>1, FewerOnce
    <2>3. Foremost(k, 1) = <<Chr(clists, k, 1)>>
      BY DEF Foremost
    <2>4. Takes(k, 1) /\ Returns("take", k, Foremost(k, 1), 1)
      BY <1>2, <1>4, <2>1, <2>2, <2>3 DEF Takes
    <2> QED  BY <2>1, <2>4
  <1> QED  BY <1>3, <1>4

\* q_to_b.
LEMMA QToBIs ==
    ASSUME Sound(clists), NEW k \in Queue, QToB(k)
    PROVE  \E z \in Nat : \E n : /\ n = Least(z, clists.q[k].cc) /\ Takes(k, n)
                                 /\ Returns("take", k, Foremost(k, n), z)
  <1>1. PICK z \in 1 .. MaxMove :
          clists' = q_to_b(clists, k, z) /\ Returns("take", k, Copied(clists, k, z), z)
    BY DEF QToB
  <1>2. z \in Nat
    BY ClistAssumption
  <1>3. PICK n : n = Least(z, clists.q[k].cc)
    OBVIOUS
  <1>4. /\ n \in 0 .. clists.q[k].cc
        /\ Fewer(clists, q_to_b(clists, k, z), k, n)
        /\ Copied(clists, k, z) = [i \in 1 .. n |-> Chr(clists, k, i)]
    BY <1>2, <1>3, GetsKeep
  <1>5. Takes(k, n) /\ Returns("take", k, Foremost(k, n), z)
    BY <1>1, <1>4 DEF Takes, Foremost
  <1> QED  BY <1>2, <1>3, <1>5

\* getw.
LEMMA GetWIs ==
    ASSUME Sound(clists), NEW k \in Queue, GetW(k)
    PROVE  \E n : /\ n = IF clists.q[k].cc < 2 THEN 0 ELSE 2
                  /\ Takes(k, n) /\ Returns("getw", k, Foremost(k, n), 2)
  <1> DEFINE a == clists.q[k].cc
  <1>1. a \in Nat /\ Fewer(clists, clists, k, 0)
    BY FewerNone, Types DEF Sound
  <1>2. CASE a <= 1
    <2>1. clists' = clists /\ Returns("getw", k, <<>>, 2)
      <3>1. ~ (a > 1)
        <4> HIDE DEF a
        <4> QED  BY <1>1, <1>2
      <3> QED  BY <3>1 DEF GetW
    <2>2. Foremost(k, 0) = <<>>
      BY DEF Foremost
    <2>3. a < 2 /\ 0 \in 0 .. a
      <3> HIDE DEF a
      <3> QED  BY <1>1, <1>2
    <2>4. Takes(k, 0) /\ Returns("getw", k, Foremost(k, 0), 2)
      BY <1>1, <2>1, <2>2, <2>3 DEF Takes
    <2> QED  BY <2>3, <2>4
  <1>3. CASE a > 1
    <2> DEFINE n == getc(clists, k)
               o == getc(n, k)
    <2>1. clists' = o /\ Returns("getw", k, <<FirstOf(clists, k), FirstOf(n, k)>>, 2)
      <3>1. ~ (a <= 1)
        <4> HIDE DEF a
        <4> QED  BY <1>1, <1>3
      <3> QED  BY <3>1 DEF GetW
    <2>2. 1 \in 1 .. a /\ 2 \in 1 .. a /\ 1 - 1 = 0 /\ 2 - 1 = 1 /\ ~ (a < 2) /\ 2 \in 0 .. a
      <3> HIDE DEF a
      <3> QED  BY <1>1, <1>3
    <2>3. Fewer(clists, n, k, 1) /\ FirstOf(clists, k) = Chr(clists, k, 1)
      BY <1>1, <2>2, FewerOnce
    <2>4. Fewer(clists, o, k, 2) /\ FirstOf(n, k) = Chr(clists, k, 2)
      <3> HIDE DEF n
      <3> QED  BY <2>2, <2>3, FewerOnce
    <2>5. Foremost(k, 2) = <<Chr(clists, k, 1), Chr(clists, k, 2)>>
      BY DEF Foremost
    <2>6. Takes(k, 2) /\ Returns("getw", k, Foremost(k, 2), 2)
      <3> HIDE DEF n, o
      <3> QED  BY <2>1, <2>2, <2>3, <2>4, <2>5 DEF Takes
    <2> QED  BY <2>2, <2>6
  <1>4. a <= 1 \/ a > 1
    <2> HIDE DEF a
    <2> QED  BY <1>1
  <1> QED  BY <1>2, <1>3, <1>4

\* Every step keeps what is sound.
LEMMA StepKeeps ==
    ASSUME Sound(clists), ClistNext
    PROVE  Sound(clists')
  <1>1. PICK k \in Queue : PutC(k) \/ GetC(k) \/ BToQ(k) \/ QToB(k) \/ PutW(k) \/ GetW(k)
    BY DEF ClistNext
  <1>2. \A s, n : Puts(k, s, n) => Sound(clists')
    BY DEF Puts, Offered
  <1>3. \A n : Takes(k, n) => Sound(clists')
    BY DEF Takes, Fewer
  <1>4. CASE PutC(k)
    BY <1>2, <1>4, PutCIs
  <1>5. CASE BToQ(k)
    BY <1>2, <1>5, BToQIs
  <1>6. CASE PutW(k)
    BY <1>2, <1>6, PutWIs
  <1>7. CASE GetC(k)
    BY <1>3, <1>7, GetCIs
  <1>8. CASE QToB(k)
    BY <1>3, <1>8, QToBIs
  <1>9. CASE GetW(k)
    BY <1>3, <1>9, GetWIs
  <1> QED  BY <1>1, <1>4, <1>5, <1>6, <1>7, <1>8, <1>9

-----------------------------------------------------------------------------
(* Every block is in one place.                                            *)

\* cinit: all blocks are in the free list, the last one first.
LEMMA InitSound == ClistInit => Sound(clists)
  <1> SUFFICES ASSUME ClistInit PROVE Sound(clists)
    OBVIOUS
  <1> DEFINE next == [b \in Blk |-> b - 1]
             info == [a \in Space |-> Old]
             q == [k \in Queue |-> EmptyQueue]
             m == clists
             s == [i \in 1 .. NCLIST |-> NCLIST + 1 - i]
  <1>0. NCLIST \in Nat /\ NCLIST > 0 /\ Old \in Char /\ EmptyQueue \in Counts /\ EmptyQueue.cc = 0 /\ NULL = 0
    BY ClistAssumption DEF Old, EmptyQueue, Counts, NULL
  <1>1. m = [free |-> NCLIST, next |-> next, info |-> info, q |-> q]
    BY DEF ClistInit, Blk, Space
  <1>2. NCLIST \in 0 .. NCLIST /\ next \in [Blk -> 0 .. NCLIST] /\ info \in [Space -> Char] /\ q \in [Queue -> Counts]
    BY <1>0 DEF Blk
  <1>3. Typed(m)
    <2> HIDE DEF next, info, q, m
    <2> QED  BY <1>1, <1>2, Made
  <1>4. \A k \in Queue : m.q[k] = EmptyQueue
    BY <1>1
  <1>5. m.free = NCLIST /\ \A b \in Blk : m.next[b] = b - 1
    BY <1>1
  <1> HIDE DEF m
  <1>6. Apart(m) /\ (\A k \in Queue : QueueSound(m, k)) /\ \A b : ~ InQueues(m, b)
    <2>1. \A k \in Queue : m.q[k].cc = 0 /\ ~ (m.q[k].cc > 0) /\ 1 .. m.q[k].cc = {}
      BY <1>0, <1>4
    <2> QED  BY <1>4, <2>1 DEF Apart, QueueSound, InQueues
  <1>7. /\ s \in Seq(Blk) /\ Len(s) = NCLIST /\ s # <<>>
        /\ \A i \in 1 .. NCLIST : s[i] = NCLIST + 1 - i /\ s[i] \in Blk
    <2>1. s \in [1 .. NCLIST -> Blk]
      BY <1>0 DEF Blk
    <2>2. s \in Seq(Blk) /\ Len(s) = NCLIST
      BY <1>0, <2>1
    <2>3. s # <<>>
      <3> HIDE DEF s
      <3> QED  BY <1>0, <2>2
    <2> QED  BY <1>0, <2>1, <2>2, <2>3
  <1> HIDE DEF s
  <1>8. FreeAre(m, s)
    <2>1. \A i, j \in 1 .. Len(s) : s[i] = s[j] => i = j
      BY <1>0, <1>7
    <2>2. m.free = s[1]
      BY <1>0, <1>5, <1>7
    <2>3. \A i \in 1 .. Len(s) : m.next[s[i]] = IF i = Len(s) THEN NULL ELSE s[i + 1]
      BY <1>0, <1>5, <1>7
    <2> QED  BY <1>7, <2>1, <2>2, <2>3 DEF FreeAre
  <1>9. Covers(m, s)
    <2> SUFFICES ASSUME NEW b \in Blk PROVE \E i \in 1 .. Len(s) : s[i] = b
      BY <1>6 DEF Covers
    <2>1. NCLIST + 1 - b \in 1 .. NCLIST /\ NCLIST + 1 - (NCLIST + 1 - b) = b
      BY <1>0 DEF Blk
    <2> QED  BY <1>7, <2>1
  <1> QED  BY <1>3, <1>6, <1>8, <1>9 DEF Sound, m

\* The characters of a queue have addresses of their own.
LEMMA AddressesDiffer ==
    ASSUME NEW m, Sound(m), NEW k \in Queue
    PROVE  \A i, j \in 1 .. m.q[k].cc : At(m, k, i) = At(m, k, j) => i = j
  <1>1. QueueSound(m, k) /\ m.q[k].cc \in Nat
    BY Types DEF Sound
  <1> SUFFICES ASSUME NEW i \in 1 .. m.q[k].cc, NEW j \in 1 .. m.q[k].cc, At(m, k, i) = At(m, k, j), i # j
               PROVE  FALSE
    OBVIOUS
  <1>2. At(m, k, i) \in Nat
    BY <1>1, PlaceIs DEF QueueSound
  <1>3. i < j \/ j < i
    BY <1>1
  <1>4. ~ (At(m, k, i) < At(m, k, j)) /\ ~ (At(m, k, j) < At(m, k, i))
    BY <1>2
  <1> QED  BY <1>1, <1>3, <1>4 DEF QueueSound

\* How many numbers there are up to n.
LEMMA Interval ==
    ASSUME NEW n \in Nat
    PROVE  IsFiniteSet(1 .. n) /\ Cardinality(1 .. n) = n
  <1>1. IsFiniteSet(1 .. n) /\ Cardinality(1 .. n) = IF 1 > n THEN 0 ELSE n - 1 + 1
    <2>1. 1 \in Int /\ n \in Int
      OBVIOUS
    <2> QED  BY <2>1, FS_Interval
  <1> QED  BY <1>1

\* The characters of a queue fit into the blocks.
LEMMA CountBound ==
    ASSUME NEW m, Sound(m), NEW k \in Queue
    PROVE  m.q[k].cc \in 0 .. NCLIST * CBSIZE
  <1> DEFINE d == m.q[k].cc
             T == Blk \X (1 .. CBSIZE)
             f == [i \in 1 .. d |-> <<BlockOf(At(m, k, i)), Rest(At(m, k, i))>>]
             top == NCLIST * CBSIZE
  <1>1. d \in Nat /\ QueueSound(m, k) /\ NCLIST \in Nat /\ CBSIZE \in Nat /\ CBLOCK = CBSIZE + 1
    BY Types, BlockSize DEF Sound
  <1>2. top \in Nat
    BY <1>1, Products
  <1>3. IsFiniteSet(T) /\ Cardinality(T) = top
    <2>1. /\ IsFiniteSet(1 .. NCLIST) /\ Cardinality(1 .. NCLIST) = NCLIST
          /\ IsFiniteSet(1 .. CBSIZE) /\ Cardinality(1 .. CBSIZE) = CBSIZE
      BY <1>1, Interval
    <2>2. IsFiniteSet(T) /\ Cardinality(T) = Cardinality(1 .. NCLIST) * Cardinality(1 .. CBSIZE)
      BY <2>1, FS_Product DEF Blk
    <2> HIDE DEF T
    <2> QED  BY <2>1, <2>2
  <1>4. IsFiniteSet(1 .. d) /\ Cardinality(1 .. d) = d
    BY <1>1, Interval
  <1>5. \A i \in 1 .. d : /\ At(m, k, i) \in Nat /\ BlockOf(At(m, k, i)) \in Blk
                          /\ Rest(At(m, k, i)) \in 1 .. CBSIZE
                          /\ Base(BlockOf(At(m, k, i))) + Rest(At(m, k, i)) = At(m, k, i)
    <2> SUFFICES ASSUME NEW i \in 1 .. d
                 PROVE  /\ At(m, k, i) \in Nat /\ BlockOf(At(m, k, i)) \in Blk
                        /\ Rest(At(m, k, i)) \in 1 .. CBSIZE
                        /\ Base(BlockOf(At(m, k, i))) + Rest(At(m, k, i)) = At(m, k, i)
      OBVIOUS
    <2>1. At(m, k, i) \in Nat /\ BlockOf(At(m, k, i)) \in Blk /\ ~ AtEnd(At(m, k, i))
      BY <1>1, PlaceIs DEF QueueSound
    <2>2. /\ Rest(At(m, k, i)) \in 0 .. CBLOCK - 1 /\ Rest(At(m, k, i)) # 0
          /\ Base(BlockOf(At(m, k, i))) + Rest(At(m, k, i)) = At(m, k, i)
      BY <2>1, AddressIs
    <2> QED  BY <1>1, <2>1, <2>2
  <1>6. f \in [1 .. d -> T]
    BY <1>5
  <1>7. \A i, j \in 1 .. d : f[i] = f[j] => i = j
    <2> SUFFICES ASSUME NEW i \in 1 .. d, NEW j \in 1 .. d, f[i] = f[j] PROVE i = j
      OBVIOUS
    <2>1. BlockOf(At(m, k, i)) = BlockOf(At(m, k, j)) /\ Rest(At(m, k, i)) = Rest(At(m, k, j))
      OBVIOUS
    <2>2. At(m, k, i) = At(m, k, j)
      BY <1>5, <2>1
    <2> QED  BY <2>2, AddressesDiffer
  <1> HIDE DEF f, T, d, top
  <1>8. ASSUME top < d PROVE FALSE
    <2>1. Cardinality(T) < Cardinality(1 .. d) /\ IsFiniteSet(T) /\ IsFiniteSet(1 .. d)
      BY <1>3, <1>4, <1>8
    <2>2. \E x, y \in 1 .. d : x # y /\ f[x] = f[y]
      BY <1>6, <2>1, FS_PigeonHole
    <2> QED  BY <1>7, <2>2
  <1>9. d \in 0 .. top
    BY <1>1, <1>2, <1>8
  <1> QED  BY <1>9 DEF d, top

\* The free list is no longer than there are blocks.
LEMMA FreeBound ==
    ASSUME NEW m, NEW s, FreeAre(m, s)
    PROVE  Len(s) \in 0 .. NCLIST
  <1>1. /\ s \in Seq(Blk) /\ Len(s) \in Nat /\ NCLIST \in Nat
        /\ s \in [1 .. Len(s) -> Blk]
        /\ \A i, j \in 1 .. Len(s) : s[i] = s[j] => i = j
    <2>1. s \in Seq(Blk) /\ \A i, j \in 1 .. Len(s) : s[i] = s[j] => i = j
      BY DEF FreeAre
    <2> QED  BY <2>1, BlockSize
  <1>2. /\ IsFiniteSet(1 .. NCLIST) /\ Cardinality(1 .. NCLIST) = NCLIST
        /\ IsFiniteSet(1 .. Len(s)) /\ Cardinality(1 .. Len(s)) = Len(s)
    BY <1>1, Interval
  <1>3. ASSUME NCLIST < Len(s) PROVE FALSE
    <2>1. /\ Cardinality(1 .. NCLIST) < Cardinality(1 .. Len(s)) /\ IsFiniteSet(1 .. NCLIST)
          /\ IsFiniteSet(1 .. Len(s)) /\ s \in [1 .. Len(s) -> 1 .. NCLIST]
      BY <1>1, <1>2, <1>3 DEF Blk
    <2>2. \E x, y \in 1 .. Len(s) : x # y /\ s[x] = s[y]
      BY <2>1, FS_PigeonHole
    <2> QED  BY <1>1, <2>2
  <1> QED  BY <1>1, <1>3

\* FreeChain goes through the free list, and then through nothing.
LEMMA ChainIs ==
    ASSUME NEW s, FreeAre(clists, s)
    PROVE  FreeChain = {s[i] : i \in 1 .. Len(s)} \cup {NULL}
  <1> DEFINE n == NCLIST + 1
             f == CHOOSE g : g = [i \in 1 .. n |-> IF i = 1 THEN clists.free
                                   ELSE (IF g[i - 1] = NULL THEN NULL ELSE clists.next[g[i - 1]])]
             h(i) == IF i <= Len(s) THEN s[i] ELSE NULL
             S == {i \in 1 .. n : f[i] # h(i)}
  <1>1. Len(s) \in Nat /\ Len(s) <= NCLIST /\ n \in Nat /\ n = NCLIST + 1 /\ NCLIST \in Nat
    BY FreeBound, BlockSize
  <1>2. FreeChain = {f[i] : i \in 1 .. n}
    BY DEF FreeChain
  <1>3. f = [i \in 1 .. n |-> IF i = 1 THEN clists.free
              ELSE (IF f[i - 1] = NULL THEN NULL ELSE clists.next[f[i - 1]])]
    <2>1. f = CHOOSE g : g = [i \in 1 .. n |-> IF i = 1 THEN clists.free
                              ELSE (IF g[i - 1] = NULL THEN NULL ELSE clists.next[g[i - 1]])]
      OBVIOUS
    <2>2. \E g : Chain(g, clists.free, clists.next, n)
      <3> HIDE DEF n
      <3> QED  BY <1>1, ChainExists
    <2>3. \E g : g = [i \in 1 .. n |-> IF i = 1 THEN clists.free
                              ELSE (IF g[i - 1] = NULL THEN NULL ELSE clists.next[g[i - 1]])]
      BY <2>2 DEF Chain
    <2> HIDE DEF n, f
    <2> QED  BY <2>1, <2>3
  <1> HIDE DEF f, n
  <1>4. \A i \in 1 .. n : f[i] = IF i = 1 THEN clists.free
              ELSE (IF f[i - 1] = NULL THEN NULL ELSE clists.next[f[i - 1]])
    BY <1>3
  <1>5. /\ s \in Seq(Blk)
        /\ s = <<>> => clists.free = NULL
        /\ s # <<>> => clists.free = s[1]
        /\ \A i \in 1 .. Len(s) : clists.next[s[i]] = IF i = Len(s) THEN NULL ELSE s[i + 1]
        /\ \A i \in 1 .. Len(s) : s[i] \in Blk
    BY DEF FreeAre
  <1>6. \A b \in Blk : b # NULL
    BY BlockSize DEF Blk, NULL
  <1>7. S = {}
    <2> SUFFICES ASSUME S # {} PROVE FALSE
      OBVIOUS
    <2>1. PICK e \in S : \A i \in S : e <= i
      <3>1. S \in SUBSET Nat
        BY <1>1
      <3> QED  BY <3>1, LeastOf
    <2>0. e \in 1 .. n /\ f[e] # h(e) /\ e \in Nat /\ e > 0
      BY <1>1
    <2>2. e # 1
      <3>1. f[1] = clists.free
        BY <1>1, <1>4
      <3>2. h(1) = clists.free
        <4>1. CASE s = <<>>
          BY <1>5, <4>1
        <4>2. CASE s # <<>>
          BY <1>5, <4>2
        <4> QED  BY <4>1, <4>2
      <3> QED  BY <2>0, <3>1, <3>2
    <2>3. e - 1 \in 1 .. n /\ ~ (e <= e - 1)
      BY <1>1, <2>0, <2>2
    <2>4. f[e - 1] = h(e - 1)
      BY <2>1, <2>3
    <2>5. f[e] = IF f[e - 1] = NULL THEN NULL ELSE clists.next[f[e - 1]]
      BY <1>4, <2>0, <2>2
    <2>6. CASE e - 1 <= Len(s)
      <3>1. e - 1 \in 1 .. Len(s) /\ e - 1 + 1 = e
        BY <1>1, <2>0, <2>2, <2>6
      <3>2. f[e - 1] = s[e - 1] /\ s[e - 1] # NULL
        BY <1>5, <1>6, <2>4, <2>6, <3>1
      <3>3. f[e] = IF e - 1 = Len(s) THEN NULL ELSE s[e]
        BY <1>5, <2>5, <3>1, <3>2
      <3>4. e - 1 = Len(s) <=> ~ (e <= Len(s))
        BY <1>1, <2>0, <2>6
      <3> QED  BY <2>0, <3>3, <3>4
    <2>7. CASE ~ (e - 1 <= Len(s))
      <3>1. ~ (e <= Len(s))
        BY <1>1, <2>0, <2>7
      <3> QED  BY <2>0, <2>4, <2>5, <2>7, <3>1
    <2> QED  BY <2>6, <2>7
  <1>8. \A i \in 1 .. n : f[i] = h(i)
    BY <1>7
  <1>9. {f[i] : i \in 1 .. n} = {s[i] : i \in 1 .. Len(s)} \cup {NULL}
    <2>1. ASSUME NEW i \in 1 .. n PROVE f[i] \in {s[j] : j \in 1 .. Len(s)} \cup {NULL}
      <3>1. CASE i <= Len(s)
        <4>1. i \in 1 .. Len(s)
          BY <1>1, <3>1
        <4> QED  BY <1>8, <3>1, <4>1
      <3>2. CASE ~ (i <= Len(s))
        BY <1>8, <3>2
      <3> QED  BY <3>1, <3>2
    <2>2. ASSUME NEW i \in 1 .. Len(s) PROVE s[i] \in {f[j] : j \in 1 .. n}
      <3>1. i \in 1 .. n /\ i <= Len(s)
        BY <1>1
      <3> QED  BY <1>8, <3>1
    <2>3. NULL \in {f[j] : j \in 1 .. n}
      <3>1. n \in 1 .. n /\ ~ (n <= Len(s))
        BY <1>1
      <3> QED  BY <1>8, <3>1
    <2> QED  BY <2>1, <2>2, <2>3
  <1> QED  BY <1>2, <1>9

\* Of a sound state every block is in one place.
LEMMA KeptWhileSound == Sound(clists) => BlocksKept
  <1> SUFFICES ASSUME Sound(clists) PROVE BlocksKept
    OBVIOUS
  <1> DEFINE m == clists
  <1>0. Typed(m) /\ Apart(m) /\ (\A k \in Queue : QueueSound(m, k))
    BY DEF Sound
  <1>1. ClistTypeOK
    <2>1. m.free \in 0 .. NCLIST /\ m.next \in [1 .. NCLIST -> 0 .. NCLIST]
      BY <1>0, Types DEF Blk
    <2> DEFINE top == (NCLIST + 1) * CBLOCK
    <2>2. top \in Nat /\ \A a \in Space : a \in Nat /\ a <= top - 1
      <3>1. NCLIST + 1 \in Nat /\ CBLOCK \in Nat
        BY BlockSize
      <3>2. top \in Nat
        BY <3>1, Products
      <3>3. Space = CBLOCK .. top - 1
        BY DEF Space
      <3> HIDE DEF top
      <3> QED  BY <3>1, <3>2, <3>3
    <2>3. \A k \in Queue : m.q[k].cc \in 0 .. NCLIST * CBSIZE
      BY CountBound
    <2>4. ASSUME NEW k \in Queue PROVE m.q[k].cf \in 0 .. top /\ m.q[k].cl \in 0 .. top
      <3>1. /\ m.q[k].cc \in Nat /\ (m.q[k].cc = 0 => m.q[k] = EmptyQueue)
            /\ m.q[k].cc > 0 => /\ At(m, k, m.q[k].cc) \in Place
                                /\ m.q[k].cl = At(m, k, m.q[k].cc) + 1
                                /\ At(m, k, 1) \in Place /\ m.q[k].cf = At(m, k, 1)
        BY <1>0, EmptyOrNot
      <3>2. CASE m.q[k].cc = 0
        <4>1. m.q[k].cf = 0 /\ m.q[k].cl = 0
          BY <3>1, <3>2 DEF EmptyQueue, NULL
        <4> HIDE DEF top
        <4> QED  BY <2>2, <4>1
      <3>3. CASE m.q[k].cc > 0
        <4>1. At(m, k, m.q[k].cc) \in Space /\ At(m, k, 1) \in Space
          BY <3>1, <3>3, PlaceIs
        <4> HIDE DEF top, m
        <4>2. \A a \in Space : a \in 0 .. top /\ a + 1 \in 0 .. top
          BY <2>2
        <4>3. m.q[k].cl = At(m, k, m.q[k].cc) + 1 /\ m.q[k].cf = At(m, k, 1)
          BY <3>1, <3>3
        <4>4. At(m, k, 1) \in 0 .. top /\ At(m, k, m.q[k].cc) + 1 \in 0 .. top
          BY <4>1, <4>2
        <4>5. m.q[k].cf \in 0 .. top
          BY <4>3, <4>4, Zenon
        <4>6. m.q[k].cl \in 0 .. top
          BY <4>3, <4>4, Zenon
        <4> QED  BY <4>5, <4>6
      <3>4. m.q[k].cc = 0 \/ m.q[k].cc > 0
        BY <3>1
      <3> QED  BY <3>2, <3>3, <3>4
    <2>5. \A k \in Queue : {m.q[k].cf, m.q[k].cl} \subseteq 0 .. top
      BY <2>4
    <2> QED  BY <2>1, <2>3, <2>5 DEF ClistTypeOK
  <1>2. PICK s : FreeAre(m, s) /\ Covers(m, s)
    BY DEF Sound
  <1>3. FreeChain = {s[i] : i \in 1 .. Len(s)} \cup {NULL}
    BY <1>2, ChainIs
  <1>4. /\ \A i \in 1 .. Len(s) : s[i] \in Blk
        /\ \A b \in Blk : (\E i \in 1 .. Len(s) : s[i] = b) <=> ~ InQueues(m, b)
    BY <1>2 DEF FreeAre, Covers
  <1>5. \A k \in Queue : Used(k) = {BlockOf(At(m, k, i)) : i \in 1 .. m.q[k].cc}
    BY DEF Used, At
  <1>6. \A k \in Queue : \A i \in 1 .. m.q[k].cc : BlockOf(At(m, k, i)) \in Blk
    BY <1>0, PlaceIs DEF QueueSound
  <1>7. \A b \in Blk : b # NULL
    BY BlockSize DEF Blk, NULL
  <1>8. \A b : (\E k \in Queue : b \in Used(k)) <=> InQueues(m, b)
    BY <1>5 DEF InQueues
  <1>9. \A b : b \in FreeChain <=> (b = NULL \/ \E i \in 1 .. Len(s) : s[i] = b)
    BY <1>3
  <1>10. \A k \in Queue : \A b \in Used(k) : b \in Blk
    BY <1>5, <1>6
  <1> HIDE DEF m
  <1>11. (FreeChain \ {NULL}) \cup UNION {Used(k) : k \in Queue} = 1 .. NCLIST
    <2>1. ASSUME NEW b \in FreeChain \ {NULL} PROVE b \in Blk
      BY <1>4, <1>9
    <2>2. ASSUME NEW b \in Blk PROVE b \in FreeChain \/ \E k \in Queue : b \in Used(k)
      BY <1>4, <1>8, <1>9
    <2> QED  BY <1>7, <1>10, <2>1, <2>2 DEF Blk
  <1>12. \A k \in Queue : Used(k) \cap FreeChain = {}
    <2> SUFFICES ASSUME NEW k \in Queue, NEW b \in Used(k), b \in FreeChain PROVE FALSE
      OBVIOUS
    <2>1. b \in Blk /\ InQueues(m, b)
      BY <1>8, <1>10
    <2> QED  BY <1>4, <1>7, <1>9, <2>1
  <1>13. \A k \in Queue : \A j \in Queue \ {k} : Used(k) \cap Used(j) = {}
    <2> SUFFICES ASSUME NEW k \in Queue, NEW j \in Queue \ {k}, NEW b \in Used(k), b \in Used(j) PROVE FALSE
      OBVIOUS
    <2>1. PICK x \in 1 .. m.q[k].cc : BlockOf(At(m, k, x)) = b
      BY <1>5
    <2>2. PICK y \in 1 .. m.q[j].cc : BlockOf(At(m, j, y)) = b
      BY <1>5
    <2> QED  BY <1>0, <2>1, <2>2 DEF Apart
  <1>14. NULL \in FreeChain
    BY <1>9
  <1> QED  BY <1>1, <1>11, <1>12, <1>13, <1>14 DEF BlocksKept

-----------------------------------------------------------------------------
(* The theorems.                                                           *)

\* The inductive invariant holds in every state.
LEMMA AlwaysSound == ClistSpec => []Sound(clists)
  <1>1. ClistInit => Sound(clists)
    BY InitSound
  <1>2. Sound(clists) /\ [ClistNext]_clistVars => Sound(clists)'
    <2>1. CASE ClistNext
      BY <2>1, StepKeeps
    <2>2. CASE UNCHANGED clistVars
      BY <2>2 DEF clistVars
    <2> QED  BY <2>1, <2>2
  <1> QED  BY <1>1, <1>2, PTL DEF ClistSpec

\* Whatever is put and taken, by single characters, words or blocks of them,
\* and whether or not there was room: every block is in the free list or in
\* one queue, and the free list ends.
THEOREM BlocksStay == ClistSpec => []BlocksKept
  <1>1. Sound(clists) => BlocksKept
    BY KeptWhileSound
  <1> QED  BY <1>1, AlwaysSound, PTL

-----------------------------------------------------------------------------
(* The blocks implement queues.                                            *)

\* What Content is.
LEMMA ContentIs ==
    ASSUME NEW m, Sound(m), NEW k \in Queue
    PROVE  /\ Content(m, k) \in Seq(Char) /\ Len(Content(m, k)) = m.q[k].cc /\ m.q[k].cc \in Nat
           /\ Content(m, k) = [i \in 1 .. m.q[k].cc |-> Chr(m, k, i)]
  <1> DEFINE d == m.q[k].cc
  <1>1. d \in Nat /\ m.info \in [Space -> Char] /\ QueueSound(m, k)
    BY Types DEF Sound
  <1>2. Content(m, k) = [i \in 1 .. d |-> Chr(m, k, i)]
    BY DEF Content, Chr, At
  <1>3. \A i \in 1 .. d : Chr(m, k, i) \in Char
    BY <1>1, PlaceIs DEF Chr, QueueSound
  <1> HIDE DEF d
  <1>4. Content(m, k) \in [1 .. d -> Char]
    BY <1>2, <1>3
  <1>5. Content(m, k) \in Seq(Char) /\ Len(Content(m, k)) = d
    BY <1>1, <1>2, <1>4
  <1> QED  BY <1>1, <1>2, <1>5 DEF d

\* The other queues have what they had.
LEMMA OthersContent ==
    ASSUME NEW m, NEW n, Sound(m), Sound(n), NEW k \in Queue, OthersSame(m, n, k)
    PROVE  \A j \in Queue \ {k} : Content(n, j) = Content(m, j)
  <1> SUFFICES ASSUME NEW j \in Queue \ {k} PROVE Content(n, j) = Content(m, j)
    OBVIOUS
  <1>1. n.q[j].cc = m.q[j].cc /\ \A i \in 1 .. m.q[j].cc : Chr(n, j, i) = Chr(m, j, i)
    BY DEF OthersSame
  <1>2. /\ Content(m, j) = [i \in 1 .. m.q[j].cc |-> Chr(m, j, i)]
        /\ Content(n, j) = [i \in 1 .. n.q[j].cc |-> Chr(n, j, i)]
    BY ContentIs
  <1> QED  BY <1>1, <1>2

\* A sequence that begins with u and goes on with v.
LEMMA Joined ==
    ASSUME NEW u \in Seq(Char), NEW v \in Seq(Char), NEW w \in Seq(Char),
           Len(w) = Len(u) + Len(v),
           \A i \in 1 .. Len(u) : w[i] = u[i],
           \A i \in 1 .. Len(v) : w[Len(u) + i] = v[i]
    PROVE  w = u \o v
  <1> DEFINE x == u \o v
             a == Len(u)
             b == Len(v)
  <1>1. a \in Nat /\ b \in Nat
    OBVIOUS
  <1>2. x \in Seq(Char) /\ Len(x) = a + b
    OBVIOUS
  <1>3. /\ \A i \in 1 .. a : x[i] = u[i]
        /\ \A i \in a + 1 .. a + b : x[i] = v[i - a]
    OBVIOUS
  <1>4. /\ \A i \in 1 .. a : w[i] = u[i]
        /\ \A i \in 1 .. b : w[a + i] = v[i]
        /\ Len(w) = a + b
    OBVIOUS
  <1> HIDE DEF x, a, b
  <1>5. ASSUME NEW i \in 1 .. a + b PROVE w[i] = x[i]
    <2>1. CASE i \in 1 .. a
      BY <1>3, <1>4, <2>1
    <2>2. CASE i \notin 1 .. a
      <3>1. i \in a + 1 .. a + b /\ i - a \in 1 .. b /\ a + (i - a) = i
        BY <1>1, <2>2
      <3>2. w[a + (i - a)] = v[i - a]
        BY <1>4, <3>1
      <3> QED  BY <1>3, <3>1, <3>2
    <2> QED  BY <2>1, <2>2
  <1>6. w = x
    <2>1. w = [i \in 1 .. a + b |-> w[i]]
      <3>1. w = [i \in 1 .. Len(w) |-> w[i]]
        OBVIOUS
      <3> QED  BY <1>4, <3>1
    <2>2. x = [i \in 1 .. a + b |-> x[i]]
      <3>1. x = [i \in 1 .. Len(x) |-> x[i]]
        BY <1>2
      <3> QED  BY <1>2, <3>1
    <2> QED  BY <1>5, <2>1, <2>2
  <1> QED  BY <1>6 DEF x

\* A sequence that has what is behind the first n of u.
LEMMA Behind ==
    ASSUME NEW u \in Seq(Char), NEW w \in Seq(Char), NEW n \in 0 .. Len(u),
           Len(w) = Len(u) - n,
           \A i \in 1 .. Len(w) : w[i] = u[i + n]
    PROVE  w = SubSeq(u, n + 1, Len(u))
  <1> DEFINE a == Len(u)
             x == SubSeq(u, n + 1, a)
  <1>1. a \in Nat /\ n \in Nat /\ n <= a
    OBVIOUS
  <1>2. x = [i \in 1 .. a - n |-> u[i + n]]
    <2>1. x = [i \in 1 .. (a - (n + 1)) + 1 |-> u[(i + (n + 1)) - 1]]
      OBVIOUS
    <2> HIDE DEF x, a
    <2>2. (a - (n + 1)) + 1 = a - n /\ \A i \in 1 .. a - n : (i + (n + 1)) - 1 = i + n
      BY <1>1
    <2> QED  BY <2>1, <2>2
  <1>3. w = [i \in 1 .. a - n |-> w[i]]
    <2>1. w = [i \in 1 .. Len(w) |-> w[i]]
      OBVIOUS
    <2> QED  BY <2>1
  <1> HIDE DEF x, a
  <1>4. \A i \in 1 .. a - n : w[i] = u[i + n]
    BY DEF a
  <1> QED  BY <1>2, <1>3, <1>4 DEF x, a

\* What is in all queues.
Contents(m) == [j \in Queue |-> Content(m, j)]

\* All the queues, when only k is another.
LEMMA OnlyOne ==
    ASSUME NEW m, NEW n, Sound(m), Sound(n), NEW k \in Queue, OthersSame(m, n, k),
           NEW t, t = Content(n, k)
    PROVE  Contents(n) = [Contents(m) EXCEPT ![k] = t]
  <1>1. \A j \in Queue \ {k} : Content(n, j) = Content(m, j)
    BY OthersContent
  <1> QED  BY <1>1 DEF Contents

\* What is offered comes behind what was there, as far as there is room.
LEMMA PutIs ==
    ASSUME NEW m, NEW o, Sound(m), NEW k \in Queue, NEW s \in Seq(Char),
           Offered(m, o, k, s, Len(s)), NEW e, e = o.q[k].cc - m.q[k].cc
    PROVE  /\ e \in 0 .. Len(s)
           /\ Contents(o) = [Contents(m) EXCEPT ![k] = Content(m, k) \o SubSeq(s, 1, e)]
  <1> DEFINE u == Content(m, k)
             w == Content(o, k)
             v == SubSeq(s, 1, e)
  <1>1. /\ Sound(o) /\ Longer(m, o, k) /\ e \in 0 .. Len(s)
        /\ \A j \in 1 .. e : Chr(o, k, m.q[k].cc + j) = s[j]
    BY DEF Offered
  <1>2. /\ u \in Seq(Char) /\ Len(u) = m.q[k].cc /\ Len(u) \in Nat
        /\ \A i \in 1 .. Len(u) : u[i] = Chr(m, k, i)
    BY ContentIs
  <1>3. /\ w \in Seq(Char) /\ Len(w) = o.q[k].cc /\ Len(w) \in Nat
        /\ \A i \in 1 .. Len(w) : w[i] = Chr(o, k, i)
    BY <1>1, ContentIs
  <1>4. v \in Seq(Char) /\ Len(v) = e /\ e \in Nat /\ \A i \in 1 .. e : v[i] = s[i]
    BY <1>1
  <1>5. \A i \in 1 .. m.q[k].cc : Chr(o, k, i) = Chr(m, k, i)
    BY <1>1 DEF Longer
  <1>6. OthersSame(m, o, k)
    BY <1>1 DEF Longer
  <1>7. w = u \o v
    <2> HIDE DEF u, v, w
    <2>1. Len(w) = Len(u) + Len(v)
      BY <1>2, <1>3, <1>4
    <2>2. ASSUME NEW i \in 1 .. Len(u) PROVE w[i] = u[i]
      <3>1. i \in 1 .. Len(w)
        BY <1>2, <1>3, <1>4, <2>1
      <3> QED  BY <1>2, <1>3, <1>5, <3>1
    <2>3. ASSUME NEW i \in 1 .. Len(v) PROVE w[Len(u) + i] = v[i]
      <3>1. Len(u) + i \in 1 .. Len(w) /\ i \in 1 .. e
        BY <1>2, <1>3, <1>4, <2>1
      <3> QED  BY <1>1, <1>2, <1>3, <1>4, <3>1
    <2> QED  BY <1>2, <1>3, <1>4, <2>1, <2>2, <2>3, Joined
  <1> HIDE DEF v
  <1>8. Contents(o) = [Contents(m) EXCEPT ![k] = u \o v]
    <2>1. Content(o, k) = u \o v
      BY <1>7
    <2> HIDE DEF u, w
    <2> QED  BY <1>1, <1>6, <2>1, OnlyOne
  <1> QED  BY <1>1, <1>8 DEF v

\* What is taken were the first characters; the others are left.
LEMMA TakeIs ==
    ASSUME Sound(clists), NEW k \in Queue, NEW n, Takes(k, n)
    PROVE  /\ Foremost(k, n) = SubSeq(Content(clists, k), 1, n)
           /\ Contents(clists')
              = [Contents(clists) EXCEPT
                   ![k] = SubSeq(Content(clists, k), n + 1, Len(Content(clists, k)))]
  <1> DEFINE u == Content(clists, k)
             w == Content(clists', k)
             a == clists.q[k].cc
             b == clists'.q[k].cc
  <1>1. /\ Sound(clists') /\ Shorter(clists, clists', k) /\ n \in 0 .. a /\ b = a - n
    BY DEF Takes, Fewer
  <1>2. /\ u \in Seq(Char) /\ Len(u) = a /\ a \in Nat
        /\ \A i \in 1 .. Len(u) : u[i] = Chr(clists, k, i)
    BY ContentIs
  <1>3. /\ w \in Seq(Char) /\ Len(w) = b /\ b \in Nat
        /\ \A i \in 1 .. Len(w) : w[i] = Chr(clists', k, i)
    BY <1>1, ContentIs
  <1>4. OthersSame(clists, clists', k) /\ \A i \in 1 .. b : Chr(clists', k, i) = Chr(clists, k, i + (a - b))
    BY <1>1 DEF Shorter
  <1> HIDE DEF u, w, a, b
  <1>5. w = SubSeq(u, n + 1, Len(u))
    <2>1. ASSUME NEW i \in 1 .. Len(w) PROVE w[i] = u[i + n]
      <3>1. i \in 1 .. b /\ a - b = n /\ i + n \in 1 .. Len(u)
        BY <1>1, <1>2, <1>3
      <3> QED  BY <1>2, <1>3, <1>4, <3>1
    <2>2. n \in 0 .. Len(u) /\ Len(w) = Len(u) - n
      BY <1>1, <1>2, <1>3
    <2> QED  BY <1>2, <1>3, <2>1, <2>2, Behind
  <1>6. Foremost(k, n) = SubSeq(u, 1, n)
    <2>1. n \in Nat /\ n <= Len(u)
      BY <1>1, <1>2
    <2>2. SubSeq(u, 1, n) = [i \in 1 .. n |-> u[i]]
      BY <1>2, <2>1
    <2>3. \A i \in 1 .. n : u[i] = Chr(clists, k, i)
      BY <1>2, <2>1
    <2> QED  BY <2>2, <2>3 DEF Foremost
  <1>7. Contents(clists') = [Contents(clists) EXCEPT ![k] = SubSeq(u, n + 1, Len(u))]
    <2>1. Content(clists', k) = SubSeq(u, n + 1, Len(u))
      BY <1>5 DEF w
    <2> QED  BY <1>1, <1>4, <2>1, OnlyOne
  <1> QED  BY <1>6, <1>7 DEF u

\* Characters are put.
LEMMA PutStep ==
    ASSUME Sound(clists), NEW k \in Queue, NEW s, NEW n, Puts(k, s, n), Returns("put", k, s, n)
    PROVE  Queues!Put(k)
  <1> DEFINE x == Contents(clists)
             e == clists'.q[k].cc - clists.q[k].cc
  <1>1. /\ s \in Seq(Char) /\ n \in 0 .. Len(s) /\ Offered(clists, clists', k, s, Len(s))
        /\ clists'.q[k].cc = clists.q[k].cc + (Len(s) - n) /\ (n > 0 => clists'.free = NULL)
    BY DEF Puts
  <1>2. e = Len(s) - n
    <2>1. clists.q[k].cc \in Nat
      BY Types DEF Sound
    <2> DEFINE a == clists.q[k].cc
               b == clists'.q[k].cc
    <2>2. a \in Nat /\ b = a + (Len(s) - n) /\ e = b - a
      BY <1>1, <2>1
    <2> HIDE DEF a, b, e
    <2> QED  BY <1>1, <2>2
  <1>3. x' = [x EXCEPT ![k] = x[k] \o SubSeq(s, 1, Len(s) - n)]
    <2>1. x' = [x EXCEPT ![k] = Content(clists, k) \o SubSeq(s, 1, e)]
      BY <1>1, PutIs
    <2>2. x[k] = Content(clists, k)
      BY DEF Contents
    <2> HIDE DEF x, e
    <2> QED  BY <1>2, <2>1, <2>2
  <1>4. lastCall'.by = "put" /\ lastCall'.queue = k /\ lastCall'.chars = s /\ lastCall'.count = n
    BY DEF Returns
  <1>5. (clists.free = NULL)' <=> clists'.free = NULL
    OBVIOUS
  <1> HIDE DEF e
  <1> QED  BY <1>1, <1>3, <1>4, <1>5 DEF Queues!Put, Queues!Answered, Contents

\* A word is put.
LEMMA PutWordStep ==
    ASSUME Sound(clists), NEW k \in Queue, PutW(k)
    PROVE  Queues!PutWord(k)
  <1> DEFINE x == Contents(clists)
  <1>1. PICK s : /\ Len(s) = 2
                 /\ \/ Puts(k, s, 0) /\ Returns("putw", k, s, 0)
                    \/ /\ clists.free = NULL /\ clists' = clists /\ s \in Seq(Char)
                       /\ Returns("putw", k, s, 2)
    BY PutWIs
  <1>2. CASE Puts(k, s, 0) /\ Returns("putw", k, s, 0)
    <2>1. /\ s \in Seq(Char) /\ Offered(clists, clists', k, s, Len(s))
          /\ clists'.q[k].cc = clists.q[k].cc + (2 - 0) /\ clists.q[k].cc \in Nat
      BY <1>1, <1>2, Types DEF Puts, Sound
    <2> DEFINE e == clists'.q[k].cc - clists.q[k].cc
    <2>2. e = 2
      BY <2>1
    <2>3. x' = [x EXCEPT ![k] = Content(clists, k) \o SubSeq(s, 1, e)]
      <3>1. s \in Seq(Char) /\ Offered(clists, clists', k, s, Len(s))
        BY <2>1
      <3> QED  BY <3>1, PutIs
    <2>4. SubSeq(s, 1, 2) = s /\ x[k] = Content(clists, k)
      BY <1>1, <2>1 DEF Contents
    <2>5. lastCall'.by = "putw" /\ lastCall'.queue = k /\ lastCall'.chars = s /\ lastCall'.count = 0
      BY <1>2 DEF Returns
    <2> HIDE DEF x, e
    <2>6. x' = [x EXCEPT ![k] = x[k] \o s]
      BY <2>2, <2>3, <2>4
    <2> QED  BY <1>1, <2>1, <2>5, <2>6 DEF Queues!PutWord, Queues!Answered, x, Contents
  <1>3. CASE /\ clists.free = NULL /\ clists' = clists /\ s \in Seq(Char)
             /\ Returns("putw", k, s, 2)
    <2>1. lastCall'.by = "putw" /\ lastCall'.queue = k /\ lastCall'.chars = s /\ lastCall'.count = 2
      BY <1>3 DEF Returns
    <2>2. x' = x /\ (clists.free = NULL)' = (clists.free = NULL)
      BY <1>3
    <2> QED  BY <1>1, <1>3, <2>1, <2>2 DEF Queues!PutWord, Queues!Answered, Contents
  <1> QED  BY <1>1, <1>2, <1>3

\* The first characters are taken.
LEMMA TakeStep ==
    ASSUME Sound(clists), NEW k \in Queue, NEW n, Takes(k, n), lastCall'.chars = Foremost(k, n)
    PROVE  Queues!TakeFirst(k, n)
  <1> DEFINE x == Contents(clists)
  <1>1. x[k] = Content(clists, k)
    BY DEF Contents
  <1>2. /\ Foremost(k, n) = SubSeq(Content(clists, k), 1, n)
        /\ x' = [x EXCEPT ![k] = SubSeq(Content(clists, k), n + 1, Len(Content(clists, k)))]
    BY TakeIs
  <1> HIDE DEF x
  <1>3. lastCall'.chars = SubSeq(x[k], 1, n) /\ x' = [x EXCEPT ![k] = SubSeq(x[k], n + 1, Len(x[k]))]
    BY <1>1, <1>2
  <1> QED  BY <1>3 DEF Queues!TakeFirst, x, Contents

\* A step of the lists is a step of the queues.
LEMMA QueuesStep == Sound(clists) /\ ClistNext => Queues!Next
  <1> SUFFICES ASSUME Sound(clists), ClistNext PROVE Queues!Next
    OBVIOUS
  <1> DEFINE x == Contents(clists)
  <1>1. PICK k \in Queue : PutC(k) \/ GetC(k) \/ BToQ(k) \/ QToB(k) \/ PutW(k) \/ GetW(k)
    BY DEF ClistNext
  <1>2. x[k] = Content(clists, k) /\ Len(Content(clists, k)) = clists.q[k].cc
    BY ContentIs DEF Contents
  <1> HIDE DEF x
  <1>3. ASSUME PutC(k) \/ BToQ(k) PROVE Queues!Put(k)
    <2>1. PICK s, n : Puts(k, s, n) /\ Returns("put", k, s, n)
      BY <1>3, PutCIs, BToQIs
    <2> QED  BY <2>1, PutStep
  <1>4. ASSUME GetC(k) \/ QToB(k) PROVE Queues!Take(k)
    <2>1. PICK z, n : /\ n = Least(z, clists.q[k].cc) /\ Takes(k, n)
                      /\ Returns("take", k, Foremost(k, n), z)
      BY <1>4, GetCIs, QToBIs
    <2>2. /\ lastCall'.by = "take" /\ lastCall'.queue = k /\ lastCall'.chars = Foremost(k, n)
          /\ lastCall'.count = z
      BY <2>1 DEF Returns
    <2>3. n = IF z < Len(x[k]) THEN z ELSE Len(x[k])
      BY <1>2, <2>1 DEF Least
    <2>4. Queues!TakeFirst(k, n)
      BY <2>1, <2>2, TakeStep
    <2> QED  BY <2>2, <2>3, <2>4 DEF Queues!Take, Queues!Answered, x, Contents
  <1>5. ASSUME GetW(k) PROVE Queues!TakeWord(k)
    <2>1. PICK n : /\ n = IF clists.q[k].cc < 2 THEN 0 ELSE 2
                   /\ Takes(k, n) /\ Returns("getw", k, Foremost(k, n), 2)
      BY <1>5, GetWIs
    <2>2. lastCall'.by = "getw" /\ lastCall'.queue = k /\ lastCall'.chars = Foremost(k, n)
      BY <2>1 DEF Returns
    <2>3. n = IF Len(x[k]) < 2 THEN 0 ELSE 2
      BY <1>2, <2>1
    <2>4. Queues!TakeFirst(k, n)
      BY <2>1, <2>2, TakeStep
    <2> QED  BY <2>2, <2>3, <2>4 DEF Queues!TakeWord, Queues!Answered, x, Contents
  <1> QED  BY <1>1, <1>3, <1>4, <1>5, PutWordStep DEF Queues!Next

\* At first every queue is empty, and there is room.
LEMMA QueuesInit == ClistInit => Queues!Init
  <1> SUFFICES ASSUME ClistInit PROVE Queues!Init
    OBVIOUS
  <1>1. Sound(clists) /\ \A k \in Queue : clists.q[k].cc = 0
    BY InitSound DEF ClistInit, EmptyQueue
  <1>2. \A k \in Queue : Content(clists, k) \in Seq(Char) /\ Len(Content(clists, k)) = 0
    BY <1>1, ContentIs
  <1>3. \A k \in Queue : Content(clists, k) = <<>>
    BY <1>2
  <1>4. clists.free # NULL /\ lastCall = [by |-> "none"]
    BY BlockSize, ClistAssumption DEF ClistInit, NULL
  <1> QED  BY <1>3, <1>4 DEF Queues!Init

\* The chained blocks are queues of characters, for any size and number of
\* blocks: what a call puts is added to the end of its queue, once and in order,
\* all but what it returns as not put for want of a block; what a call takes are
\* the first characters of its queue, as many as it asks for and there are; the
\* other queues are left alone.
THEOREM ListsImplementQueues == ClistSpec => ImplementsQueues
  <1>1. Sound(clists) /\ [ClistNext]_clistVars
          => [Queues!Next]_(<<[k \in Queue |-> Content(clists, k)], clists.free = NULL, lastCall>>)
    BY QueuesStep DEF clistVars
  <1>2. ClistInit => Queues!Init
    BY QueuesInit
  <1> QED  BY <1>1, <1>2, AlwaysSound, PTL DEF ClistSpec, ImplementsQueues, Queues!Spec

=============================================================================
