--------------------------- MODULE Blocks_proofs ---------------------------
(***************************************************************************)
(* Proofs about the blocks of a file system.                               *)
(*                                                                         *)
(* FreeList: the inductive invariant FInv, what follows from it            *)
(* (BlocksStayInOnePlace, CleanStaysSaved), and that alloc and free        *)
(* implement FreePool.                                                     *)
(*                                                                         *)
(* FileMap: the map of a file is a tree (FileInv), so that each of the     *)
(* blocks it has stands in one place of it (FileBlocksStay).               *)
(***************************************************************************)
EXTENDS FileMap, FreeList, WellFoundedInduction, FiniteSetTheorems, TLAPS

-----------------------------------------------------------------------------
(* Chains.  After(c, l) is the list after l when c[b] is the list in block  *)
(* b; f is the chain that begins with l.                                   *)

N == Cardinality(Data)

LinkOf(l) == l # <<>> /\ l[1] \in Data

After(c, l) == IF LinkOf(l) THEN c[l[1]] ELSE <<>>

IsChain(f, c, l) == f = [n \in 0 .. N |-> IF n = 0 THEN l ELSE After(c, f[n - 1])]

\* The blocks in the lists of a chain, each of which is there once.
Blocks(f) == {b \in Data : \E n \in 0 .. N : \E i \in DOMAIN f[n] : f[n][i] = b}

Distinct(f) ==
    \A m, n \in 0 .. N : \A i \in DOMAIN f[m], j \in DOMAIN f[n] :
        f[m][i] = f[n][j] /\ f[m][i] \in Data => m = n /\ i = j

ChainOf(c, l) == CHOOSE f : IsChain(f, c, l)

FreeOf(c, l) == Blocks(ChainOf(c, l))

Once(c, l) == Distinct(ChainOf(c, l))

-----------------------------------------------------------------------------
(* The inductive invariant.                                                *)

\* Lists have at most NICFREE numbers, and 0 only at the end of the chain.
Lists == {l \in Seq(Number) : Len(l) <= NICFREE /\ \A i \in DOMAIN l : l[i] = Zero => i = 1}

Typed ==
    /\ super \in Lists /\ dsuper \in Lists /\ image \in Lists
    /\ content \in [Data -> Lists] /\ unsaved \subseteq Data
    /\ flock \in BOOLEAN /\ fmod \in BOOLEAN /\ updlock \in BOOLEAN /\ failed \in BOOLEAN
    /\ held \subseteq Data /\ asleep \subseteq Proc
    /\ hand \in [Proc -> Data \cup {Zero}]
    /\ pc \in [Proc -> {"idle", "alloc", "allocRead", "allocGet", "free",
                        "freeGet", "freeWrite", "updateGet", "updateWrite"}]

\* The list that the chain of free blocks begins with: while it is on its way
\* between the superblock and a block, it is the one in the block.
Moving == {p \in Proc : pc[p] \in {"allocRead", "freeWrite"}}

Leading == IF Moving = {} THEN super ELSE content[hand[CHOOSE p \in Moving : TRUE]]

Available == FreeOf(content, Leading)

\* Whoever works on the list has s_flock, and is alone.
Locks ==
    /\ \A p \in Proc : pc[p] \in {"allocRead", "freeGet", "freeWrite"} => flock
    /\ \A p, q \in Proc : {pc[p], pc[q]} \subseteq {"allocRead", "freeGet", "freeWrite"} => p = q
    /\ \A p \in Moving : super = <<>>

\* A block is free once, or in a file, or in the hands of one process.
Apart ==
    /\ Once(content, Leading)
    /\ Available \cap held = {}
    /\ \A p \in Proc : InHand(p) \subseteq Data \ (Available \cup held)
    /\ \A p, q \in Proc : InHand(p) \cap InHand(q) # {} => p = q

\* The list that is on the disk, or is being written to it.
Latest == IF \E p \in Proc : pc[p] = "updateWrite" THEN image ELSE dsuper

GivenUp == {b \in Data : \E p \in Proc : pc[p] \in {"free", "freeGet", "freeWrite"} /\ hand[p] = b}

\* What is not on the disk is being written, and one process writes the
\* superblock.
Writing ==
    /\ \A b \in unsaved : \E p \in Proc : pc[p] = "freeWrite" /\ hand[p] = b
    /\ \A p \in Proc : pc[p] \in {"updateGet", "updateWrite"} => updlock
    /\ \A p, q \in Proc : {pc[p], pc[q]} \subseteq {"updateGet", "updateWrite"} => p = q
    /\ \A p \in Proc : pc[p] = "updateGet" => fmod

\* No copy is on its way after the last one was lost.
Stale == failed /\ \A p \in Proc : pc[p] # "updateWrite"

\* s_fmod is off: the list on the disk gives no block away, and has all that
\* are free when nobody has his hands on the list.
Clean ==
    ~ fmod /\ ~ Stale =>
      /\ FreeOf(content, Latest) \cap (held \cup GivenUp) = {}
      /\ (\A p \in Proc : pc[p] \notin {"allocRead", "allocGet", "freeGet", "freeWrite"}) =>
            FreeOf(content, super) \subseteq FreeOf(content, Latest)

FInv == Typed /\ Locks /\ Apart /\ Writing /\ Clean

-----------------------------------------------------------------------------
(* Chains of lists.                                                        *)

\* A set of natural numbers has a least element.
LEMMA Least ==
    ASSUME NEW S \in SUBSET Nat, S # {}
    PROVE  \E n \in S : \A k \in S : n <= k
  <1> DEFINE R == OpToRel(<, Nat)
  <1>1. IsWellFoundedOn(R, Nat)
    BY NatLessThanWellFounded
  <1>2. \A x, y \in Nat : x < y => <<x, y>> \in R
    BY DEF OpToRel
  <1> HIDE DEF R
  <1>3. PICK n \in S : \A y \in S : ~ (<<y, n>> \in R)
    BY <1>1, WFMin
  <1>4. ASSUME NEW k \in S PROVE n <= k
    <2>1. n \in Nat /\ k \in Nat /\ <<k, n>> \notin R
      BY <1>3
    <2>2. ~ (k < n)
      BY <1>2, <2>1
    <2> QED  BY <2>1, <2>2
  <1> QED  BY <1>4

\* Data is finite.
LEMMA Size == N \in Nat /\ IsFiniteSet(Data)
  BY FreeListAssumption, FS_CardinalityType DEF N

\* There is a chain for every list, as far as one looks.
LEMMA ChainsExist ==
    ASSUME NEW c, NEW l
    PROVE  \E f : IsChain(f, c, l)
  <1> DEFINE Upto(f, k) == f = [n \in 0 .. k |-> IF n = 0 THEN l ELSE After(c, f[n - 1])]
             S == {k \in Nat : ~ \E f : Upto(f, k)}
  <1>1. SUFFICES ASSUME S # {} PROVE FALSE
    BY Size DEF IsChain
  <1>2. PICK k \in S : \A j \in S : k <= j
    BY <1>1, Least
  <1>3. k # 0
    <2>1. Upto([n \in 0 .. 0 |-> l], 0)
      OBVIOUS
    <2> QED  BY <2>1
  <1>4. k \in Nat /\ k - 1 \in Nat /\ k - 1 \notin S
    <2>1. k \in Nat /\ k - 1 \in Nat
      BY <1>2, <1>3
    <2> HIDE DEF S
    <2> QED  BY <1>2, <2>1
  <1>5. PICK f : Upto(f, k - 1)
    BY <1>4
  <1> DEFINE g == [n \in 0 .. k |-> IF n < k THEN f[n] ELSE After(c, f[k - 1])]
  <1>6. Upto(g, k)
    <2>1. ASSUME NEW n \in 0 .. k PROVE g[n] = IF n = 0 THEN l ELSE After(c, g[n - 1])
      <3>1. CASE n = 0
        BY <1>3, <1>5, <3>1
      <3>2. CASE n # 0 /\ n < k
        <4>1. g[n] = f[n] /\ g[n - 1] = f[n - 1] /\ n \in 0 .. k - 1
          BY <1>2, <3>2
        <4>2. f[n] = After(c, f[n - 1])
          BY <1>5, <3>2, <4>1
        <4> QED  BY <3>2, <4>1, <4>2
      <3>3. CASE n = k
        BY <1>2, <1>3, <3>3
      <3> QED  BY <1>2, <3>1, <3>2, <3>3
    <2> QED  BY <2>1
  <1> QED  BY <1>2, <1>6

\* What a chain consists of.
LEMMA ChainSteps ==
    ASSUME NEW f, NEW c, NEW l, IsChain(f, c, l)
    PROVE  /\ DOMAIN f = 0 .. N /\ f[0] = l
           /\ \A n \in 0 .. N - 1 : f[n + 1] = After(c, f[n])
  <1>1. DOMAIN f = 0 .. N /\ 0 \in 0 .. N
    BY Size DEF IsChain
  <1>2. f[0] = l
    BY <1>1 DEF IsChain
  <1>3. ASSUME NEW n \in 0 .. N - 1 PROVE f[n + 1] = After(c, f[n])
    <2>1. n + 1 \in 0 .. N /\ n + 1 # 0 /\ (n + 1) - 1 = n
      BY Size
    <2> QED  BY <2>1 DEF IsChain
  <1> QED  BY <1>1, <1>2, <1>3

\* ChainOf is one.
LEMMA ChainOfIs ==
    ASSUME NEW c, NEW l
    PROVE  IsChain(ChainOf(c, l), c, l)
  BY ChainsExist DEF ChainOf

\* Chain is the chain in the blocks as they are.
LEMMA ChainIs == \A l : Chain(l) = ChainOf(content, l)
  BY DEF Chain, ChainOf, IsChain, After, LinkOf, N

\* Two chains that go on alike after their first lists.
LEMMA SameTail ==
    ASSUME NEW f, NEW c, NEW l, NEW g, NEW d, NEW k, IsChain(f, c, l), IsChain(g, d, k),
           After(c, l) = After(d, k),
           \A n \in 1 .. N : LinkOf(f[n]) => c[f[n][1]] = d[f[n][1]]
    PROVE  \A n \in 1 .. N : f[n] = g[n]
  <1> DEFINE S == {n \in Nat : n \in 1 .. N /\ f[n] # g[n]}
  <1>1. SUFFICES ASSUME S # {} PROVE FALSE
    BY Size
  <1>2. PICK n \in S : \A j \in S : n <= j
    BY <1>1, Least
  <1>3. n \in 1 .. N /\ n - 1 \in 0 .. N - 1 /\ (n - 1) + 1 = n
    BY <1>2, Size
  <1>4. f[n] = After(c, f[n - 1]) /\ g[n] = After(d, g[n - 1]) /\ f[0] = l /\ g[0] = k
    BY <1>3, ChainSteps
  <1>5. CASE n = 1
    BY <1>2, <1>4, <1>5
  <1>6. CASE n # 1
    <2>1. n - 1 \in 1 .. N /\ n - 1 \notin S
      <3>1. n \in Nat /\ n - 1 \in 1 .. N
        BY <1>3, <1>6, Size
      <3> HIDE DEF S
      <3> QED  BY <1>2, <3>1
    <2>2. f[n - 1] = g[n - 1]
      BY <2>1, Size
    <2> QED  BY <1>2, <1>4, <2>1, <2>2 DEF After
  <1> QED  BY <1>5, <1>6

\* The chain that begins with the second list.
LEMMA Shift ==
    ASSUME NEW f, NEW c, NEW l, NEW g, IsChain(f, c, l), IsChain(g, c, After(c, l))
    PROVE  \A n \in 0 .. N - 1 : f[n + 1] = g[n]
  <1> DEFINE S == {n \in Nat : n \in 0 .. N - 1 /\ f[n + 1] # g[n]}
  <1>1. SUFFICES ASSUME S # {} PROVE FALSE
    BY Size
  <1>2. PICK n \in S : \A j \in S : n <= j
    BY <1>1, Least
  <1>3. n \in 0 .. N - 1 /\ f[n + 1] = After(c, f[n]) /\ f[0] = l /\ g[0] = After(c, l)
    BY <1>2, ChainSteps
  <1>4. CASE n = 0
    BY <1>2, <1>3, <1>4
  <1>5. CASE n # 0
    <2>1. n - 1 \in 0 .. N - 1 /\ (n - 1) + 1 = n /\ n - 1 \notin S
      BY <1>2, <1>3, <1>5, Size
    <2>2. f[n] = g[n - 1] /\ g[n] = After(c, g[n - 1])
      BY <2>1, ChainSteps
    <2> QED  BY <1>2, <1>3, <2>2
  <1> QED  BY <1>4, <1>5

\* After an empty list there are none.
LEMMA Links ==
    ASSUME NEW f, NEW c, NEW l, IsChain(f, c, l), NEW k \in 0 .. N, f[k] # <<>>
    PROVE  \A n \in 0 .. k - 1 : LinkOf(f[n])
  <1> DEFINE S == {d \in Nat : d \in 1 .. k /\ ~ LinkOf(f[k - d])}
  <1>1. SUFFICES ASSUME S # {} PROVE FALSE
    <2>1. ASSUME NEW n \in 0 .. k - 1, ~ LinkOf(f[n]) PROVE k - n \in S
      <3>1. k - n \in 1 .. k /\ k - (k - n) = n
        BY Size
      <3> QED  BY <2>1, <3>1
    <2> QED  BY <1>1, <2>1
  <1>2. PICK d \in S : \A j \in S : d <= j
    BY <1>1, Least
  <1>3. d \in 1 .. k /\ k - d \in 0 .. N - 1 /\ ~ LinkOf(f[k - d])
    BY <1>2, Size
  <1>4. f[(k - d) + 1] = <<>>
    BY <1>3, ChainSteps DEF After
  <1>5. d # 1
    BY <1>3, <1>4, Size
  <1>6. d - 1 \in 1 .. k /\ k - (d - 1) = (k - d) + 1
    BY <1>3, <1>5, Size
  <1>7. d - 1 \in S
    BY <1>4, <1>6 DEF LinkOf
  <1> QED  BY <1>2, <1>3, <1>7, Size

\* A chain without repetitions, whose links are in S, has no more lists after
\* as many as S has blocks.
LEMMA Ends ==
    ASSUME NEW f, NEW c, NEW l, IsChain(f, c, l), Distinct(f),
           NEW S \in SUBSET Data, Blocks(f) \subseteq S,
           \A n \in 0 .. N : f[n] # <<>> => 1 \in DOMAIN f[n]
    PROVE  /\ Cardinality(S) \in 0 .. N /\ ~ LinkOf(f[Cardinality(S)])
           /\ \A n \in Cardinality(S) + 1 .. N : f[n] = <<>>
  <1> DEFINE k == Cardinality(S)
  <1>1. IsFiniteSet(S) /\ k \in Nat /\ k <= N
    BY Size, FS_Subset, FS_CardinalityType DEF N
  <1>2. ASSUME LinkOf(f[k]) PROVE FALSE
    <2>1. f[k] # <<>> /\ k \in 0 .. N /\ LinkOf(f[k])
      BY <1>1, <1>2, Size DEF LinkOf
    <2> HIDE DEF k
    <2>l. \A n \in 0 .. k - 1 : LinkOf(f[n])
      BY <2>1, Links
    <2>2. \A n \in 0 .. k : LinkOf(f[n]) /\ n \in 0 .. N
      <3> SUFFICES ASSUME NEW n \in 0 .. k PROVE LinkOf(f[n]) /\ n \in 0 .. N
        OBVIOUS
      <3>1. n = k \/ n \in 0 .. k - 1
        BY <1>1, <2>1
      <3> QED  BY <1>1, <1>2, <2>1, <2>l, <3>1, Size
    <2> DEFINE g == [n \in 0 .. k |-> f[n][1]]
    <2>3. ASSUME NEW n \in 0 .. k PROVE f[n][1] \in S
      BY <2>2 DEF LinkOf, Blocks
    <2>4. g \in [0 .. k -> S]
      BY <2>3
    <2>5. \A x, y \in 0 .. k : g[x] = g[y] => x = y
      BY <2>2 DEF Distinct, LinkOf
    <2>6. IsFiniteSet(0 .. k) /\ Cardinality(0 .. k) = k + 1
      BY <1>1, FS_Interval
    <2> HIDE DEF g
    <2>7. Cardinality(S) < Cardinality(0 .. k)
      BY <1>1, <2>6 DEF k
    <2>8. \E x, y \in 0 .. k : x # y /\ g[x] = g[y]
      BY <1>1, <2>4, <2>6, <2>7, FS_PigeonHole
    <2> QED  BY <2>5, <2>8
  <1>3. k \in 0 .. N
    BY <1>1, Size
  <1> HIDE DEF k
  <1>4. ASSUME NEW n \in k + 1 .. N PROVE f[n] = <<>>
    <2>1. n \in 0 .. N /\ k \in 0 .. n - 1
      BY <1>3, Size
    <2> QED  BY <1>2, <2>1, Links
  <1> QED  BY <1>2, <1>3, <1>4 DEF k

\* The lists of a chain are those one has.
LEMMA ChainLists ==
    ASSUME NEW S, <<>> \in S, NEW c \in [Data -> S], NEW l \in S, NEW f, IsChain(f, c, l)
    PROVE  \A n \in 0 .. N : f[n] \in S
  <1> SUFFICES ASSUME NEW n \in 0 .. N PROVE f[n] \in S
    OBVIOUS
  <1>1. CASE n = 0
    BY <1>1, ChainSteps
  <1>2. CASE n # 0
    <2>1. n - 1 \in 0 .. N - 1 /\ (n - 1) + 1 = n
      BY <1>2, Size
    <2>2. f[n] = After(c, f[n - 1])
      BY <2>1, ChainSteps
    <2> QED  BY <2>2 DEF After, LinkOf
  <1> QED  BY <1>1, <1>2

\* A list that is written to a block outside the chain changes nothing.
LEMMA Frame ==
    ASSUME NEW f, NEW c, NEW l, NEW g, NEW d, IsChain(f, c, l), IsChain(g, d, l),
           NEW b, \A x \in Data \ {b} : c[x] = d[x], b \notin Blocks(f),
           \A n \in 0 .. N : f[n] # <<>> => 1 \in DOMAIN f[n]
    PROVE  f = g
  <1>1. DOMAIN f = 0 .. N /\ f[0] = l /\ DOMAIN g = 0 .. N /\ g[0] = l
    BY ChainSteps
  <1>2. ASSUME NEW n \in 0 .. N, LinkOf(f[n]) PROVE c[f[n][1]] = d[f[n][1]]
    BY <1>2 DEF LinkOf, Blocks
  <1>3. 0 \in 0 .. N /\ 1 .. N \subseteq 0 .. N
    BY Size
  <1>4. After(c, l) = After(d, l)
    BY <1>1, <1>2, <1>3 DEF After
  <1>5. \A n \in 1 .. N : f[n] = g[n]
    BY <1>2, <1>3, <1>4, SameTail
  <1>6. \A n \in 0 .. N : f[n] = g[n]
    <2> SUFFICES ASSUME NEW n \in 0 .. N PROVE f[n] = g[n]
      OBVIOUS
    <2>1. n = 0 \/ n \in 1 .. N
      BY Size
    <2> QED  BY <1>1, <1>5, <2>1
  <1>7. f = [n \in 0 .. N |-> f[n]] /\ g = [n \in 0 .. N |-> g[n]]
    BY <1>1 DEF IsChain
  <1> QED  BY <1>6, <1>7

\* k is l with b at the place t, as far as blocks are concerned.
Adds(l, k, b, t) ==
    /\ t \in DOMAIN k /\ k[t] = b
    /\ \A i \in DOMAIN k : k[i] \in Data /\ i # t => i \in DOMAIN l /\ l[i] = k[i]
    /\ \A i \in DOMAIN l : l[i] \in Data => i \in DOMAIN k /\ i # t /\ k[i] = l[i]

\* A block is added to the first list of a chain, or taken from it.
LEMMA HeadAdds ==
    ASSUME NEW f, NEW g, NEW b \in Data, NEW t, Adds(f[0], g[0], b, t), \A n \in 1 .. N : f[n] = g[n]
    PROVE  /\ Distinct(g) => Distinct(f) /\ Blocks(f) = Blocks(g) \ {b}
           /\ Distinct(f) /\ b \notin Blocks(f) => Distinct(g) /\ Blocks(g) = Blocks(f) \cup {b}
  <1>0. 0 \in 0 .. N /\ \A n \in 0 .. N : n = 0 \/ n \in 1 .. N
    BY Size
  <1>1. \A n \in 0 .. N : \A i \in DOMAIN f[n] : f[n][i] \in Data =>
           i \in DOMAIN g[n] /\ g[n][i] = f[n][i] /\ ~ (n = 0 /\ i = t)
    BY <1>0 DEF Adds
  <1>2. \A n \in 0 .. N : \A i \in DOMAIN g[n] : g[n][i] \in Data /\ ~ (n = 0 /\ i = t) =>
           i \in DOMAIN f[n] /\ f[n][i] = g[n][i]
    BY <1>0 DEF Adds
  <1>3. t \in DOMAIN g[0] /\ g[0][t] = b
    BY DEF Adds
  <1>4. ASSUME Distinct(g) PROVE Distinct(f) /\ Blocks(f) = Blocks(g) \ {b}
    <2>1. Distinct(f)
      <3> SUFFICES ASSUME NEW m \in 0 .. N, NEW n \in 0 .. N, NEW i \in DOMAIN f[m], NEW j \in DOMAIN f[n],
                          f[m][i] = f[n][j], f[m][i] \in Data
                   PROVE  m = n /\ i = j
        BY DEF Distinct
      <3>1. i \in DOMAIN g[m] /\ j \in DOMAIN g[n] /\ g[m][i] = g[n][j] /\ g[m][i] \in Data
        BY <1>1
      <3> QED  BY <1>4, <3>1 DEF Distinct
    <2>2. ASSUME NEW x \in Blocks(f) PROVE x \in Blocks(g) \ {b}
      <3>1. PICK n \in 0 .. N : \E i \in DOMAIN f[n] : f[n][i] = x
        BY DEF Blocks
      <3>2. PICK i \in DOMAIN f[n] : f[n][i] = x
        BY <3>1
      <3>3. x \in Data /\ i \in DOMAIN g[n] /\ g[n][i] = x /\ ~ (n = 0 /\ i = t)
        BY <1>1, <3>2 DEF Blocks
      <3>4. x # b
        BY <1>0, <1>3, <1>4, <3>3 DEF Distinct
      <3> QED  BY <3>3, <3>4 DEF Blocks
    <2>3. ASSUME NEW x \in Blocks(g), x # b PROVE x \in Blocks(f)
      <3>1. PICK n \in 0 .. N : \E i \in DOMAIN g[n] : g[n][i] = x
        BY DEF Blocks
      <3>2. PICK i \in DOMAIN g[n] : g[n][i] = x
        BY <3>1
      <3>3. x \in Data /\ i \in DOMAIN f[n] /\ f[n][i] = x
        BY <1>2, <1>3, <2>3, <3>2 DEF Blocks
      <3> QED  BY <3>3 DEF Blocks
    <2> QED  BY <2>1, <2>2, <2>3
  <1>5. ASSUME Distinct(f), b \notin Blocks(f) PROVE Distinct(g) /\ Blocks(g) = Blocks(f) \cup {b}
    <2>0. ASSUME NEW n \in 0 .. N, NEW i \in DOMAIN f[n] PROVE f[n][i] # b
      BY <1>5, <2>0 DEF Blocks
    <2>1. Distinct(g)
      <3> SUFFICES ASSUME NEW m \in 0 .. N, NEW n \in 0 .. N, NEW i \in DOMAIN g[m], NEW j \in DOMAIN g[n],
                          g[m][i] = g[n][j], g[m][i] \in Data
                   PROVE  m = n /\ i = j
        BY DEF Distinct
      <3>1. CASE (m = 0 /\ i = t) \/ (n = 0 /\ j = t)
        <4>1. g[m][i] = b
          BY <1>3, <3>1
        <4>2. (m = 0 /\ i = t) /\ (n = 0 /\ j = t)
          BY <1>2, <2>0, <4>1
        <4> QED  BY <4>2
      <3>2. CASE ~ (m = 0 /\ i = t) /\ ~ (n = 0 /\ j = t)
        <4>1. i \in DOMAIN f[m] /\ j \in DOMAIN f[n] /\ f[m][i] = f[n][j] /\ f[m][i] \in Data
          BY <1>2, <3>2
        <4> QED  BY <1>5, <4>1 DEF Distinct
      <3> QED  BY <3>1, <3>2
    <2>2. ASSUME NEW x \in Blocks(f) PROVE x \in Blocks(g)
      <3>1. PICK n \in 0 .. N : \E i \in DOMAIN f[n] : f[n][i] = x
        BY DEF Blocks
      <3>2. PICK i \in DOMAIN f[n] : f[n][i] = x
        BY <3>1
      <3>3. x \in Data /\ i \in DOMAIN g[n] /\ g[n][i] = x
        BY <1>1, <3>2 DEF Blocks
      <3> QED  BY <3>3 DEF Blocks
    <2>3. b \in Blocks(g)
      BY <1>0, <1>3 DEF Blocks
    <2>4. ASSUME NEW x \in Blocks(g), x # b PROVE x \in Blocks(f)
      <3>1. PICK n \in 0 .. N : \E i \in DOMAIN g[n] : g[n][i] = x
        BY DEF Blocks
      <3>2. PICK i \in DOMAIN g[n] : g[n][i] = x
        BY <3>1
      <3>3. x \in Data /\ i \in DOMAIN f[n] /\ f[n][i] = x
        BY <1>2, <1>3, <2>4, <3>2 DEF Blocks
      <3> QED  BY <3>3 DEF Blocks
    <2> QED  BY <2>1, <2>2, <2>3, <2>4
  <1> QED  BY <1>4, <1>5

\* g is f without its first list, which has but the block b, at its beginning.
Drops(f, g, b) ==
    /\ \A n \in 0 .. N - 1 : f[n + 1] = g[n]
    /\ g[N] = <<>>
    /\ 1 \in DOMAIN f[0] /\ f[0][1] = b /\ \A i \in DOMAIN f[0] : f[0][i] \in Data => i = 1

\* The first list of a chain goes, or comes.
LEMMA HeadDrops ==
    ASSUME NEW f, NEW g, NEW b \in Data, Drops(f, g, b)
    PROVE  /\ Distinct(f) => Distinct(g) /\ Blocks(g) = Blocks(f) \ {b}
           /\ Distinct(g) /\ b \notin Blocks(g) => Distinct(f) /\ Blocks(f) = Blocks(g) \cup {b}
  <1>0. /\ 0 \in 0 .. N
        /\ \A n \in 0 .. N : n = N \/ (n \in 0 .. N - 1 /\ n + 1 \in 0 .. N /\ n + 1 # 0)
        /\ \A n \in 0 .. N : n = 0 \/ (n - 1 \in 0 .. N - 1 /\ n - 1 \in 0 .. N /\ (n - 1) + 1 = n)
        /\ \A m, n \in 0 .. N : m + 1 = n + 1 => m = n
        /\ \A m, n \in 0 .. N : m - 1 = n - 1 => m = n
    BY Size
  <1>1. \A n \in 0 .. N : \A i \in DOMAIN g[n] : g[n][i] \in Data =>
           n + 1 \in 0 .. N /\ n + 1 # 0 /\ i \in DOMAIN f[n + 1] /\ f[n + 1][i] = g[n][i]
    <2>1. DOMAIN <<>> = {}
      OBVIOUS
    <2> QED  BY <1>0, <2>1 DEF Drops
  <1>2. \A n \in 0 .. N : \A i \in DOMAIN f[n] : f[n][i] \in Data =>
           \/ n = 0 /\ i = 1 /\ f[n][i] = b
           \/ n # 0 /\ n - 1 \in 0 .. N /\ i \in DOMAIN g[n - 1] /\ g[n - 1][i] = f[n][i]
    BY <1>0 DEF Drops
  <1>3. 1 \in DOMAIN f[0] /\ f[0][1] = b
    BY DEF Drops
  <1>4. ASSUME Distinct(f) PROVE Distinct(g) /\ Blocks(g) = Blocks(f) \ {b}
    <2>1. Distinct(g)
      <3> SUFFICES ASSUME NEW m \in 0 .. N, NEW n \in 0 .. N, NEW i \in DOMAIN g[m], NEW j \in DOMAIN g[n],
                          g[m][i] = g[n][j], g[m][i] \in Data
                   PROVE  m = n /\ i = j
        BY DEF Distinct
      <3>1. /\ m + 1 \in 0 .. N /\ n + 1 \in 0 .. N /\ i \in DOMAIN f[m + 1] /\ j \in DOMAIN f[n + 1]
            /\ f[m + 1][i] = f[n + 1][j] /\ f[m + 1][i] \in Data
        BY <1>1
      <3>2. m + 1 = n + 1 /\ i = j
        BY <1>4, <3>1 DEF Distinct
      <3> QED  BY <1>0, <3>2
    <2>2. ASSUME NEW x \in Blocks(g) PROVE x \in Blocks(f) \ {b}
      <3>1. PICK n \in 0 .. N : \E i \in DOMAIN g[n] : g[n][i] = x
        BY DEF Blocks
      <3>2. PICK i \in DOMAIN g[n] : g[n][i] = x
        BY <3>1
      <3>3. x \in Data /\ n + 1 \in 0 .. N /\ n + 1 # 0 /\ i \in DOMAIN f[n + 1] /\ f[n + 1][i] = x
        BY <1>1, <3>2 DEF Blocks
      <3>4. x # b
        BY <1>0, <1>3, <1>4, <3>3 DEF Distinct
      <3> QED  BY <3>3, <3>4 DEF Blocks
    <2>3. ASSUME NEW x \in Blocks(f), x # b PROVE x \in Blocks(g)
      <3>1. PICK n \in 0 .. N : \E i \in DOMAIN f[n] : f[n][i] = x
        BY DEF Blocks
      <3>2. PICK i \in DOMAIN f[n] : f[n][i] = x
        BY <3>1
      <3>3. x \in Data /\ n - 1 \in 0 .. N /\ i \in DOMAIN g[n - 1] /\ g[n - 1][i] = x
        BY <1>2, <2>3, <3>2 DEF Blocks
      <3> QED  BY <3>3 DEF Blocks
    <2> QED  BY <2>1, <2>2, <2>3
  <1>5. ASSUME Distinct(g), b \notin Blocks(g) PROVE Distinct(f) /\ Blocks(f) = Blocks(g) \cup {b}
    <2>0. ASSUME NEW n \in 0 .. N, NEW i \in DOMAIN g[n] PROVE g[n][i] # b
      BY <1>5, <2>0 DEF Blocks
    <2>1. Distinct(f)
      <3> SUFFICES ASSUME NEW m \in 0 .. N, NEW n \in 0 .. N, NEW i \in DOMAIN f[m], NEW j \in DOMAIN f[n],
                          f[m][i] = f[n][j], f[m][i] \in Data
                   PROVE  m = n /\ i = j
        BY DEF Distinct
      <3>1. CASE m = 0 \/ n = 0
        <4>1. f[m][i] = b
          BY <1>2, <3>1
        <4>2. (m = 0 /\ i = 1) /\ (n = 0 /\ j = 1)
          BY <1>2, <2>0, <4>1, ZenonT(60)
        <4> QED  BY <4>2
      <3>2. CASE m # 0 /\ n # 0
        <4>1. /\ m - 1 \in 0 .. N /\ n - 1 \in 0 .. N /\ i \in DOMAIN g[m - 1] /\ j \in DOMAIN g[n - 1]
              /\ g[m - 1][i] = g[n - 1][j] /\ g[m - 1][i] \in Data
          BY <1>2, <3>2
        <4>2. m - 1 = n - 1 /\ i = j
          BY <1>5, <4>1 DEF Distinct
        <4> QED  BY <1>0, <4>2
      <3> QED  BY <3>1, <3>2
    <2>2. ASSUME NEW x \in Blocks(g) PROVE x \in Blocks(f)
      <3>1. PICK n \in 0 .. N : \E i \in DOMAIN g[n] : g[n][i] = x
        BY DEF Blocks
      <3>2. PICK i \in DOMAIN g[n] : g[n][i] = x
        BY <3>1
      <3>3. x \in Data /\ n + 1 \in 0 .. N /\ i \in DOMAIN f[n + 1] /\ f[n + 1][i] = x
        BY <1>1, <3>2 DEF Blocks
      <3> QED  BY <3>3 DEF Blocks
    <2>3. b \in Blocks(f)
      BY <1>0, <1>3 DEF Blocks
    <2>4. ASSUME NEW x \in Blocks(f), x # b PROVE x \in Blocks(g)
      <3>1. PICK n \in 0 .. N : \E i \in DOMAIN f[n] : f[n][i] = x
        BY DEF Blocks
      <3>2. PICK i \in DOMAIN f[n] : f[n][i] = x
        BY <3>1
      <3>3. x \in Data /\ n - 1 \in 0 .. N /\ i \in DOMAIN g[n - 1] /\ g[n - 1][i] = x
        BY <1>2, <2>4, <3>2 DEF Blocks
      <3> QED  BY <3>3 DEF Blocks
    <2> QED  BY <2>1, <2>2, <2>3, <2>4
  <1> QED  BY <1>4, <1>5

\* The chain after its first list, when that has b only, and the other way
\* round: either is without repetitions.
LEMMA ChainDrops ==
    ASSUME NEW f, NEW c, NEW l, NEW g, NEW b \in Data, IsChain(f, c, l), IsChain(g, c, c[b]),
           1 \in DOMAIN l, l[1] = b, \A i \in DOMAIN l : l[i] \in Data => i = 1, l # <<>>,
           \A n \in 0 .. N : (f[n] # <<>> => 1 \in DOMAIN f[n]) /\ (g[n] # <<>> => 1 \in DOMAIN g[n]),
           Distinct(f) \/ (Distinct(g) /\ b \notin Blocks(g))
    PROVE  Drops(f, g, b)
  <1>0. N # 0 /\ N - 1 \in 0 .. N - 1 /\ (N - 1) + 1 = N /\ N \in 0 .. N
    <2>1. N # 0
      BY Size, FS_EmptySet DEF N
    <2> QED  BY <2>1, Size
  <1>1. f[0] = l /\ After(c, l) = c[b]
    BY ChainSteps DEF After, LinkOf
  <1>2. \A n \in 0 .. N - 1 : f[n + 1] = g[n]
    BY <1>1, Shift
  <1>3. g[N] = After(c, g[N - 1]) /\ g[N - 1] = f[N]
    BY <1>0, <1>2, ChainSteps
  <1>4. g[N] = <<>>
    <2>1. CASE Distinct(f)
      <3>1. ~ LinkOf(f[N])
        <4>1. Blocks(f) \subseteq Data
          BY DEF Blocks
        <4> QED  BY <2>1, <4>1, Ends DEF N
      <3> QED  BY <1>3, <3>1 DEF After
    <2>2. CASE Distinct(g) /\ b \notin Blocks(g)
      <3> DEFINE S == Data \ {b}
      <3>1. Cardinality(S) = N - 1
        BY Size, FS_RemoveElement DEF N
      <3>2. Blocks(g) \subseteq S
        BY <2>2 DEF Blocks
      <3>3. N \in Cardinality(S) + 1 .. N
        BY <1>0, <3>1, Size
      <3> QED  BY <2>2, <3>2, <3>3, Ends
    <2> QED  BY <2>1, <2>2
  <1> QED  BY <1>1, <1>2, <1>4 DEF Drops

-----------------------------------------------------------------------------
(* The blocks that are free, by their first list.                          *)

\* What lists are.
LEMMA ListsAre ==
    /\ <<>> \in Lists
    /\ \A l \in Lists : /\ l \in Seq(Number) /\ Len(l) \in Nat /\ DOMAIN l = 1 .. Len(l)
                        /\ Len(l) <= NICFREE
                        /\ (l # <<>> => 1 \in DOMAIN l)
                        /\ \A i \in DOMAIN l : l[i] \in Number /\ (l[i] = Zero => i = 1)
  BY FreeListAssumption DEF Lists

\* The lists of a chain are lists.
LEMMA ListsOf ==
    ASSUME NEW c \in [Data -> Lists], NEW l \in Lists
    PROVE  \A n \in 0 .. N : LET k == ChainOf(c, l)[n] IN k \in Lists /\ (k # <<>> => 1 \in DOMAIN k)
  BY ChainOfIs, ChainLists, ListsAre

\* A list without blocks.
LEMMA NoBlocks ==
    ASSUME NEW c, NEW l \in Lists, \A i \in DOMAIN l : l[i] \notin Data
    PROVE  FreeOf(c, l) = {} /\ Once(c, l)
  <1> DEFINE f == ChainOf(c, l)
  <1>1. IsChain(f, c, l) /\ f[0] = l
    BY ChainOfIs, ChainSteps
  <1> HIDE DEF f
  <1>2. ~ LinkOf(f[0])
    BY <1>1, ListsAre DEF LinkOf
  <1>3. ASSUME NEW n \in 0 .. N, n # 0 PROVE f[n] = <<>>
    <2>1. 0 \in 0 .. n - 1
      BY <1>3, Size
    <2> QED  BY <1>1, <1>2, <2>1, Links
  <1>4. \A n \in 0 .. N : \A i \in DOMAIN f[n] : f[n][i] \notin Data
    <2>1. DOMAIN <<>> = {}
      OBVIOUS
    <2> QED  BY <1>1, <1>3, <2>1
  <1> QED  BY <1>4 DEF FreeOf, Once, Blocks, Distinct, f

\* A block outside the chain is written.
LEMMA Untouched ==
    ASSUME NEW c \in [Data -> Lists], NEW d \in [Data -> Lists], NEW l \in Lists,
           NEW b, \A x \in Data \ {b} : c[x] = d[x], b \notin FreeOf(c, l)
    PROVE  FreeOf(d, l) = FreeOf(c, l) /\ Once(d, l) = Once(c, l)
  <1>1. ChainOf(c, l) = ChainOf(d, l)
    BY ChainOfIs, ListsOf, Frame DEF FreeOf
  <1> QED  BY <1>1 DEF FreeOf, Once

\* k is l with b pushed, and the chain goes on as before.
Extends(c, l, k, b) ==
    b \in Data /\ After(c, l) = After(c, k) /\ \E t \in DOMAIN k : Adds(l, k, b, t)

\* A block is pushed or popped.
LEMMA Pushed ==
    ASSUME NEW c, NEW l, NEW k, NEW b, Extends(c, l, k, b)
    PROVE  /\ Once(c, k) => Once(c, l) /\ FreeOf(c, l) = FreeOf(c, k) \ {b}
           /\ Once(c, l) /\ b \notin FreeOf(c, l) => Once(c, k) /\ FreeOf(c, k) = FreeOf(c, l) \cup {b}
  <1>e. PICK t \in DOMAIN k : b \in Data /\ Adds(l, k, b, t) /\ After(c, l) = After(c, k)
    BY DEF Extends
  <1> DEFINE f == ChainOf(c, l)
             g == ChainOf(c, k)
  <1>1. IsChain(f, c, l) /\ IsChain(g, c, k) /\ f[0] = l /\ g[0] = k
    BY ChainOfIs, ChainSteps
  <1> HIDE DEF f, g
  <1>2. \A n \in 1 .. N : f[n] = g[n]
    BY <1>1, <1>e, SameTail
  <1>3. /\ Distinct(g) => Distinct(f) /\ Blocks(f) = Blocks(g) \ {b}
        /\ Distinct(f) /\ b \notin Blocks(f) => Distinct(g) /\ Blocks(g) = Blocks(f) \cup {b}
    BY <1>1, <1>2, <1>e, HeadAdds, ZenonT(60)
  <1> QED  BY <1>3 DEF FreeOf, Once, f, g

\* The block with the next list is popped or pushed.
LEMMA Linked ==
    ASSUME NEW c \in [Data -> Lists], NEW l \in Lists, NEW b \in Data,
           1 \in DOMAIN l, l[1] = b, \A i \in DOMAIN l : l[i] \in Data => i = 1
    PROVE  /\ Once(c, l) => Once(c, c[b]) /\ FreeOf(c, c[b]) = FreeOf(c, l) \ {b}
           /\ Once(c, c[b]) /\ b \notin FreeOf(c, c[b]) =>
                Once(c, l) /\ FreeOf(c, l) = FreeOf(c, c[b]) \cup {b}
  <1> DEFINE f == ChainOf(c, l)
             g == ChainOf(c, c[b])
  <1>1. IsChain(f, c, l) /\ IsChain(g, c, c[b])
    BY ChainOfIs
  <1>2. \A n \in 0 .. N : (f[n] # <<>> => 1 \in DOMAIN f[n]) /\ (g[n] # <<>> => 1 \in DOMAIN g[n])
    BY ListsOf
  <1>3. l # <<>>
    OBVIOUS
  <1> HIDE DEF f, g
  <1>4. Distinct(f) \/ (Distinct(g) /\ b \notin Blocks(g)) => Drops(f, g, b)
    BY <1>1, <1>2, <1>3, ChainDrops
  <1>5. /\ Distinct(f) => Distinct(g) /\ Blocks(g) = Blocks(f) \ {b}
        /\ Distinct(g) /\ b \notin Blocks(g) => Distinct(f) /\ Blocks(f) = Blocks(g) \cup {b}
    BY <1>4, HeadDrops
  <1> QED  BY <1>5 DEF FreeOf, Once, f, g

-----------------------------------------------------------------------------
(* The superblock's list.                                                  *)

\* The greatest of a set of natural numbers that are bounded.
LEMMA MaxIs ==
    ASSUME NEW S \in SUBSET Nat, S # {}, NEW m \in Nat, \A x \in S : x <= m
    PROVE  Max(S) \in S /\ \A x \in S : x <= Max(S)
  <1> DEFINE T == {m - x : x \in S}
  <1>1. T \in SUBSET Nat /\ T # {}
    <2>1. \A x \in S : m - x \in Nat
      OBVIOUS
    <2> QED  BY <2>1
  <1>2. PICK t \in T : \A u \in T : t <= u
    BY <1>1, Least
  <1>3. PICK y \in S : t = m - y
    BY <1>2
  <1>4. ASSUME NEW x \in S PROVE y >= x
    <2>1. m - x \in T /\ x \in Nat /\ y \in Nat
      OBVIOUS
    <2>2. m - y <= m - x
      BY <1>2, <1>3, <2>1
    <2> HIDE DEF T
    <2> QED  BY <2>1, <2>2
  <1>5. Max(S) \in S /\ \A x \in S : Max(S) >= x
    BY <1>4 DEF Max
  <1> QED  BY <1>5

\* Where alloc's loop over the numbers out of range ends.
LEMMA TopIs ==
    ASSUME super \in Lists
    PROVE  /\ Top \in 0 .. Len(super)
           /\ \A i \in DOMAIN super : i > Top => super[i] \notin Data
           /\ Empty => \A i \in DOMAIN super : super[i] \notin Data
           /\ ~ Empty => Top \in DOMAIN super /\ super[Top] \in Data
  <1>1. /\ super \in Seq(Number) /\ Len(super) \in Nat /\ DOMAIN super = 1 .. Len(super)
        /\ \A i \in DOMAIN super : super[i] \in Number /\ (super[i] = Zero => i = 1)
    BY ListsAre
  <1> DEFINE S == {0} \cup {i \in DOMAIN super : super[i] = Zero \/ ~ badblock(super[i])}
  <1>2. S \in SUBSET Nat /\ S # {} /\ \A x \in S : x <= Len(super)
    BY <1>1
  <1>3. Top \in S /\ \A x \in S : x <= Top
    <2>1. Top = Max(S)
      BY DEF Top
    <2> HIDE DEF S
    <2> QED  BY <1>1, <1>2, <2>1, MaxIs
  <1>4. Top \in 0 .. Len(super)
    BY <1>1, <1>2, <1>3
  <1>5. ASSUME NEW i \in DOMAIN super, i > Top PROVE super[i] \notin Data
    BY <1>1, <1>3, <1>4, <1>5 DEF badblock
  <1>6. ASSUME Empty PROVE \A i \in DOMAIN super : super[i] \notin Data
    <2>1. Top = 0 \/ (Top \in DOMAIN super /\ super[Top] = Zero)
      BY <1>3, <1>6 DEF Empty
    <2>2. Zero \notin Data
      BY FreeListAssumption
    <2>3. CASE Top = 0
      BY <1>1, <1>5, <2>3
    <2>4. CASE Top \in DOMAIN super /\ super[Top] = Zero
      <3>1. Top = 1
        BY <1>1, <2>4
      <3>2. \A i \in DOMAIN super : i = 1 \/ i > 1
        BY <1>1
      <3> QED  BY <1>5, <2>2, <2>4, <3>1, <3>2
    <2> QED  BY <2>1, <2>3, <2>4
  <1>7. ASSUME ~ Empty PROVE Top \in DOMAIN super /\ super[Top] \in Data
    BY <1>1, <1>3, <1>7 DEF Empty, badblock
  <1> QED  BY <1>4, <1>5, <1>6, <1>7

\* What is left of the list when its last block is popped.
LEMMA PoppedIs ==
    ASSUME super \in Lists, ~ Empty
    PROVE  /\ Popped \in Lists
           /\ Popped = <<>> => /\ 1 \in DOMAIN super /\ super[1] = super[Top]
                               /\ \A i \in DOMAIN super : super[i] \in Data => i = 1
           /\ Popped # <<>> => /\ Adds(Popped, super, super[Top], Top)
                               /\ \A c : After(c, Popped) = After(c, super)
  <1>1. /\ super \in Seq(Number) /\ Len(super) \in Nat /\ DOMAIN super = 1 .. Len(super)
        /\ Len(super) <= NICFREE /\ NICFREE \in Nat
        /\ \A i \in DOMAIN super : super[i] \in Number /\ (super[i] = Zero => i = 1)
    BY ListsAre, FreeListAssumption
  <1>2. /\ Top \in 1 .. Len(super) /\ super[Top] \in Data
        /\ \A i \in DOMAIN super : i > Top => super[i] \notin Data
    BY <1>1, TopIs
  <1> DEFINE t == Top
  <1> HIDE DEF t
  <1>3. t = Top /\ t \in 1 .. Len(super)
    BY <1>2 DEF t
  <1>4. /\ Popped = SubSeq(super, 1, t - 1) /\ Popped \in Seq(Number) /\ Len(Popped) = t - 1
        /\ DOMAIN Popped = 1 .. t - 1 /\ \A i \in 1 .. t - 1 : Popped[i] = super[i]
    BY <1>1, <1>3 DEF Popped
  <1>5. 1 .. t - 1 \subseteq 1 .. Len(super) /\ t - 1 <= NICFREE
    BY <1>1, <1>3
  <1>6. Popped \in Lists
    BY <1>1, <1>4, <1>5 DEF Lists
  <1>7. ASSUME Popped = <<>>
        PROVE  /\ 1 \in DOMAIN super /\ super[1] = super[Top]
               /\ \A i \in DOMAIN super : super[i] \in Data => i = 1
    <2>1. t = 1
      BY <1>1, <1>3, <1>4, <1>7
    <2>2. \A i \in DOMAIN super : i = 1 \/ i > 1
      BY <1>1
    <2> QED  BY <1>1, <1>2, <1>3, <2>1, <2>2
  <1>8. ASSUME Popped # <<>>
        PROVE  Adds(Popped, super, super[Top], Top) /\ \A c : After(c, Popped) = After(c, super)
    <2>1. t > 1
      BY <1>1, <1>3, <1>4, <1>8
    <2>2. Popped[1] = super[1] /\ super # <<>>
      BY <1>1, <1>3, <1>4, <2>1
    <2>3. \A i \in DOMAIN super : i \in DOMAIN Popped \/ i = t \/ i > t
      BY <1>1, <1>3, <1>4
    <2>4. \A i \in DOMAIN Popped : i \in DOMAIN super /\ i # t
      BY <1>1, <1>3, <1>4, <1>5
    <2>5. Adds(Popped, super, super[Top], Top)
      BY <1>1, <1>2, <1>3, <1>4, <2>3, <2>4 DEF Adds
    <2> QED  BY <1>8, <2>2, <2>5 DEF After, LinkOf
  <1> QED  BY <1>6, <1>7, <1>8

\* The list with one block more.
LEMMA AppendedIs ==
    ASSUME super \in Lists, Fits, NEW b \in Data
    PROVE  /\ Append(Grounded, b) \in Lists
           /\ Adds(super, Append(Grounded, b), b, Len(Grounded) + 1)
           /\ \A c : After(c, super) = After(c, Append(Grounded, b))
  <1>1. /\ super \in Seq(Number) /\ Len(super) \in Nat /\ DOMAIN super = 1 .. Len(super)
        /\ Len(super) <= NICFREE /\ NICFREE \in Nat /\ Zero \in Number /\ b \in Number
        /\ Zero \notin Data
        /\ \A i \in DOMAIN super : super[i] \in Number /\ (super[i] = Zero => i = 1)
    BY ListsAre, FreeListAssumption DEF Number
  <1> DEFINE g == Grounded
             k == Append(g, b)
  <1>2. /\ g \in Seq(Number) /\ Len(g) \in Nat /\ Len(g) >= 1 /\ DOMAIN g = 1 .. Len(g)
        /\ Len(g) < NICFREE
        /\ \A i \in DOMAIN g : g[i] = Zero => i = 1
        /\ g = super \/ (super = <<>> /\ g = <<Zero>>)
    <2>1. CASE super = <<>>
      BY <1>1, <2>1 DEF Grounded, Fits
    <2>2. CASE super # <<>>
      <3>1. g = super /\ Len(super) < NICFREE /\ Len(super) # 0
        BY <1>1, <2>2 DEF Grounded, Fits
      <3> HIDE DEF g
      <3> QED  BY <1>1, <3>1
    <2> QED  BY <2>1, <2>2
  <1> HIDE DEF g
  <1>3. /\ k \in Seq(Number) /\ Len(k) = Len(g) + 1 /\ DOMAIN k = 1 .. Len(g) + 1
        /\ k[Len(g) + 1] = b /\ \A i \in 1 .. Len(g) : k[i] = g[i]
    BY <1>1, <1>2
  <1>4. \A i \in 1 .. Len(g) + 1 : i = Len(g) + 1 \/ i \in 1 .. Len(g)
    BY <1>2
  <1>5. \A i \in 1 .. Len(g) : i \in 1 .. Len(g) + 1 /\ i # Len(g) + 1
    BY <1>2
  <1> HIDE DEF k
  <1>6. k \in Lists
    <2>1. \A i \in DOMAIN k : k[i] = Zero => i = 1
      BY <1>1, <1>2, <1>3, <1>4
    <2> QED  BY <1>1, <1>2, <1>3, <2>1 DEF Lists
  <1>7. Adds(super, k, b, Len(g) + 1)
    <2>1. CASE g = super
      BY <1>2, <1>3, <1>4, <1>5, <2>1 DEF Adds
    <2>2. CASE super = <<>> /\ g = <<Zero>>
      <3>1. DOMAIN super = {} /\ \A i \in DOMAIN g : g[i] = Zero
        BY <2>2
      <3> QED  BY <1>1, <1>2, <1>3, <1>4, <3>1 DEF Adds
    <2> QED  BY <1>2, <2>1, <2>2
  <1>8. \A c : After(c, super) = After(c, k)
    <2>1. k # <<>> /\ k[1] = g[1]
      BY <1>2, <1>3
    <2>2. CASE g = super
      <3>1. super # <<>>
        BY <1>2, <2>2
      <3> QED  BY <2>1, <2>2, <3>1 DEF After, LinkOf
    <2>3. CASE super = <<>> /\ g = <<Zero>>
      BY <1>1, <2>1, <2>3 DEF After, LinkOf
    <2> QED  BY <1>2, <2>2, <2>3
  <1> QED  BY <1>6, <1>7, <1>8 DEF g, k

-----------------------------------------------------------------------------
(* Steps.                                                                  *)

\* A block of a list is a block of its chain.
LEMMA InChain ==
    ASSUME NEW c, NEW l, NEW i \in DOMAIN l, l[i] \in Data
    PROVE  l[i] \in FreeOf(c, l)
  <1> DEFINE f == ChainOf(c, l)
  <1>1. IsChain(f, c, l) /\ f[0] = l /\ 0 \in 0 .. N
    BY ChainOfIs, ChainSteps, Size
  <1> HIDE DEF f
  <1>2. l[i] \in Blocks(f)
    BY <1>1 DEF Blocks
  <1> QED  BY <1>2 DEF FreeOf, f

\* Where the chain begins, process by process.
LeadingFacts ==
    /\ (\A p \in Proc : pc[p] \notin {"allocRead", "freeWrite"}) => Leading = super
    /\ \A p \in Proc : pc[p] \in {"allocRead", "freeWrite"} => Leading = content[hand[p]]

\* The list that moves is in one process's hands.
LEMMA LeadingIs == Locks => LeadingFacts
  <1> SUFFICES ASSUME Locks PROVE LeadingFacts
    OBVIOUS
  <1>1. ASSUME NEW p \in Moving PROVE Leading = content[hand[p]]
    <2> DEFINE q == CHOOSE r \in Moving : TRUE
    <2>1. q \in Moving
      OBVIOUS
    <2>2. Leading = content[hand[q]]
      BY DEF Leading
    <2> HIDE DEF q
    <2>3. q = p
      BY <2>1 DEF Locks, Moving
    <2> QED  BY <2>2, <2>3
  <1>2. Moving = {} => Leading = super
    BY DEF Leading
  <1> QED  BY <1>1, <1>2 DEF LeadingFacts, Moving

\* The chain begins with a list.
LEMMA LeadingListed ==
    ASSUME FInv
    PROVE  Leading \in Lists
  <1>1. LeadingFacts /\ Typed /\ Apart
    BY LeadingIs DEF FInv
  <1>2. \A p \in Proc : pc[p] \in {"allocRead", "freeWrite"} => hand[p] \in Data
    BY <1>1 DEF Apart, InHand
  <1> QED  BY <1>1, <1>2 DEF LeadingFacts, Typed

\* Where a process goes, the others stay.
LEMMA GoesIs ==
    ASSUME Typed, NEW p \in Proc, NEW there, NEW b, Goes(p, there, b)
    PROVE  /\ DOMAIN pc' = Proc /\ pc'[p] = there /\ \A q \in Proc \ {p} : pc'[q] = pc[q]
           /\ DOMAIN hand' = Proc /\ hand'[p] = b /\ \A q \in Proc \ {p} : hand'[q] = hand[q]
           /\ pc' = [pc EXCEPT ![p] = there] /\ hand' = [hand EXCEPT ![p] = b]
           /\ \A q \in Proc \ {p} : InHand(q)' = InHand(q)
  <1>1. pc' = [pc EXCEPT ![p] = there] /\ hand' = [hand EXCEPT ![p] = b]
    BY DEF Goes
  <1>2. DOMAIN pc = Proc /\ DOMAIN hand = Proc
    BY DEF Typed
  <1>3. \A q \in Proc \ {p} : pc'[q] = pc[q] /\ hand'[q] = hand[q]
    BY <1>1, <1>2
  <1> QED  BY <1>1, <1>2, <1>3 DEF InHand

\* The place of what p had and of what is free or in a file.
LEMMA ApartAfter ==
    ASSUME FInv, NEW p \in Proc, \A q \in Proc \ {p} : InHand(q)' = InHand(q), Once(content, Leading)',
           Available' \cup held' \cup InHand(p)' \subseteq Available \cup held \cup InHand(p),
           Available' \cap held' = {}, InHand(p)' \cap (Available' \cup held') = {}
    PROVE  Apart'
  <1>1. /\ Once(content, Leading) /\ Available \cap held = {} /\ held \subseteq Data
        /\ \A q \in Proc : InHand(q) \subseteq Data \ (Available \cup held)
        /\ \A q, r \in Proc : InHand(q) \cap InHand(r) # {} => q = r
    BY DEF FInv, Apart, Typed
  <1>2. Available \subseteq Data
    BY DEF Available, FreeOf, Blocks
  <1>3. \A q \in Proc : InHand(q)' \subseteq Data \ (Available' \cup held')
    <2> SUFFICES ASSUME NEW q \in Proc PROVE InHand(q)' \subseteq Data \ (Available' \cup held')
      OBVIOUS
    <2>1. CASE q = p
      BY <1>1, <1>2, <2>1
    <2>2. CASE q # p
      <3>1. InHand(q)' = InHand(q) /\ InHand(q) \cap InHand(p) = {}
        BY <1>1, <2>2
      <3> QED  BY <1>1, <3>1
    <2> QED  BY <2>1, <2>2
  <1>4. ASSUME NEW q \in Proc, NEW r \in Proc, q # r PROVE InHand(q)' \cap InHand(r)' = {}
    <2>1. ASSUME NEW s \in Proc, s # p PROVE InHand(s)' \cap InHand(p)' = {}
      <3>1. /\ InHand(s)' = InHand(s) /\ InHand(s) \cap InHand(p) = {}
            /\ InHand(s) \cap (Available \cup held) = {}
        BY <1>1, <2>1
      <3> QED  BY <3>1
    <2>2. CASE q # p /\ r # p
      <3>1. InHand(q)' = InHand(q) /\ InHand(r)' = InHand(r)
        BY <2>2
      <3> QED  BY <1>1, <1>4, <3>1
    <2>3. CASE q = p
      BY <1>4, <2>1, <2>3
    <2>4. CASE r = p
      BY <1>4, <2>1, <2>4
    <2> QED  BY <2>2, <2>3, <2>4
  <1> QED  BY <1>1, <1>3, <1>4 DEF Apart

\* alloc waits for the lock.
LEMMA AllocWaitsStep ==
    ASSUME FInv, NEW p \in Proc, AllocWaits(p)
    PROVE  FInv' /\ Available' = Available
  <1>t. Typed /\ Locks /\ Apart /\ Writing /\ Clean /\ LeadingFacts /\ Leading \in Lists
    BY LeadingIs, LeadingListed DEF FInv
  <1>g. /\ DOMAIN pc' = Proc /\ pc'[p] = "alloc" /\ \A q \in Proc \ {p} : pc'[q] = pc[q]
        /\ DOMAIN hand' = Proc /\ hand'[p] = Zero /\ \A q \in Proc \ {p} : hand'[q] = hand[q]
        /\ pc' = [pc EXCEPT ![p] = "alloc"] /\ hand' = [hand EXCEPT ![p] = Zero]
        /\ \A q \in Proc \ {p} : InHand(q)' = InHand(q)
    BY <1>t, GoesIs DEF AllocWaits, Leaves, Waits

  <1>e. /\ UNCHANGED <<super, flock, fmod, content, held, updlock, unsaved, dsuper, image, failed>>
        /\ pc[p] \in {"idle", "alloc"} /\ asleep' \subseteq Proc
    BY <1>t DEF AllocWaits, Enters, Waits, saved, Typed
  <1>i. InHand(p) = {} /\ InHand(p)' = {}
    BY <1>g, <1>e DEF InHand
  <1>l. Latest' = Latest /\ Stale' = Stale
    BY <1>t, <1>g, <1>e DEF Latest, Stale
  <1>r. GivenUp' = GivenUp
    BY <1>t, <1>g, <1>e DEF GivenUp
  <1>1. Typed'
    BY <1>t, <1>g, <1>e DEF Typed
  <1>2. Locks'
    BY <1>t, <1>g, <1>e DEF Locks, Moving
  <1>f. LeadingFacts'
    BY <1>2, LeadingIs, PTL
  <1>h. Leading' = Leading
    BY <1>t, <1>g, <1>e, <1>f DEF LeadingFacts
  <1>a. Available' = Available /\ Once(content, Leading)'
    BY <1>t, <1>e, <1>h DEF Available, Apart
  <1>3. Apart'
    BY <1>t, <1>g, <1>e, <1>i, <1>a, ApartAfter DEF Apart
  <1>4. Writing'
    BY <1>t, <1>g, <1>e DEF Writing
  <1>5. Clean'
    BY <1>t, <1>g, <1>e, <1>l, <1>r DEF Clean
  <1> QED  BY <1>1, <1>2, <1>3, <1>4, <1>5, <1>a DEF FInv

\* alloc finds that there is no space.
LEMMA AllocNoSpaceStep ==
    ASSUME FInv, NEW p \in Proc, AllocNoSpace(p)
    PROVE  FInv' /\ Available = {} /\ Available' = {}
  <1>t. Typed /\ Locks /\ Apart /\ Writing /\ Clean /\ LeadingFacts /\ Leading \in Lists
    BY LeadingIs, LeadingListed DEF FInv
  <1>g. /\ DOMAIN pc' = Proc /\ pc'[p] = "idle" /\ \A q \in Proc \ {p} : pc'[q] = pc[q]
        /\ DOMAIN hand' = Proc /\ hand'[p] = Zero /\ \A q \in Proc \ {p} : hand'[q] = hand[q]
        /\ pc' = [pc EXCEPT ![p] = "idle"] /\ hand' = [hand EXCEPT ![p] = Zero]
        /\ \A q \in Proc \ {p} : InHand(q)' = InHand(q)
    BY <1>t, GoesIs DEF AllocNoSpace, Leaves, Waits

  <1>e. /\ UNCHANGED <<flock, fmod, content, held, asleep, updlock, unsaved, dsuper, image, failed>>
        /\ pc[p] \in {"idle", "alloc"} /\ super' = <<>> /\ ~ flock /\ Empty
    BY <1>t DEF AllocNoSpace, NoSpace, Enters, Locked, saved
  <1>i. InHand(p) = {} /\ InHand(p)' = {}
    BY <1>g, <1>e DEF InHand
  <1>n. FreeOf(content, <<>>) = {} /\ Once(content, <<>>)
    BY NoBlocks, ListsAre
  <1>l. Latest' = Latest /\ Stale' = Stale
    BY <1>t, <1>g, <1>e DEF Latest, Stale
  <1>r. GivenUp' = GivenUp
    BY <1>t, <1>g, <1>e DEF GivenUp
  <1>1. Typed'
    BY <1>t, <1>g, <1>e, ListsAre DEF Typed
  <1>2. Locks'
    BY <1>t, <1>g, <1>e DEF Locks, Moving
  <1>f. LeadingFacts'
    BY <1>2, LeadingIs, PTL
  <1>h. Leading = super /\ Leading' = super'
    BY <1>t, <1>g, <1>e, <1>f DEF LeadingFacts, Locks
  <1>a. Available = {} /\ Available' = {} /\ Once(content, Leading)'
    <2>1. Available = {}
      BY <1>t, <1>e, <1>h, TopIs, NoBlocks DEF Available
    <2> QED  BY <1>e, <1>h, <1>n, <2>1 DEF Available
  <1>3. Apart'
    BY <1>t, <1>g, <1>e, <1>i, <1>a, ApartAfter DEF Apart
  <1>4. Writing'
    BY <1>t, <1>g, <1>e DEF Writing
  <1>5. Clean'
    BY <1>t, <1>g, <1>e, <1>l, <1>r, <1>n DEF Clean
  <1> QED  BY <1>1, <1>2, <1>3, <1>4, <1>5, <1>a DEF FInv

\* alloc pops a block.
LEMMA AllocPopsStep ==
    ASSUME FInv, NEW p \in Proc, AllocPops(p)
    PROVE  /\ FInv' /\ super[Top] \in Available /\ Available' = Available \ {super[Top]}
           /\ pc[p] \in {"idle", "alloc"}
  <1>t. Typed /\ Locks /\ Apart /\ Writing /\ Clean /\ LeadingFacts /\ Leading \in Lists
    BY LeadingIs, LeadingListed DEF FInv
  <1> DEFINE b == super[Top]
             there == IF Popped = <<>> THEN "allocRead" ELSE "allocGet"
  <1>g. /\ DOMAIN pc' = Proc /\ pc'[p] = there /\ \A q \in Proc \ {p} : pc'[q] = pc[q]
        /\ DOMAIN hand' = Proc /\ hand'[p] = b /\ \A q \in Proc \ {p} : hand'[q] = hand[q]
        /\ pc' = [pc EXCEPT ![p] = there] /\ hand' = [hand EXCEPT ![p] = b]
        /\ \A q \in Proc \ {p} : InHand(q)' = InHand(q)
    BY <1>t, GoesIs DEF AllocPops, Leaves, Waits

  <1>e. /\ UNCHANGED <<fmod, content, held, asleep, updlock, unsaved, dsuper, image, failed>>
        /\ pc[p] \in {"idle", "alloc"} /\ super' = Popped /\ ~ flock /\ ~ Empty
        /\ flock' = (Popped = <<>>)
    BY <1>t DEF AllocPops, Enters, Locked, saved
  <1>p. /\ Top \in DOMAIN super /\ b \in Data /\ Popped \in Lists
        /\ Popped = <<>> => /\ 1 \in DOMAIN super /\ super[1] = b
                            /\ \A i \in DOMAIN super : super[i] \in Data => i = 1
        /\ Popped # <<>> => Adds(Popped, super, b, Top) /\ \A c : After(c, Popped) = After(c, super)
    BY <1>t, <1>e, TopIs, PoppedIs DEF Typed
  <1>w. /\ there \in {"allocRead", "allocGet"}
        /\ there = "allocRead" <=> Popped = <<>>
    OBVIOUS
  <1>b. b \in FreeOf(content, super)
    BY <1>p, InChain
  <1>x. b = super[Top]
    OBVIOUS
  <1> HIDE DEF b, there
  <1>i. InHand(p) = {} /\ InHand(p)' = {b}
    BY <1>g, <1>e, <1>w DEF InHand
  <1>l. Latest' = Latest /\ Stale' = Stale
    BY <1>t, <1>g, <1>e, <1>w DEF Latest, Stale
  <1>r. GivenUp' = GivenUp
    BY <1>t, <1>g, <1>e, <1>w DEF GivenUp
  <1>1. Typed'
    BY <1>t, <1>g, <1>e, <1>p, <1>w DEF Typed
  <1>2. Locks'
    BY <1>t, <1>g, <1>e, <1>w DEF Locks, Moving
  <1>f. LeadingFacts'
    BY <1>2, LeadingIs, PTL
  <1>h. Leading = super
    BY <1>t, <1>e DEF LeadingFacts, Locks
  <1>j. Leading' = IF Popped = <<>> THEN content[b] ELSE Popped
    <2>1. CASE Popped = <<>>
      BY <1>g, <1>e, <1>f, <1>w, <2>1 DEF LeadingFacts
    <2>2. CASE Popped # <<>>
      <3>1. \A q \in Proc : pc'[q] \notin {"allocRead", "freeWrite"}
        BY <1>t, <1>g, <1>e, <1>w, <2>2 DEF Locks
      <3> QED  BY <1>e, <1>f, <2>2, <3>1 DEF LeadingFacts
    <2> QED  BY <2>1, <2>2
  <1>a. /\ Available' = Available \ {super[Top]} /\ super[Top] \in Available /\ Once(content, Leading)'
        /\ pc[p] \in {"idle", "alloc"}
    <2>1. CASE Popped = <<>>
      <3>1. Leading' = content[b] /\ content' = content
        BY <1>e, <1>j, <2>1
      <3>2. Once(content, content[b]) /\ FreeOf(content, content[b]) = FreeOf(content, super) \ {b}
        BY <1>t, <1>h, <1>p, <2>1, Linked DEF Apart, Typed
      <3> QED  BY <1>b, <1>e, <1>h, <1>x, <3>1, <3>2 DEF Available
    <2>2. CASE Popped # <<>>
      <3>1. Leading' = Popped /\ content' = content
        BY <1>e, <1>j, <2>2
      <3>2. Once(content, Popped) /\ FreeOf(content, Popped) = FreeOf(content, super) \ {b}
        <4>1. Extends(content, Popped, super, b) /\ Once(content, super)
          BY <1>t, <1>h, <1>p, <2>2 DEF Apart, Extends
        <4> QED  BY <4>1, Pushed
      <3> QED  BY <1>b, <1>e, <1>h, <1>x, <3>1, <3>2 DEF Available
    <2> QED  BY <2>1, <2>2
  <1>3. Apart'
    BY <1>t, <1>g, <1>e, <1>i, <1>a, <1>x, ApartAfter DEF Apart
  <1>4. Writing'
    BY <1>t, <1>g, <1>e, <1>w DEF Writing
  <1>5. Clean'
    BY <1>t, <1>g, <1>e, <1>w, <1>l, <1>r DEF Clean
  <1> QED  BY <1>1, <1>2, <1>3, <1>4, <1>5, <1>a DEF FInv

\* alloc has read the next list.
LEMMA AllocReadsStep ==
    ASSUME FInv, NEW p \in Proc, AllocReads(p)
    PROVE  FInv' /\ Available' = Available /\ (super' = <<>> => Available = {})
  <1>t. Typed /\ Locks /\ Apart /\ Writing /\ Clean /\ LeadingFacts /\ Leading \in Lists
    BY LeadingIs, LeadingListed DEF FInv
  <1> DEFINE there == IF super' = <<>> THEN "idle" ELSE "allocGet"
             b == IF super' = <<>> THEN Zero ELSE hand[p]
  <1>g. /\ DOMAIN pc' = Proc /\ pc'[p] = there /\ \A q \in Proc \ {p} : pc'[q] = pc[q]
        /\ DOMAIN hand' = Proc /\ hand'[p] = b /\ \A q \in Proc \ {p} : hand'[q] = hand[q]
        /\ pc' = [pc EXCEPT ![p] = there] /\ hand' = [hand EXCEPT ![p] = b]
        /\ \A q \in Proc \ {p} : InHand(q)' = InHand(q)
    BY <1>t, GoesIs DEF AllocReads, Leaves, Waits

  <1>e. /\ UNCHANGED <<fmod, content, held, updlock, unsaved, dsuper, image, failed>>
        /\ pc[p] = "allocRead" /\ super' = content[hand[p]] /\ flock' = FALSE /\ asleep' = {}
    BY <1>t DEF AllocReads, Unlock, WakesAll, saved

  <1>d. hand[p] \in Data /\ InHand(p) = {hand[p]} /\ hand[p] \notin Available /\ hand[p] \notin held
    BY <1>t, <1>e DEF InHand, Apart

  <1>w. /\ super' = <<>> => there = "idle" /\ b = Zero
        /\ super' # <<>> => there = "allocGet" /\ b = hand[p]
    OBVIOUS
  <1> HIDE DEF b, there
  <1>i. InHand(p)' = IF super' = <<>> THEN {} ELSE {hand[p]}
    BY <1>g, <1>e, <1>w DEF InHand
  <1>n. FreeOf(content, <<>>) = {} /\ Once(content, <<>>)
    BY NoBlocks, ListsAre
  <1>l. Latest' = Latest /\ Stale' = Stale
    BY <1>t, <1>g, <1>e, <1>w DEF Latest, Stale
  <1>r. GivenUp' = GivenUp
    BY <1>t, <1>g, <1>e, <1>w DEF GivenUp
  <1>1. Typed'
    <2>1. there \in {"idle", "allocGet"} /\ b \in Data \cup {Zero} /\ super' \in Lists
      BY <1>t, <1>e, <1>d, <1>w DEF Typed
    <2>2. /\ hand' \in [Proc -> Data \cup {Zero}]
          /\ pc' \in [Proc -> {"idle", "alloc", "allocRead", "allocGet", "free",
                               "freeGet", "freeWrite", "updateGet", "updateWrite"}]
      BY <1>t, <1>g, <2>1 DEF Typed
    <2> QED  BY <1>t, <1>e, <2>1, <2>2 DEF Typed
  <1>2. Locks'
    BY <1>t, <1>g, <1>e, <1>w DEF Locks, Moving
  <1>f. LeadingFacts'
    BY <1>2, LeadingIs, PTL
  <1>h. Leading = content[hand[p]] /\ Leading' = super'
    <2>1. \A q \in Proc : pc'[q] \notin {"allocRead", "freeWrite"}
      BY <1>t, <1>g, <1>e, <1>w DEF Locks
    <2> QED  BY <1>t, <1>e, <1>f, <2>1 DEF LeadingFacts
  <1>a. Available' = Available /\ Once(content, Leading)' /\ (super' = <<>> => Available = {})
    BY <1>t, <1>e, <1>h, <1>n DEF Available, Apart
  <1>3. Apart'
    BY <1>t, <1>g, <1>e, <1>i, <1>a, <1>d, ApartAfter DEF Apart
  <1>4. Writing'
    BY <1>t, <1>g, <1>e, <1>w DEF Writing
  <1>5. Clean'
    <2>1. CASE super' = <<>>
      BY <1>t, <1>g, <1>e, <1>l, <1>r, <1>n, <2>1 DEF Clean
    <2>2. CASE super' # <<>>
      BY <1>t, <1>g, <1>e, <1>w, <1>l, <1>r, <2>2 DEF Clean
    <2> QED  BY <2>1, <2>2
  <1> QED  BY <1>1, <1>2, <1>3, <1>4, <1>5, <1>a DEF FInv

\* The next list cannot be read: the rest of the chain is lost.
LEMMA AllocReadFailsStep ==
    ASSUME FInv, NEW p \in Proc, AllocReadFails(p)
    PROVE  FInv' /\ Available' = {}
  <1>t. Typed /\ Locks /\ Apart /\ Writing /\ Clean /\ LeadingFacts /\ Leading \in Lists
    BY LeadingIs, LeadingListed DEF FInv
  <1>g. /\ DOMAIN pc' = Proc /\ pc'[p] = "idle" /\ \A q \in Proc \ {p} : pc'[q] = pc[q]
        /\ DOMAIN hand' = Proc /\ hand'[p] = Zero /\ \A q \in Proc \ {p} : hand'[q] = hand[q]
        /\ pc' = [pc EXCEPT ![p] = "idle"] /\ hand' = [hand EXCEPT ![p] = Zero]
        /\ \A q \in Proc \ {p} : InHand(q)' = InHand(q)
    BY <1>t, GoesIs DEF AllocReadFails, Leaves, Waits

  <1>e. /\ UNCHANGED <<fmod, content, held, updlock, unsaved, dsuper, image, failed>>
        /\ pc[p] = "allocRead" /\ super' = <<>> /\ flock' = FALSE /\ asleep' = {}
    BY <1>t DEF AllocReadFails, Unlock, WakesAll, saved

  <1>d. hand[p] \in Data /\ InHand(p) = {hand[p]} /\ hand[p] \notin Available /\ hand[p] \notin held
    BY <1>t, <1>e DEF InHand, Apart

  <1>i. InHand(p)' = {}
    BY <1>g, <1>e DEF InHand
  <1>n. FreeOf(content, <<>>) = {} /\ Once(content, <<>>)
    BY NoBlocks, ListsAre
  <1>l. Latest' = Latest /\ Stale' = Stale
    BY <1>t, <1>g, <1>e DEF Latest, Stale
  <1>r. GivenUp' = GivenUp
    BY <1>t, <1>g, <1>e DEF GivenUp
  <1>1. Typed'
    BY <1>t, <1>g, <1>e, ListsAre DEF Typed
  <1>2. Locks'
    BY <1>t, <1>g, <1>e DEF Locks, Moving
  <1>f. LeadingFacts'
    BY <1>2, LeadingIs, PTL
  <1>h. Leading' = super'
    <2>1. \A q \in Proc : pc'[q] \notin {"allocRead", "freeWrite"}
      BY <1>t, <1>g, <1>e DEF Locks
    <2> QED  BY <1>f, <2>1 DEF LeadingFacts
  <1>a. Available' = {} /\ Once(content, Leading)'
    BY <1>e, <1>h, <1>n DEF Available
  <1>3. Apart'
    BY <1>t, <1>g, <1>e, <1>i, <1>a, <1>d, ApartAfter DEF Apart
  <1>4. Writing'
    BY <1>t, <1>g, <1>e DEF Writing
  <1>5. Clean'
    BY <1>t, <1>g, <1>e, <1>l, <1>r, <1>n DEF Clean
  <1> QED  BY <1>1, <1>2, <1>3, <1>4, <1>5, <1>a DEF FInv

\* alloc has its block, which is cleared.
LEMMA AllocGetsStep ==
    ASSUME FInv, NEW p \in Proc, AllocGets(p)
    PROVE  FInv' /\ Available' = Available
  <1>t. Typed /\ Locks /\ Apart /\ Writing /\ Clean /\ LeadingFacts /\ Leading \in Lists
    BY LeadingIs, LeadingListed DEF FInv
  <1>g. /\ DOMAIN pc' = Proc /\ pc'[p] = "idle" /\ \A q \in Proc \ {p} : pc'[q] = pc[q]
        /\ DOMAIN hand' = Proc /\ hand'[p] = Zero /\ \A q \in Proc \ {p} : hand'[q] = hand[q]
        /\ pc' = [pc EXCEPT ![p] = "idle"] /\ hand' = [hand EXCEPT ![p] = Zero]
        /\ \A q \in Proc \ {p} : InHand(q)' = InHand(q)
    BY <1>t, GoesIs DEF AllocGets, Leaves, Waits

  <1>e. /\ UNCHANGED <<super, flock, asleep, updlock, dsuper, image, failed>>
        /\ pc[p] = "allocGet" /\ content' = [content EXCEPT ![hand[p]] = <<>>]
        /\ unsaved' = unsaved \ {hand[p]} /\ held' = held \cup {hand[p]} /\ fmod' = TRUE
    BY <1>t DEF AllocGets

  <1>d. hand[p] \in Data /\ InHand(p) = {hand[p]} /\ hand[p] \notin Available /\ hand[p] \notin held
    BY <1>t, <1>e DEF InHand, Apart

  <1>c. /\ content' \in [Data -> Lists] /\ \A x \in Data \ {hand[p]} : content'[x] = content[x]
    BY <1>t, <1>e, <1>d, ListsAre DEF Typed
  <1>i. InHand(p)' = {}
    BY <1>g, <1>e DEF InHand
  <1>1. Typed'
    BY <1>t, <1>g, <1>e, <1>c, <1>d DEF Typed
  <1>2. Locks'
    BY <1>t, <1>g, <1>e DEF Locks, Moving
  <1>f. LeadingFacts'
    BY <1>2, LeadingIs, PTL
  <1>h. Leading' = Leading
    <2>1. CASE \A q \in Proc : pc[q] \notin {"allocRead", "freeWrite"}
      <3>1. \A q \in Proc : pc'[q] \notin {"allocRead", "freeWrite"}
        BY <1>g, <2>1
      <3> QED  BY <1>t, <1>e, <1>f, <2>1, <3>1 DEF LeadingFacts
    <2>2. ASSUME NEW q \in Proc, pc[q] \in {"allocRead", "freeWrite"} PROVE Leading' = Leading
      <3>1. q # p /\ pc'[q] = pc[q] /\ hand'[q] = hand[q]
        BY <1>g, <1>e, <2>2
      <3>2. hand[q] \in Data /\ hand[q] # hand[p]
        BY <1>t, <1>e, <2>2, <3>1 DEF Apart, InHand
      <3>3. Leading = content[hand[q]] /\ Leading' = content'[hand[q]]
        BY <1>t, <1>f, <2>2, <3>1 DEF LeadingFacts
      <3> QED  BY <1>c, <3>2, <3>3
    <2> QED  BY <2>1, <2>2
  <1>a. Available' = Available /\ Once(content, Leading)'
    <2>1. content \in [Data -> Lists] /\ hand[p] \notin FreeOf(content, Leading) /\ Once(content, Leading)
      BY <1>t, <1>d DEF Available, Apart, Typed
    <2> DEFINE c == content
               d == content'
               l == Leading
    <2>2. FreeOf(d, l) = FreeOf(c, l) /\ Once(d, l) = Once(c, l)
      <3>1. c \in [Data -> Lists] /\ d \in [Data -> Lists] /\ l \in Lists
            /\ (\A x \in Data \ {hand[p]} : c[x] = d[x]) /\ hand[p] \notin FreeOf(c, l)
        BY <1>t, <1>c, <2>1
      <3> HIDE DEF c, d, l
      <3> QED  BY <3>1, Untouched
    <2> QED  BY <1>h, <2>1, <2>2 DEF Available
  <1>3. Apart'
    BY <1>t, <1>g, <1>e, <1>i, <1>a, <1>d, ApartAfter DEF Apart
  <1>4. Writing'
    BY <1>t, <1>g, <1>e DEF Writing
  <1>5. Clean'
    BY <1>e DEF Clean
  <1> QED  BY <1>1, <1>2, <1>3, <1>4, <1>5, <1>a DEF FInv

\* What is being freed.
LEMMA FreeingIs ==
    ASSUME FInv, NEW p \in Proc, NEW b \in Data, Freeing(p, b)
    PROVE  /\ b \notin Available /\ pc[p] \in {"idle", "free"}
           /\ pc[p] = "idle" => b \in held /\ InHand(p) = {}
           /\ pc[p] = "free" => b = hand[p] /\ InHand(p) = {b} /\ b \notin held
  <1>1. /\ pc[p] \in {"idle", "free"}
        /\ pc[p] = "idle" => b \in held /\ InHand(p) = {}
        /\ pc[p] = "free" => b = hand[p] /\ InHand(p) = {b}
    BY DEF Freeing, InHand
  <1>2. Available \cap held = {} /\ InHand(p) \cap (Available \cup held) = {}
    BY DEF FInv, Apart
  <1> QED  BY <1>1, <1>2

\* free waits for the lock.
LEMMA FreeWaitsStep ==
    ASSUME FInv, NEW p \in Proc, NEW b \in Data, FreeWaits(p, b)
    PROVE  FInv' /\ Available' = Available
  <1>t. Typed /\ Locks /\ Apart /\ Writing /\ Clean /\ LeadingFacts /\ Leading \in Lists
    BY LeadingIs, LeadingListed DEF FInv
  <1>g. /\ DOMAIN pc' = Proc /\ pc'[p] = "free" /\ \A q \in Proc \ {p} : pc'[q] = pc[q]
        /\ DOMAIN hand' = Proc /\ hand'[p] = b /\ \A q \in Proc \ {p} : hand'[q] = hand[q]
        /\ pc' = [pc EXCEPT ![p] = "free"] /\ hand' = [hand EXCEPT ![p] = b]
        /\ \A q \in Proc \ {p} : InHand(q)' = InHand(q)
    BY <1>t, GoesIs DEF FreeWaits, Leaves, Waits

  <1>e. /\ UNCHANGED <<super, flock, content, updlock, unsaved, dsuper, image, failed>>
        /\ Freeing(p, b) /\ asleep' \subseteq Proc
        /\ fmod' = (fmod \/ pc[p] = "idle") /\ held' = held \ {b}
    BY <1>t DEF FreeWaits, Waits, saved, Typed

  <1>d. /\ b \notin Available /\ pc[p] \in {"idle", "free"}
        /\ pc[p] = "idle" => b \in held /\ InHand(p) = {}
        /\ pc[p] = "free" => b = hand[p] /\ InHand(p) = {b} /\ b \notin held
    BY <1>e, FreeingIs
  <1>i. InHand(p)' = {b}
    BY <1>g DEF InHand
  <1>l. Latest' = Latest /\ Stale' = Stale
    BY <1>t, <1>g, <1>e, <1>d DEF Latest, Stale
  <1>m. (fmod => fmod') /\ (pc[p] = "free" => (fmod' <=> fmod))
    <2>1. CASE pc[p] = "idle"
      BY <1>e, <2>1
    <2>2. CASE pc[p] # "idle"
      <3>1. fmod' = fmod
        BY <1>e, <1>t, <2>2, Zenon DEF Typed
      <3> QED  BY <3>1, <2>2
    <2> QED  BY <2>1, <2>2
  <1>r. pc[p] = "free" => GivenUp' = GivenUp /\ held' = held
    BY <1>t, <1>g, <1>e, <1>d DEF GivenUp
  <1>1. Typed'
    <2>1. fmod' \in BOOLEAN /\ b \in Data \cup {Zero}
      BY <1>t, <1>e DEF Typed
    <2> QED  BY <1>t, <1>g, <1>e, <2>1 DEF Typed
  <1>2. Locks'
    BY <1>t, <1>g, <1>e, <1>d DEF Locks, Moving
  <1>f. LeadingFacts'
    BY <1>2, LeadingIs, PTL
  <1>h. Leading' = Leading
    BY <1>t, <1>g, <1>e, <1>d, <1>f DEF LeadingFacts
  <1>a. Available' = Available /\ Once(content, Leading)'
    BY <1>t, <1>e, <1>h DEF Available, Apart
  <1>3. Apart'
    BY <1>t, <1>g, <1>e, <1>i, <1>a, <1>d, ApartAfter DEF Apart
  <1>4. Writing'
    <2>1. \A q \in Proc : pc'[q] = "updateGet" => fmod'
      BY <1>t, <1>g, <1>m DEF Writing
    <2>2. \A x \in unsaved' : \E q \in Proc : pc'[q] = "freeWrite" /\ hand'[q] = x
      <3> SUFFICES ASSUME NEW x \in unsaved' PROVE \E q \in Proc : pc'[q] = "freeWrite" /\ hand'[q] = x
        OBVIOUS
      <3>1. PICK q \in Proc : pc[q] = "freeWrite" /\ hand[q] = x
        BY <1>t, <1>e DEF Writing
      <3> QED  BY <1>g, <1>d, <3>1
    <2> QED  BY <1>t, <1>g, <1>e, <2>1, <2>2 DEF Writing
  <1>5. Clean'
    <2>1. CASE pc[p] = "idle"
      BY <1>e, <2>1 DEF Clean
    <2>2. CASE pc[p] = "free"
      <3>1. (fmod' <=> fmod) /\ Latest' = Latest /\ Stale' = Stale /\ GivenUp' = GivenUp /\ held' = held
        BY <1>l, <1>m, <1>r, <2>2
      <3> QED  BY <1>t, <1>g, <1>e, <2>2, <3>1 DEF Clean
    <2> QED  BY <1>d, <2>1, <2>2
  <1> QED  BY <1>1, <1>2, <1>3, <1>4, <1>5, <1>a DEF FInv

\* free pushes a block.
LEMMA FreePushesStep ==
    ASSUME FInv, NEW p \in Proc, NEW b \in Data, FreePushes(p, b)
    PROVE  FInv' /\ Available' = Available \cup {b}
  <1>t. Typed /\ Locks /\ Apart /\ Writing /\ Clean /\ LeadingFacts /\ Leading \in Lists
    BY LeadingIs, LeadingListed DEF FInv
  <1>g. /\ DOMAIN pc' = Proc /\ pc'[p] = "idle" /\ \A q \in Proc \ {p} : pc'[q] = pc[q]
        /\ DOMAIN hand' = Proc /\ hand'[p] = Zero /\ \A q \in Proc \ {p} : hand'[q] = hand[q]
        /\ pc' = [pc EXCEPT ![p] = "idle"] /\ hand' = [hand EXCEPT ![p] = Zero]
        /\ \A q \in Proc \ {p} : InHand(q)' = InHand(q)
    BY <1>t, GoesIs DEF FreePushes, Leaves, Waits

  <1>e. /\ UNCHANGED <<flock, content, asleep, updlock, unsaved, dsuper, image, failed>>
        /\ Freeing(p, b) /\ ~ flock /\ Fits /\ super' = Append(Grounded, b)
        /\ fmod' = TRUE /\ held' = held \ {b}
    BY <1>t DEF FreePushes, Locked, saved

  <1>d. /\ b \notin Available /\ pc[p] \in {"idle", "free"}
        /\ pc[p] = "idle" => b \in held /\ InHand(p) = {}
        /\ pc[p] = "free" => b = hand[p] /\ InHand(p) = {b} /\ b \notin held
    BY <1>e, FreeingIs
  <1>i. InHand(p)' = {}
    BY <1>g DEF InHand
  <1>p. super' \in Lists /\ Extends(content, super, super', b)
    <2>1. super \in Lists /\ Fits
      BY <1>t, <1>e DEF Typed
    <2>2. /\ super' \in Lists /\ Adds(super, super', b, Len(Grounded) + 1)
          /\ After(content, super) = After(content, super')
      BY <1>e, <2>1, AppendedIs
    <2> QED  BY <2>2 DEF Extends, Adds
  <1>1. Typed'
    BY <1>t, <1>g, <1>e, <1>p DEF Typed
  <1>2. Locks'
    BY <1>t, <1>g, <1>e, <1>d DEF Locks, Moving
  <1>f. LeadingFacts'
    BY <1>2, LeadingIs, PTL
  <1>h. Leading = super /\ Leading' = super'
    <2>1. \A q \in Proc : pc[q] \notin {"allocRead", "freeWrite"}
      BY <1>t, <1>e DEF Locks
    <2>2. \A q \in Proc : pc'[q] \notin {"allocRead", "freeWrite"}
      BY <1>g, <2>1
    <2> QED  BY <1>t, <1>f, <2>1, <2>2 DEF LeadingFacts
  <1>a. Available' = Available \cup {b} /\ Once(content, Leading)'
    <2>1. Once(content, super) /\ b \notin FreeOf(content, super)
      BY <1>t, <1>h, <1>d DEF Apart, Available
    <2>2. Once(content, super') /\ FreeOf(content, super') = FreeOf(content, super) \cup {b}
      BY <1>p, <2>1, Pushed
    <2> QED  BY <1>e, <1>h, <2>2 DEF Available
  <1>3. Apart'
    BY <1>t, <1>g, <1>e, <1>i, <1>a, <1>d, ApartAfter DEF Apart
  <1>4. Writing'
    BY <1>t, <1>g, <1>e, <1>d DEF Writing
  <1>5. Clean'
    BY <1>e DEF Clean
  <1> QED  BY <1>1, <1>2, <1>3, <1>4, <1>5, <1>a DEF FInv

\* free finds the list full: the list goes to the block.
LEMMA FreeFullStep ==
    ASSUME FInv, NEW p \in Proc, NEW b \in Data, FreeFull(p, b)
    PROVE  FInv' /\ Available' = Available
  <1>t. Typed /\ Locks /\ Apart /\ Writing /\ Clean /\ LeadingFacts /\ Leading \in Lists
    BY LeadingIs, LeadingListed DEF FInv
  <1>g. /\ DOMAIN pc' = Proc /\ pc'[p] = "freeGet" /\ \A q \in Proc \ {p} : pc'[q] = pc[q]
        /\ DOMAIN hand' = Proc /\ hand'[p] = b /\ \A q \in Proc \ {p} : hand'[q] = hand[q]
        /\ pc' = [pc EXCEPT ![p] = "freeGet"] /\ hand' = [hand EXCEPT ![p] = b]
        /\ \A q \in Proc \ {p} : InHand(q)' = InHand(q)
    BY <1>t, GoesIs DEF FreeFull, Leaves, Waits

  <1>e. /\ UNCHANGED <<content, asleep, updlock, unsaved, dsuper, image, failed>>
        /\ Freeing(p, b) /\ ~ flock /\ flock' = TRUE /\ super' = super
        /\ fmod' = (fmod \/ pc[p] = "idle") /\ held' = held \ {b}
    <2>1. Grounded = super
      <3>1. super # <<>>
        <4> SUFFICES ASSUME super = <<>> PROVE FALSE
          OBVIOUS
        <4>1. Fits
          BY FreeListAssumption DEF Fits, Grounded
        <4> QED  BY <4>1 DEF FreeFull
      <3> QED  BY <3>1 DEF Grounded
    <2> QED  BY <1>t, <2>1 DEF FreeFull, Locked, saved

  <1>d. /\ b \notin Available /\ pc[p] \in {"idle", "free"}
        /\ pc[p] = "idle" => b \in held /\ InHand(p) = {}
        /\ pc[p] = "free" => b = hand[p] /\ InHand(p) = {b} /\ b \notin held
    BY <1>e, FreeingIs
  <1>i. InHand(p)' = {b}
    BY <1>g DEF InHand
  <1>l. Latest' = Latest /\ Stale' = Stale
    BY <1>t, <1>g, <1>e, <1>d DEF Latest, Stale
  <1>m. (fmod => fmod') /\ (pc[p] = "free" => (fmod' <=> fmod))
    <2>1. CASE pc[p] = "idle"
      BY <1>e, <2>1
    <2>2. CASE pc[p] # "idle"
      <3>1. fmod' = fmod
        BY <1>e, <1>t, <2>2, Zenon DEF Typed
      <3> QED  BY <3>1, <2>2
    <2> QED  BY <2>1, <2>2
  <1>r. pc[p] = "free" => GivenUp' = GivenUp /\ held' = held
    BY <1>t, <1>g, <1>e, <1>d DEF GivenUp
  <1>1. Typed'
    <2>1. fmod' \in BOOLEAN /\ b \in Data \cup {Zero}
      BY <1>t, <1>e DEF Typed
    <2> QED  BY <1>t, <1>g, <1>e, <2>1 DEF Typed
  <1>2. Locks'
    BY <1>t, <1>g, <1>e, <1>d DEF Locks, Moving
  <1>f. LeadingFacts'
    BY <1>2, LeadingIs, PTL
  <1>h. Leading' = Leading
    BY <1>t, <1>g, <1>e, <1>d, <1>f DEF LeadingFacts
  <1>a. Available' = Available /\ Once(content, Leading)'
    BY <1>t, <1>e, <1>h DEF Available, Apart
  <1>3. Apart'
    BY <1>t, <1>g, <1>e, <1>i, <1>a, <1>d, ApartAfter DEF Apart
  <1>4. Writing'
    <2>1. \A q \in Proc : pc'[q] = "updateGet" => fmod'
      BY <1>t, <1>g, <1>m DEF Writing
    <2>2. \A x \in unsaved' : \E q \in Proc : pc'[q] = "freeWrite" /\ hand'[q] = x
      <3> SUFFICES ASSUME NEW x \in unsaved' PROVE \E q \in Proc : pc'[q] = "freeWrite" /\ hand'[q] = x
        OBVIOUS
      <3>1. PICK q \in Proc : pc[q] = "freeWrite" /\ hand[q] = x
        BY <1>t, <1>e DEF Writing
      <3> QED  BY <1>g, <1>d, <3>1
    <2> QED  BY <1>t, <1>g, <1>e, <2>1, <2>2 DEF Writing
  <1>5. Clean'
    <2>1. CASE pc[p] = "idle"
      BY <1>e, <2>1 DEF Clean
    <2>2. CASE pc[p] = "free"
      <3>1. (fmod' <=> fmod) /\ Latest' = Latest /\ Stale' = Stale /\ GivenUp' = GivenUp /\ held' = held
        BY <1>l, <1>m, <1>r, <2>2
      <3> QED  BY <1>t, <1>g, <1>e, <2>2, <3>1 DEF Clean
    <2> QED  BY <1>d, <2>1, <2>2
  <1> QED  BY <1>1, <1>2, <1>3, <1>4, <1>5, <1>a DEF FInv

\* free copies the list to the block, and the write begins.
LEMMA FreeGetsStep ==
    ASSUME FInv, NEW p \in Proc, FreeGets(p)
    PROVE  FInv' /\ Available' = Available
  <1>t. Typed /\ Locks /\ Apart /\ Writing /\ Clean /\ LeadingFacts /\ Leading \in Lists
    BY LeadingIs, LeadingListed DEF FInv
  <1>g. /\ DOMAIN pc' = Proc /\ pc'[p] = "freeWrite" /\ \A q \in Proc \ {p} : pc'[q] = pc[q]
        /\ DOMAIN hand' = Proc /\ hand'[p] = hand[p] /\ \A q \in Proc \ {p} : hand'[q] = hand[q]
        /\ pc' = [pc EXCEPT ![p] = "freeWrite"] /\ hand' = [hand EXCEPT ![p] = hand[p]]
        /\ \A q \in Proc \ {p} : InHand(q)' = InHand(q)
    BY <1>t, GoesIs DEF FreeGets, Leaves, Waits

  <1>e. /\ UNCHANGED <<flock, fmod, held, asleep, updlock, dsuper, image, failed>>
        /\ pc[p] = "freeGet" /\ content' = [content EXCEPT ![hand[p]] = super] /\ super' = <<>>
        /\ unsaved' = unsaved \cup {hand[p]}
    BY <1>t DEF FreeGets

  <1>d. hand[p] \in Data /\ InHand(p) = {hand[p]} /\ hand[p] \notin Available /\ hand[p] \notin held
    BY <1>t, <1>e DEF InHand, Apart
  <1>c. /\ content' \in [Data -> Lists] /\ content'[hand[p]] = super
        /\ \A x \in Data \ {hand[p]} : content'[x] = content[x]
    BY <1>t, <1>e, <1>d, ListsAre DEF Typed
  <1>i. InHand(p)' = {hand[p]}
    BY <1>g DEF InHand
  <1>l. Latest' = Latest /\ Stale' = Stale /\ Latest \in Lists
    BY <1>t, <1>g, <1>e DEF Latest, Stale, Typed
  <1>r. GivenUp' = GivenUp /\ hand[p] \in GivenUp
    BY <1>t, <1>g, <1>e, <1>d DEF GivenUp
  <1>u. ASSUME NEW l \in Lists, hand[p] \notin FreeOf(content, l)
        PROVE  FreeOf(content', l) = FreeOf(content, l) /\ Once(content', l) = Once(content, l)
    <2> DEFINE c == content
               d == content'
    <2>1. /\ c \in [Data -> Lists] /\ d \in [Data -> Lists] /\ hand[p] \notin FreeOf(c, l)
          /\ \A x \in Data \ {hand[p]} : c[x] = d[x]
      BY <1>t, <1>c, <1>u DEF Typed
    <2>2. FreeOf(d, l) = FreeOf(c, l) /\ Once(d, l) = Once(c, l)
      <3> HIDE DEF c, d
      <3> QED  BY <2>1, Untouched
    <2> QED  BY <2>2
  <1>1. Typed'
    <2>1. super' \in Lists /\ unsaved' \subseteq Data
      BY <1>t, <1>e, <1>d, ListsAre DEF Typed
    <2> QED  BY <1>t, <1>g, <1>e, <1>c, <1>d, <2>1 DEF Typed
  <1>2. Locks'
    BY <1>t, <1>g, <1>e DEF Locks, Moving
  <1>f. LeadingFacts'
    BY <1>2, LeadingIs, PTL
  <1>h. Leading = super /\ Leading' = super
    <2>1. \A q \in Proc : pc[q] \notin {"allocRead", "freeWrite"}
      BY <1>t, <1>e DEF Locks
    <2> QED  BY <1>t, <1>g, <1>c, <1>d, <1>f, <2>1 DEF LeadingFacts
  <1>a. Available' = Available /\ Once(content, Leading)'
    <2>1. Leading \in Lists /\ hand[p] \notin FreeOf(content, Leading) /\ Once(content, Leading) /\ Leading' = Leading
      BY <1>t, <1>h, <1>d DEF Available, Apart
    <2>2. FreeOf(content', Leading) = FreeOf(content, Leading) /\ Once(content', Leading) = Once(content, Leading)
      BY <1>u, <2>1
    <2> QED  BY <2>1, <2>2 DEF Available
  <1>3. Apart'
    BY <1>t, <1>g, <1>e, <1>i, <1>a, <1>d, ApartAfter DEF Apart
  <1>4. Writing'
    <2>1. \A x \in unsaved' : \E q \in Proc : pc'[q] = "freeWrite" /\ hand'[q] = x
      <3> SUFFICES ASSUME NEW x \in unsaved' PROVE \E q \in Proc : pc'[q] = "freeWrite" /\ hand'[q] = x
        OBVIOUS
      <3>1. CASE x = hand[p]
        BY <1>g, <3>1
      <3>2. CASE x # hand[p]
        <4>1. PICK q \in Proc : pc[q] = "freeWrite" /\ hand[q] = x
          BY <1>t, <1>e, <3>2 DEF Writing
        <4> QED  BY <1>g, <1>e, <4>1
      <3> QED  BY <3>1, <3>2
    <2> QED  BY <1>t, <1>g, <1>e, <2>1 DEF Writing
  <1>5. Clean'
    <2> SUFFICES ASSUME ~ fmod', ~ Stale' PROVE FreeOf(content', Latest') \cap (held' \cup GivenUp') = {}
      BY <1>g DEF Clean
    <2>1. FreeOf(content, Latest) \cap (held \cup GivenUp) = {}
      BY <1>t, <1>e, <1>l DEF Clean
    <2>2. FreeOf(content', Latest) = FreeOf(content, Latest)
      BY <1>l, <1>r, <1>u, <2>1
    <2> QED  BY <1>e, <1>l, <1>r, <2>1, <2>2
  <1> QED  BY <1>1, <1>2, <1>3, <1>4, <1>5, <1>a DEF FInv

\* The list is in the block, which is the first of the chain.
LEMMA FreeWritesStep ==
    ASSUME FInv, NEW p \in Proc, FreeWrites(p)
    PROVE  FInv' /\ Available' = Available \cup {hand[p]}
  <1>t. Typed /\ Locks /\ Apart /\ Writing /\ Clean /\ LeadingFacts /\ Leading \in Lists
    BY LeadingIs, LeadingListed DEF FInv
  <1>g. /\ DOMAIN pc' = Proc /\ pc'[p] = "idle" /\ \A q \in Proc \ {p} : pc'[q] = pc[q]
        /\ DOMAIN hand' = Proc /\ hand'[p] = Zero /\ \A q \in Proc \ {p} : hand'[q] = hand[q]
        /\ pc' = [pc EXCEPT ![p] = "idle"] /\ hand' = [hand EXCEPT ![p] = Zero]
        /\ \A q \in Proc \ {p} : InHand(q)' = InHand(q)
    BY <1>t, GoesIs DEF FreeWrites, Leaves, Waits

  <1>e. /\ UNCHANGED <<content, held, updlock, dsuper, image, failed>>
        /\ pc[p] = "freeWrite" /\ unsaved' = unsaved \ {hand[p]} /\ super' = <<hand[p]>>
        /\ fmod' = TRUE /\ flock' = FALSE /\ asleep' = {}
    <2>1. super = <<>>
      BY <1>t DEF FreeWrites, Locks, Moving
    <2> QED  BY <1>t, <2>1 DEF FreeWrites, Unlock, WakesAll, Written

  <1>d. hand[p] \in Data /\ InHand(p) = {hand[p]} /\ hand[p] \notin Available /\ hand[p] \notin held
    BY <1>t, <1>e DEF InHand, Apart
  <1>i. InHand(p)' = {}
    BY <1>g DEF InHand
  <1>p. /\ super' \in Lists /\ 1 \in DOMAIN super' /\ super'[1] = hand[p]
        /\ \A i \in DOMAIN super' : super'[i] \in Data => i = 1
    <2>1. hand[p] \in Number /\ NICFREE \in Nat /\ NICFREE >= 2
      BY <1>d, FreeListAssumption DEF Number
    <2>2. super' \in Seq(Number) /\ Len(super') = 1 /\ DOMAIN super' = {1} /\ super'[1] = hand[p]
      BY <1>e, <2>1
    <2> HIDE <1>e
    <2>3. super' \in Lists
      BY <2>1, <2>2 DEF Lists
    <2> QED  BY <2>2, <2>3
  <1>1. Typed'
    <2>1. unsaved' \subseteq Data
      BY <1>t, <1>e DEF Typed
    <2> QED  BY <1>t, <1>g, <1>e, <1>p, <2>1 DEF Typed
  <1>2. Locks'
    BY <1>t, <1>g, <1>e DEF Locks, Moving
  <1>f. LeadingFacts'
    BY <1>2, LeadingIs, PTL
  <1>h. Leading = content[hand[p]] /\ Leading' = super'
    <2>1. \A q \in Proc : pc'[q] \notin {"allocRead", "freeWrite"}
      BY <1>t, <1>g, <1>e DEF Locks
    <2> QED  BY <1>t, <1>e, <1>f, <2>1 DEF LeadingFacts
  <1>a. Available' = Available \cup {hand[p]} /\ Once(content, Leading)'
    <2> DEFINE c == content
               l == super'
               b == hand[p]
    <2>1. /\ c \in [Data -> Lists] /\ l \in Lists /\ b \in Data /\ 1 \in DOMAIN l /\ l[1] = b
          /\ \A i \in DOMAIN l : l[i] \in Data => i = 1
          /\ Once(c, c[b]) /\ b \notin FreeOf(c, c[b])
      BY <1>t, <1>d, <1>h, <1>p DEF Apart, Available, Typed
    <2>2. Once(c, l) /\ FreeOf(c, l) = FreeOf(c, c[b]) \cup {b}
      <3> HIDE DEF c, l, b
      <3> QED  BY <2>1, Linked
    <2> QED  BY <1>e, <1>h, <2>2 DEF Available
  <1>3. Apart'
    BY <1>t, <1>g, <1>e, <1>i, <1>a, <1>d, ApartAfter DEF Apart
  <1>4. Writing'
    <2>1. \A x \in unsaved' : \E q \in Proc : pc'[q] = "freeWrite" /\ hand'[q] = x
      <3> SUFFICES ASSUME NEW x \in unsaved' PROVE \E q \in Proc : pc'[q] = "freeWrite" /\ hand'[q] = x
        OBVIOUS
      <3>1. PICK q \in Proc : pc[q] = "freeWrite" /\ hand[q] = x
        BY <1>t, <1>e DEF Writing
      <3>2. q # p
        BY <1>e, <3>1
      <3> QED  BY <1>g, <3>1, <3>2
    <2> QED  BY <1>t, <1>g, <1>e, <2>1 DEF Writing
  <1>5. Clean'
    BY <1>e DEF Clean
  <1> QED  BY <1>1, <1>2, <1>3, <1>4, <1>5, <1>a DEF FInv

\* update finds the superblock changed.
LEMMA UpdateStep ==
    ASSUME FInv, NEW p \in Proc, Update(p)
    PROVE  FInv' /\ Available' = Available
  <1>t. Typed /\ Locks /\ Apart /\ Writing /\ Clean /\ LeadingFacts /\ Leading \in Lists
    BY LeadingIs, LeadingListed DEF FInv
  <1>g. /\ DOMAIN pc' = Proc /\ pc'[p] = "updateGet" /\ \A q \in Proc \ {p} : pc'[q] = pc[q]
        /\ DOMAIN hand' = Proc /\ hand'[p] = Zero /\ \A q \in Proc \ {p} : hand'[q] = hand[q]
        /\ pc' = [pc EXCEPT ![p] = "updateGet"] /\ hand' = [hand EXCEPT ![p] = Zero]
        /\ \A q \in Proc \ {p} : InHand(q)' = InHand(q)
    BY <1>t, GoesIs DEF Update, Leaves, Waits

  <1>e. /\ UNCHANGED <<super, flock, fmod, content, held, asleep, unsaved, dsuper, image, failed>>
        /\ pc[p] = "idle" /\ ~ updlock /\ fmod /\ updlock' = TRUE
    BY <1>t DEF Update, mem
  <1>i. InHand(p) = {} /\ InHand(p)' = {}
    BY <1>g, <1>e DEF InHand
  <1>1. Typed'
    BY <1>t, <1>g, <1>e DEF Typed
  <1>2. Locks'
    BY <1>t, <1>g, <1>e DEF Locks, Moving
  <1>f. LeadingFacts'
    BY <1>2, LeadingIs, PTL
  <1>h. Leading' = Leading
    BY <1>t, <1>g, <1>e, <1>f DEF LeadingFacts
  <1>a. Available' = Available /\ Once(content, Leading)'
    BY <1>t, <1>e, <1>h DEF Available, Apart
  <1>3. Apart'
    BY <1>t, <1>g, <1>e, <1>i, <1>a, ApartAfter DEF Apart
  <1>4. Writing'
    BY <1>t, <1>g, <1>e DEF Writing
  <1>5. Clean'
    BY <1>e DEF Clean
  <1> QED  BY <1>1, <1>2, <1>3, <1>4, <1>5, <1>a DEF FInv

\* update passes over a superblock whose buffer has an error.
LEMMA UpdatePassesStep ==
    ASSUME FInv, NEW p \in Proc, UpdatePasses(p)
    PROVE  FInv' /\ Available' = Available
  <1>t. Typed /\ Locks /\ Apart /\ Writing /\ Clean /\ LeadingFacts /\ Leading \in Lists
    BY LeadingIs, LeadingListed DEF FInv
  <1>g. /\ DOMAIN pc' = Proc /\ pc'[p] = "idle" /\ \A q \in Proc \ {p} : pc'[q] = pc[q]
        /\ DOMAIN hand' = Proc /\ hand'[p] = Zero /\ \A q \in Proc \ {p} : hand'[q] = hand[q]
        /\ pc' = [pc EXCEPT ![p] = "idle"] /\ hand' = [hand EXCEPT ![p] = Zero]
        /\ \A q \in Proc \ {p} : InHand(q)' = InHand(q)
    BY <1>t, GoesIs DEF UpdatePasses, Leaves, Waits

  <1>e. /\ UNCHANGED <<super, flock, fmod, content, held, asleep, unsaved, dsuper, image, failed>>
        /\ pc[p] = "updateGet" /\ fmod /\ updlock' = FALSE
    BY <1>t DEF UpdatePasses, Writing, mem
  <1>i. InHand(p) = {} /\ InHand(p)' = {}
    BY <1>g, <1>e DEF InHand
  <1>1. Typed'
    BY <1>t, <1>g, <1>e DEF Typed
  <1>2. Locks'
    BY <1>t, <1>g, <1>e DEF Locks, Moving
  <1>f. LeadingFacts'
    BY <1>2, LeadingIs, PTL
  <1>h. Leading' = Leading
    BY <1>t, <1>g, <1>e, <1>f DEF LeadingFacts
  <1>a. Available' = Available /\ Once(content, Leading)'
    BY <1>t, <1>e, <1>h DEF Available, Apart
  <1>3. Apart'
    BY <1>t, <1>g, <1>e, <1>i, <1>a, ApartAfter DEF Apart
  <1>4. Writing'
    BY <1>t, <1>g, <1>e DEF Writing
  <1>5. Clean'
    BY <1>e DEF Clean
  <1> QED  BY <1>1, <1>2, <1>3, <1>4, <1>5, <1>a DEF FInv

\* update copies the superblock.
LEMMA UpdateGetsStep ==
    ASSUME FInv, NEW p \in Proc, UpdateGets(p)
    PROVE  FInv' /\ Available' = Available
  <1>t. Typed /\ Locks /\ Apart /\ Writing /\ Clean /\ LeadingFacts /\ Leading \in Lists
    BY LeadingIs, LeadingListed DEF FInv
  <1>g. /\ DOMAIN pc' = Proc /\ pc'[p] = "updateWrite" /\ \A q \in Proc \ {p} : pc'[q] = pc[q]
        /\ DOMAIN hand' = Proc /\ hand'[p] = Zero /\ \A q \in Proc \ {p} : hand'[q] = hand[q]
        /\ pc' = [pc EXCEPT ![p] = "updateWrite"] /\ hand' = [hand EXCEPT ![p] = Zero]
        /\ \A q \in Proc \ {p} : InHand(q)' = InHand(q)
    BY <1>t, GoesIs DEF UpdateGets, Leaves, Waits

  <1>e. /\ UNCHANGED <<super, flock, content, held, asleep, updlock, unsaved, dsuper, failed>>
        /\ pc[p] = "updateGet" /\ fmod' = FALSE /\ image' = super
    BY <1>t DEF UpdateGets
  <1>i. InHand(p) = {} /\ InHand(p)' = {}
    BY <1>g, <1>e DEF InHand
  <1>r. GivenUp' = GivenUp
    BY <1>t, <1>g, <1>e DEF GivenUp
  <1>1. Typed'
    BY <1>t, <1>g, <1>e DEF Typed
  <1>2. Locks'
    BY <1>t, <1>g, <1>e DEF Locks, Moving
  <1>f. LeadingFacts'
    BY <1>2, LeadingIs, PTL
  <1>h. Leading' = Leading
    BY <1>t, <1>g, <1>e, <1>f DEF LeadingFacts
  <1>a. Available' = Available /\ Once(content, Leading)'
    BY <1>t, <1>e, <1>h DEF Available, Apart
  <1>3. Apart'
    BY <1>t, <1>g, <1>e, <1>i, <1>a, ApartAfter DEF Apart
  <1>4. Writing'
    BY <1>t, <1>g, <1>e DEF Writing
  <1>5. Clean'
    <2>1. Latest' = super
      BY <1>g, <1>e DEF Latest
    <2>2. FreeOf(content, super) \subseteq Available
      <3>1. CASE Moving = {}
        BY <3>1 DEF Leading, Available
      <3>2. CASE Moving # {}
        <4>1. super = <<>>
          BY <1>t, <3>2 DEF Locks
        <4> QED  BY <4>1, NoBlocks, ListsAre
      <3> QED  BY <3>1, <3>2
    <2>3. Available \cap (held \cup GivenUp) = {}
      <3>1. \A x \in GivenUp : \E q \in Proc : x \in InHand(q)
        BY DEF GivenUp, InHand
      <3> QED  BY <1>t, <3>1 DEF Apart
    <2> QED  BY <1>e, <1>r, <2>1, <2>2, <2>3 DEF Clean
  <1> QED  BY <1>1, <1>2, <1>3, <1>4, <1>5, <1>a DEF FInv

\* The superblock is on the disk.
LEMMA UpdateWritesStep ==
    ASSUME FInv, NEW p \in Proc, UpdateWrites(p)
    PROVE  FInv' /\ Available' = Available
  <1>t. Typed /\ Locks /\ Apart /\ Writing /\ Clean /\ LeadingFacts /\ Leading \in Lists
    BY LeadingIs, LeadingListed DEF FInv
  <1>g. /\ DOMAIN pc' = Proc /\ pc'[p] = "idle" /\ \A q \in Proc \ {p} : pc'[q] = pc[q]
        /\ DOMAIN hand' = Proc /\ hand'[p] = Zero /\ \A q \in Proc \ {p} : hand'[q] = hand[q]
        /\ pc' = [pc EXCEPT ![p] = "idle"] /\ hand' = [hand EXCEPT ![p] = Zero]
        /\ \A q \in Proc \ {p} : InHand(q)' = InHand(q)
    BY <1>t, GoesIs DEF UpdateWrites, Leaves, Waits

  <1>e. /\ UNCHANGED <<super, flock, fmod, content, held, asleep, unsaved>>
        /\ pc[p] = "updateWrite" /\ dsuper' = image /\ failed' = FALSE /\ image' = <<>>
        /\ updlock' = FALSE
    BY <1>t DEF UpdateWrites, mem
  <1>i. InHand(p) = {} /\ InHand(p)' = {}
    BY <1>g, <1>e DEF InHand
  <1>l. Latest' = Latest /\ ~ Stale
    <2>1. \A q \in Proc : pc'[q] # "updateWrite"
      BY <1>t, <1>g, <1>e DEF Writing
    <2> QED  BY <1>e, <2>1 DEF Latest, Stale
  <1>r. GivenUp' = GivenUp
    BY <1>t, <1>g, <1>e DEF GivenUp
  <1>1. Typed'
    BY <1>t, <1>g, <1>e, ListsAre DEF Typed
  <1>2. Locks'
    BY <1>t, <1>g, <1>e DEF Locks, Moving
  <1>f. LeadingFacts'
    BY <1>2, LeadingIs, PTL
  <1>h. Leading' = Leading
    BY <1>t, <1>g, <1>e, <1>f DEF LeadingFacts
  <1>a. Available' = Available /\ Once(content, Leading)'
    BY <1>t, <1>e, <1>h DEF Available, Apart
  <1>3. Apart'
    BY <1>t, <1>g, <1>e, <1>i, <1>a, ApartAfter DEF Apart
  <1>4. Writing'
    BY <1>t, <1>g, <1>e DEF Writing
  <1>5. Clean'
    BY <1>t, <1>g, <1>e, <1>l, <1>r DEF Clean
  <1> QED  BY <1>1, <1>2, <1>3, <1>4, <1>5, <1>a DEF FInv

\* The superblock is not written.
LEMMA UpdateWriteFailsStep ==
    ASSUME FInv, NEW p \in Proc, UpdateWriteFails(p)
    PROVE  FInv' /\ Available' = Available
  <1>t. Typed /\ Locks /\ Apart /\ Writing /\ Clean /\ LeadingFacts /\ Leading \in Lists
    BY LeadingIs, LeadingListed DEF FInv
  <1>g. /\ DOMAIN pc' = Proc /\ pc'[p] = "idle" /\ \A q \in Proc \ {p} : pc'[q] = pc[q]
        /\ DOMAIN hand' = Proc /\ hand'[p] = Zero /\ \A q \in Proc \ {p} : hand'[q] = hand[q]
        /\ pc' = [pc EXCEPT ![p] = "idle"] /\ hand' = [hand EXCEPT ![p] = Zero]
        /\ \A q \in Proc \ {p} : InHand(q)' = InHand(q)
    BY <1>t, GoesIs DEF UpdateWriteFails, Leaves, Waits

  <1>e. /\ UNCHANGED <<super, flock, fmod, content, held, asleep, unsaved, dsuper>>
        /\ pc[p] = "updateWrite" /\ failed' = TRUE /\ image' = <<>> /\ updlock' = FALSE
    BY <1>t DEF UpdateWriteFails, mem
  <1>i. InHand(p) = {} /\ InHand(p)' = {}
    BY <1>g, <1>e DEF InHand
  <1>l. Stale'
    <2>1. \A q \in Proc : pc'[q] # "updateWrite"
      BY <1>t, <1>g, <1>e DEF Writing
    <2> QED  BY <1>e, <2>1 DEF Stale
  <1>1. Typed'
    BY <1>t, <1>g, <1>e, ListsAre DEF Typed
  <1>2. Locks'
    BY <1>t, <1>g, <1>e DEF Locks, Moving
  <1>f. LeadingFacts'
    BY <1>2, LeadingIs, PTL
  <1>h. Leading' = Leading
    BY <1>t, <1>g, <1>e, <1>f DEF LeadingFacts
  <1>a. Available' = Available /\ Once(content, Leading)'
    BY <1>t, <1>e, <1>h DEF Available, Apart
  <1>3. Apart'
    BY <1>t, <1>g, <1>e, <1>i, <1>a, ApartAfter DEF Apart
  <1>4. Writing'
    BY <1>t, <1>g, <1>e DEF Writing
  <1>5. Clean'
    BY <1>l DEF Clean
  <1> QED  BY <1>1, <1>2, <1>3, <1>4, <1>5, <1>a DEF FInv

-----------------------------------------------------------------------------
(* The invariant.                                                          *)

\* A garbage superblock has no block in its list.
LEMMA InitFInv == Init => FInv
  <1> SUFFICES ASSUME Init PROVE FInv
    OBVIOUS
  <1>1. PICK n \in 0 .. NICFREE : super \in [1 .. n -> Garbage]
    BY DEF Init
  <1>2. /\ n \in Nat /\ NICFREE \in Nat /\ Garbage \subseteq Number /\ Zero \notin Garbage
        /\ Garbage \cap Data = {}
    BY FreeListAssumption DEF Number
  <1>3. super \in Seq(Number) /\ Len(super) = n /\ DOMAIN super = 1 .. n
    BY <1>1, <1>2
  <1>4. super \in Lists
    BY <1>1, <1>2, <1>3 DEF Lists
  <1>5. FreeOf(content, super) = {} /\ Once(content, super)
    BY <1>1, <1>2, <1>3, <1>4, NoBlocks
  <1>6. /\ flock = FALSE /\ fmod = FALSE /\ updlock = FALSE /\ unsaved = {} /\ asleep = {}
        /\ content = [b \in Data |-> <<>>] /\ dsuper = super /\ image = <<>> /\ failed = FALSE /\ held = Data
        /\ pc = [p \in Proc |-> "idle"] /\ hand = [p \in Proc |-> Zero]
    BY DEF Init
  <1>t. Typed
    BY <1>4, <1>6, ListsAre DEF Typed
  <1>l. Locks /\ Moving = {}
    BY <1>6 DEF Locks, Moving
  <1>h. Leading = super /\ Available = {}
    BY <1>5, <1>l DEF Leading, Available
  <1>a. Apart
    <2>1. \A p \in Proc : InHand(p) = {}
      BY <1>6 DEF InHand
    <2> QED  BY <1>5, <1>h, <2>1 DEF Apart
  <1>w. Writing
    BY <1>6 DEF Writing
  <1>c. Clean
    <2>1. Latest = super
      BY <1>6 DEF Latest
    <2> QED  BY <1>5, <2>1 DEF Clean
  <1> QED  BY <1>t, <1>l, <1>a, <1>w, <1>c DEF FInv

\* Every step keeps the invariant.
LEMMA NextFInv == FInv /\ [Next]_vars => FInv'
  <1> SUFFICES ASSUME FInv, [Next]_vars PROVE FInv'
    OBVIOUS
  <1>1. ASSUME NEW p \in Proc, Alloc(p) PROVE FInv'
    BY <1>1, AllocWaitsStep, AllocNoSpaceStep, AllocPopsStep DEF Alloc
  <1>2. ASSUME NEW p \in Proc, Update(p) PROVE FInv'
    BY <1>2, UpdateStep
  <1>3. ASSUME NEW p \in Proc, Proceeds(p) PROVE FInv'
    BY <1>3, AllocReadsStep, AllocReadFailsStep, AllocGetsStep, FreeGetsStep, FreeWritesStep,
       UpdatePassesStep, UpdateGetsStep, UpdateWritesStep, UpdateWriteFailsStep DEF Proceeds
  <1>4. ASSUME NEW p \in Proc, NEW b \in Data, Free(p, b) PROVE FInv'
    BY <1>4, FreeWaitsStep, FreePushesStep, FreeFullStep DEF Free
  <1>5. CASE UNCHANGED vars
    BY <1>5 DEF vars, mem, saved, FInv, Typed, Locks, Moving, Apart, Available, Leading, InHand,
       Writing, Clean, Latest, Stale, GivenUp
  <1> QED  BY <1>1, <1>2, <1>3, <1>4, <1>5 DEF Next

\* The invariant of the free list holds in every reachable state.
THEOREM Invariance == Spec => []FInv
  BY InitFInv, NextFInv, PTL DEF Spec

-----------------------------------------------------------------------------
(* What it says of the properties.                                         *)

\* FreeIn collects the blocks of the chain.
LEMMA FreeInIs ==
    ASSUME NEW l
    PROVE  FreeIn(l) = FreeOf(content, l)
  <1> DEFINE f == ChainOf(content, l)
  <1>1. Chain(l) = f /\ DOMAIN f = 0 .. N
    BY ChainIs, ChainOfIs, ChainSteps
  <1> HIDE DEF f
  <1>2. FreeIn(l) = Data \cap UNION {ToSet(k) : k \in Range(f)}
    BY <1>1 DEF FreeIn
  <1>3. Range(f) = {f[n] : n \in 0 .. N}
    BY <1>1 DEF Range
  <1>4. FreeIn(l) = Blocks(f)
    <2>1. FreeIn(l) = Data \cap UNION {ToSet(f[n]) : n \in 0 .. N}
      BY <1>2, <1>3
    <2>2. \A x : x \in FreeIn(l) <=> x \in Data /\ \E n \in 0 .. N : \E i \in DOMAIN f[n] : f[n][i] = x
      <3>1. \A k, x : x \in ToSet(k) <=> \E i \in DOMAIN k : k[i] = x
        BY DEF ToSet
      <3>2. \A x : x \in FreeIn(l) <=> x \in Data /\ \E n \in 0 .. N : x \in ToSet(f[n])
        <4> DEFINE S == {ToSet(f[n]) : n \in 0 .. N}
        <4>1. \A x : x \in UNION S <=> \E k \in S : x \in k
          OBVIOUS
        <4>2. \A x : (\E k \in S : x \in k) <=> \E n \in 0 .. N : x \in ToSet(f[n])
          OBVIOUS
        <4>3. FreeIn(l) = Data \cap UNION S
          BY <2>1
        <4> HIDE DEF S
        <4>4. \A x : x \in FreeIn(l) <=> x \in UNION S /\ x \in Data
          BY <4>3
        <4> QED  BY <4>1, <4>2, <4>4, Zenon
      <3> QED  BY <3>1, <3>2
    <2> QED  BY <2>2 DEF Blocks
  <1> QED  BY <1>4 DEF FreeOf, f

\* FreeBlocks are the blocks of the one chain there is.
LEMMA FreeBlocksAre == FInv => FreeBlocks = Available
  <1> SUFFICES ASSUME FInv PROVE FreeBlocks = Available
    OBVIOUS
  <1>1. FreeBlocks = FreeOf(content, super) \cup UNION {FreeOf(content, content[hand[p]]) : p \in Moving}
    BY FreeInIs DEF FreeBlocks, Moving
  <1>2. LeadingFacts /\ Locks
    BY LeadingIs DEF FInv
  <1>3. CASE Moving = {}
    BY <1>1, <1>3 DEF Available, Leading
  <1>4. CASE Moving # {}
    <2>1. FreeOf(content, super) = {}
      BY <1>2, <1>4, NoBlocks, ListsAre DEF Locks
    <2>2. \A p \in Moving : FreeOf(content, content[hand[p]]) = Available
      BY <1>2 DEF LeadingFacts, Moving, Available
    <2> QED  BY <1>1, <1>4, <2>1, <2>2
  <1> QED  BY <1>3, <1>4

\* With the invariant a block is in one place, and "no space" is the truth.
LEMMA FInvIsOnePlace ==
    ASSUME FInv
    PROVE  OnePlace
  <1>1. Typed /\ Apart /\ Locks /\ FreeBlocks = Available /\ LeadingFacts
    BY FreeBlocksAre, LeadingIs DEF FInv
  <1>2. TypeOK
    <2>1. Range(content) \subseteq Lists
      BY <1>1 DEF Typed, Range
    <2>2. \A l \in Lists : Len(l) <= NICFREE /\ ToSet(l) \subseteq Number
      BY ListsAre DEF ToSet
    <2>3. DOMAIN content = Data
      BY <1>1 DEF Typed
    <2> QED  BY <1>1, <2>1, <2>2, <2>3 DEF Typed, TypeOK
  <1>3. NoSpaceIsTrue
    <2> SUFFICES ASSUME NoSpace PROVE FreeBlocks = {}
      BY DEF NoSpaceIsTrue
    <2>1. Leading = super
      BY <1>1 DEF NoSpace, Locked, Locks, LeadingFacts
    <2>2. super \in Lists /\ \A i \in DOMAIN super : super[i] \notin Data
      BY <1>1, TopIs DEF NoSpace, Typed
    <2> QED  BY <1>1, <2>1, <2>2, NoBlocks DEF Available
  <1>4. Once(content, super)
    <2>1. CASE Moving = {}
      BY <1>1, <2>1 DEF Apart, Leading
    <2>2. CASE Moving # {}
      BY <1>1, <2>2, NoBlocks, ListsAre DEF Locks
    <2> QED  BY <2>1, <2>2
  <1>5. LET lists == Chain(super)
        IN  \A m, n \in DOMAIN lists : \A i \in DOMAIN lists[m], j \in DOMAIN lists[n] :
              lists[m][i] = lists[n][j] /\ lists[m][i] \in Data => m = n /\ i = j
    <2> DEFINE f == ChainOf(content, super)
    <2>1. Chain(super) = f /\ DOMAIN f = 0 .. N /\ Distinct(f)
      BY <1>4, ChainIs, ChainOfIs, ChainSteps DEF Once
    <2> HIDE DEF f
    <2> QED  BY <2>1 DEF Distinct
  <1>6. /\ \A p \in Proc : InHand(p) \cap (FreeBlocks \cup held) = {}
        /\ \A p, q \in Proc : p # q => InHand(p) \cap InHand(q) = {}
        /\ FreeBlocks \cap held = {}
    BY <1>1 DEF Apart
  <1> QED  BY <1>2, <1>3, <1>5, <1>6 DEF OnePlace

\* alloc and free, however they sleep: a block is never free twice, nor free
\* and in a file or in the hands of a process.
THEOREM BlocksStayInOnePlace == Spec => []OnePlace
  <1>1. FInv => OnePlace
    BY FInvIsOnePlace
  <1> QED  BY <1>1, Invariance, PTL

\* With the invariant, a superblock that is not marked as changed is saved.
LEMMA FInvIsSaved ==
    ASSUME FInv
    PROVE  CleanMeansSaved
  <1> SUFFICES ASSUME ~ fmod, ~ failed, Quiet
               PROVE  /\ FreeOf(content, super) \subseteq FreeOf(content, dsuper)
                      /\ FreeOf(content, dsuper) \cap (held \cup unsaved) = {}
    BY FreeInIs DEF CleanMeansSaved
  <1>1. Latest = dsuper /\ ~ Stale
    BY DEF Latest, Quiet, Stale
  <1>2. unsaved = {}
    BY DEF FInv, Writing, Quiet
  <1>3. \A p \in Proc : pc[p] \notin {"allocRead", "allocGet", "freeGet", "freeWrite"}
    BY DEF Quiet
  <1> QED  BY <1>1, <1>2, <1>3 DEF FInv, Clean

\* s_fmod: while it is off and nobody is at work, a crash neither loses a free
\* block nor gives away one of a file.
THEOREM CleanStaysSaved == Spec => []CleanMeansSaved
  <1>1. FInv => CleanMeansSaved
    BY FInvIsSaved
  <1> QED  BY <1>1, Invariance, PTL

-----------------------------------------------------------------------------
(* The refinement: alloc and free are the operations of FreePool.          *)

Hands == [p \in Proc |-> InHand(p)]

\* What a step changes for the pool, when it changes the hands of p only.
PoolStep(p) ==
    /\ Hands' = [Hands EXCEPT ![p] = InHand(p)'] /\ Hands[p] = InHand(p)
    /\ InHand(p)' = InHand(p) => Hands' = Hands
    /\ FreeBlocks = Available /\ FreeBlocks' = Available'

\* A step of p leaves the hands of the others as they are.
LEMMA HandsAfter ==
    ASSUME FInv, FInv', NEW p \in Proc, NEW there, NEW b, Goes(p, there, b)
    PROVE  PoolStep(p)
  <1>1. \A q \in Proc \ {p} : InHand(q)' = InHand(q)
    BY GoesIs DEF FInv
  <1>2. Hands' = [q \in Proc |-> InHand(q)']
    BY DEF Hands
  <1>3. FreeBlocks = Available /\ (FreeBlocks = Available)'
    BY FreeBlocksAre, PTL
  <1> QED  BY <1>1, <1>2, <1>3 DEF Hands, PoolStep

\* alloc: Take, Lose and Deliver.
LEMMA AllocPool ==
    ASSUME FInv, FInv', NEW p \in Proc, Alloc(p) \/ AllocReads(p) \/ AllocReadFails(p) \/ AllocGets(p)
    PROVE  Pool!Next \/ UNCHANGED <<FreeBlocks, held, Hands>>
  <1>1. CASE AllocWaits(p)
    <2>1. PoolStep(p)
      BY <1>1, HandsAfter DEF AllocWaits, Waits
    <2>2. InHand(p)' = InHand(p) /\ held' = held
      <3>1. pc[p] \in {"idle", "alloc"} /\ pc'[p] = "alloc"
        BY <1>1, GoesIs DEF AllocWaits, Enters, Waits, FInv
      <3> QED  BY <1>1, <3>1 DEF InHand, AllocWaits
    <2> QED  BY <1>1, <2>1, <2>2, AllocWaitsStep DEF PoolStep
  <1>2. CASE AllocNoSpace(p)
    <2>1. PoolStep(p)
      BY <1>2, HandsAfter DEF AllocNoSpace, Leaves
    <2>2. InHand(p)' = InHand(p) /\ held' = held
      <3>1. pc[p] \in {"idle", "alloc"} /\ pc'[p] = "idle"
        BY <1>2, GoesIs DEF AllocNoSpace, Enters, Leaves, FInv
      <3> QED  BY <1>2, <3>1 DEF InHand, AllocNoSpace
    <2> QED  BY <1>2, <2>1, <2>2, AllocNoSpaceStep DEF PoolStep
  <1>3. CASE AllocPops(p)
    <2> DEFINE there == IF Popped = <<>> THEN "allocRead" ELSE "allocGet"
               b == super[Top]
    <2>1. Goes(p, there, b)
      BY <1>3 DEF AllocPops
    <2>2. there \in {"allocRead", "allocGet"} /\ held' = held
      BY <1>3 DEF AllocPops
    <2>3. b \in Available /\ Available' = Available \ {b} /\ pc[p] \in {"idle", "alloc"}
      BY <1>3, AllocPopsStep
    <2> HIDE DEF there, b
    <2>4. PoolStep(p)
      BY <2>1, HandsAfter
    <2>5. InHand(p) = {} /\ InHand(p)' = {b}
      <3>1. pc'[p] = there /\ hand'[p] = b
        BY <2>1, GoesIs DEF FInv
      <3> QED  BY <2>2, <2>3, <3>1 DEF InHand
    <2>6. b \in Data
      BY <2>3 DEF Available, FreeOf, Blocks
    <2>7. Pool!Take(p, b)
      BY <2>2, <2>3, <2>4, <2>5 DEF PoolStep, Pool!Take, Hands
    <2> QED  BY <2>6, <2>7 DEF Pool!Next
  <1>4. CASE AllocReads(p)
    <2> DEFINE there == IF super' = <<>> THEN "idle" ELSE "allocGet"
               b == IF super' = <<>> THEN Zero ELSE hand[p]
    <2>1. Goes(p, there, b) /\ held' = held /\ pc[p] = "allocRead"
      BY <1>4 DEF AllocReads, Leaves
    <2>2. Available' = Available /\ (super' = <<>> => Available = {})
      BY <1>4, AllocReadsStep
    <2>3. PoolStep(p)
      BY <2>1, HandsAfter
    <2>4. pc'[p] = there /\ hand'[p] = b
      BY <2>1, GoesIs DEF FInv
    <2>5. CASE super' = <<>>
      <3>1. InHand(p) = {hand[p]} /\ InHand(p)' = {}
        BY <2>1, <2>4, <2>5 DEF InHand
      <3>2. Pool!Lose(p)
        BY <2>1, <2>2, <2>3, <3>1 DEF PoolStep, Pool!Lose, Hands
      <3> QED  BY <3>2 DEF Pool!Next
    <2>6. CASE super' # <<>>
      <3>1. InHand(p)' = InHand(p)
        BY <2>1, <2>4, <2>6 DEF InHand
      <3> QED  BY <2>1, <2>2, <2>3, <3>1 DEF PoolStep
    <2> QED  BY <2>5, <2>6
  <1>5. CASE AllocReadFails(p)
    <2>1. Goes(p, "idle", Zero) /\ held' = held /\ pc[p] = "allocRead"
      BY <1>5 DEF AllocReadFails, Leaves
    <2>2. PoolStep(p) /\ Available' = {}
      BY <1>5, <2>1, HandsAfter, AllocReadFailsStep
    <2>3. InHand(p) = {hand[p]} /\ InHand(p)' = {}
      BY <2>1, GoesIs DEF InHand, FInv
    <2>4. Pool!Lose(p)
      BY <2>1, <2>2, <2>3 DEF PoolStep, Pool!Lose, Hands
    <2> QED  BY <2>4 DEF Pool!Next
  <1>6. CASE AllocGets(p)
    <2>1. Goes(p, "idle", Zero) /\ held' = held \cup {hand[p]} /\ pc[p] = "allocGet"
      BY <1>6 DEF AllocGets, Leaves
    <2>2. PoolStep(p) /\ Available' = Available
      BY <1>6, <2>1, HandsAfter, AllocGetsStep
    <2>3. InHand(p) = {hand[p]} /\ InHand(p)' = {}
      BY <2>1, GoesIs DEF InHand, FInv
    <2>4. Pool!Deliver(p)
      BY <2>1, <2>2, <2>3 DEF PoolStep, Pool!Deliver, Hands
    <2> QED  BY <2>4 DEF Pool!Next
  <1> QED  BY <1>1, <1>2, <1>3, <1>4, <1>5, <1>6 DEF Alloc

\* free: Drop, Return, or both at once.
LEMMA FreePoolStep ==
    ASSUME FInv, FInv', NEW p \in Proc, NEW b \in Data, Free(p, b)
    PROVE  Pool!Next \/ UNCHANGED <<FreeBlocks, held, Hands>>
  <1>1. /\ Freeing(p, b) /\ held' = held \ {b}
        /\ pc[p] \in {"idle", "free"}
        /\ pc[p] = "idle" => b \in held /\ InHand(p) = {}
        /\ pc[p] = "free" => InHand(p) = {b} /\ b \notin held
    <2>1. Freeing(p, b) /\ held' = held \ {b}
      BY DEF Free, FreeWaits, FreePushes, FreeFull
    <2> QED  BY <2>1, FreeingIs
  <1>2. CASE FreePushes(p, b)
    <2>1. Goes(p, "idle", Zero)
      BY <1>2 DEF FreePushes, Leaves
    <2>2. PoolStep(p) /\ Available' = Available \cup {b}
      BY <1>2, <2>1, HandsAfter, FreePushesStep
    <2>3. InHand(p)' = {}
      BY <2>1, GoesIs DEF InHand, FInv
    <2>4. CASE pc[p] = "idle"
      <3>1. Pool!DropAndReturn(b)
        BY <1>1, <2>2, <2>3, <2>4 DEF PoolStep, Pool!DropAndReturn, Hands
      <3> QED  BY <3>1 DEF Pool!Next
    <2>5. CASE pc[p] = "free"
      <3>1. Pool!Return(p)
        BY <1>1, <2>2, <2>3, <2>5 DEF PoolStep, Pool!Return, Hands
      <3> QED  BY <3>1 DEF Pool!Next
    <2> QED  BY <1>1, <2>4, <2>5
  <1>3. CASE FreeWaits(p, b) \/ FreeFull(p, b)
    <2>1. PICK there \in {"free", "freeGet"} : Goes(p, there, b)
      BY <1>3 DEF FreeWaits, FreeFull, Waits
    <2>2. PoolStep(p) /\ Available' = Available
      BY <1>3, <2>1, HandsAfter, FreeWaitsStep, FreeFullStep
    <2>3. InHand(p)' = {b}
      BY <2>1, GoesIs DEF InHand, FInv
    <2>4. CASE pc[p] = "idle"
      <3>1. Pool!Drop(p, b)
        BY <1>1, <2>2, <2>3, <2>4 DEF PoolStep, Pool!Drop, Hands
      <3> QED  BY <3>1 DEF Pool!Next
    <2>5. CASE pc[p] = "free"
      BY <1>1, <2>2, <2>3, <2>5 DEF PoolStep
    <2> QED  BY <1>1, <2>4, <2>5
  <1> QED  BY <1>2, <1>3 DEF Free

\* The transfers of free return the block; those of update change nothing.
LEMMA WritesPool ==
    ASSUME FInv, FInv', NEW p \in Proc,
           \/ FreeGets(p) \/ FreeWrites(p)
           \/ Update(p) \/ UpdatePasses(p) \/ UpdateGets(p) \/ UpdateWrites(p) \/ UpdateWriteFails(p)
    PROVE  Pool!Next \/ UNCHANGED <<FreeBlocks, held, Hands>>
  <1>1. CASE FreeGets(p)
    <2>1. Goes(p, "freeWrite", hand[p]) /\ held' = held /\ pc[p] = "freeGet"
      BY <1>1 DEF FreeGets
    <2>2. PoolStep(p) /\ Available' = Available
      BY <1>1, <2>1, HandsAfter, FreeGetsStep
    <2>3. InHand(p)' = InHand(p)
      BY <2>1, GoesIs DEF InHand, FInv
    <2> QED  BY <2>1, <2>2, <2>3 DEF PoolStep
  <1>2. CASE FreeWrites(p)
    <2>1. Goes(p, "idle", Zero) /\ held' = held /\ pc[p] = "freeWrite"
      BY <1>2 DEF FreeWrites, Leaves
    <2>2. PoolStep(p) /\ Available' = Available \cup {hand[p]}
      BY <1>2, <2>1, HandsAfter, FreeWritesStep
    <2>3. InHand(p) = {hand[p]} /\ InHand(p)' = {}
      BY <2>1, GoesIs DEF InHand, FInv
    <2>4. Pool!Return(p)
      BY <2>1, <2>2, <2>3 DEF PoolStep, Pool!Return, Hands
    <2> QED  BY <2>4 DEF Pool!Next
  <1>3. CASE Update(p) \/ UpdatePasses(p) \/ UpdateGets(p) \/ UpdateWrites(p) \/ UpdateWriteFails(p)
    <2>1. PICK there \in {"idle", "updateGet", "updateWrite"} : Goes(p, there, Zero)
      BY <1>3 DEF Update, UpdatePasses, UpdateGets, UpdateWrites, UpdateWriteFails, Leaves
    <2>2. held' = held /\ pc[p] \in {"idle", "updateGet", "updateWrite"}
      BY <1>3 DEF Update, UpdatePasses, UpdateGets, UpdateWrites, UpdateWriteFails, mem
    <2>3. PoolStep(p) /\ Available' = Available
      BY <1>3, <2>1, HandsAfter, UpdateStep, UpdatePassesStep, UpdateGetsStep, UpdateWritesStep,
         UpdateWriteFailsStep
    <2>4. InHand(p)' = InHand(p)
      BY <2>1, <2>2, GoesIs DEF InHand, FInv
    <2> QED  BY <2>2, <2>3, <2>4 DEF PoolStep
  <1> QED  BY <1>1, <1>2, <1>3

\* What alloc and free promise: the free list, with its waits, its lists on
\* their way to the disk and back, and its errors, is the pool of FreePool.
THEOREM FreeListImplementsPool == Spec => ImplementsPool
  <1>1. Init => Pool!Init
    <2> SUFFICES ASSUME Init PROVE Pool!Init
      OBVIOUS
    <2>1. FInv /\ Available = FreeOf(content, super) /\ super \in Lists
      BY InitFInv DEF Init, Available, Leading, Moving, FInv, Typed
    <2>2. FreeBlocks = Available
      BY <2>1, FreeBlocksAre
    <2>3. Available = {}
      <3>1. Available \cap held = {} /\ held = Data
        BY <2>1 DEF FInv, Apart, Init
      <3> QED  BY <3>1 DEF Available, FreeOf, Blocks
    <2>4. [p \in Proc |-> InHand(p)] = [p \in Proc |-> {}]
      BY DEF Init, InHand
    <2> QED  BY <2>2, <2>3, <2>4 DEF Pool!Init, Init
  <1>2. FInv /\ FInv' /\ [Next]_vars => [Pool!Next]_(Pool!vars)
    <2> SUFFICES ASSUME FInv, FInv', [Next]_vars PROVE [Pool!Next]_(Pool!vars)
      OBVIOUS
    <2>1. Pool!vars = <<FreeBlocks, held, Hands>>
      BY DEF Pool!vars, Hands
    <2>2. ASSUME NEW p \in Proc, Alloc(p) \/ Update(p) \/ Proceeds(p)
          PROVE  Pool!Next \/ UNCHANGED <<FreeBlocks, held, Hands>>
      BY <2>2, AllocPool, WritesPool DEF Proceeds
    <2>3. ASSUME NEW p \in Proc, NEW b \in Data, Free(p, b)
          PROVE  Pool!Next \/ UNCHANGED <<FreeBlocks, held, Hands>>
      BY <2>3, FreePoolStep
    <2>4. CASE UNCHANGED vars
      <3>1. FreeBlocks = Available /\ (FreeBlocks = Available)'
        BY FreeBlocksAre, PTL
      <3>2. Available' = Available /\ Hands' = Hands /\ held' = held
        BY <2>4 DEF vars, mem, saved, Available, Leading, Moving, Hands, InHand
      <3> QED  BY <2>1, <3>1, <3>2 DEF Pool!vars, Hands
    <2>5. Pool!Next \/ UNCHANGED <<FreeBlocks, held, Hands>> => [Pool!Next]_(Pool!vars)
      BY DEF Pool!vars, Hands
    <2> QED  BY <2>2, <2>3, <2>4, <2>5 DEF Next
  <1> QED  BY <1>1, <1>2, Invariance, PTL DEF Spec, ImplementsPool, Pool!Spec

-----------------------------------------------------------------------------
(* FileMap: the map of a file as a tree.  lev[b] is the level of block b of *)
(* the file, 0 where it holds data, and -1 for a block out of the file.     *)

Slot == 0 .. NDIRECT + 2

\* Where a block number may stand, as address i of the inode, for which b is
\* 0, or as word i of an indirect block; what stands there; and its level.
Place(lev, b, i) == \/ b = 0 /\ i \in Slot
                    \/ b \in Block /\ lev[b] > 0 /\ i \in InBlock
At(addr, blks, b, i) == IF b = 0 THEN addr[i] ELSE blks[b][i]
Below(lev, b, i) == IF b = 0 THEN LevelOf(i) ELSE lev[b] - 1

\* A block number stands in one place, where it has the level of the place,
\* and every block of the file stands somewhere.
Tree(addr, blks, out, lev) ==
    /\ lev \in [Block -> -1 .. 3]
    /\ \A b \in Block : lev[b] = -1 <=> b \in out
    /\ \A b, i : Place(lev, b, i) /\ At(addr, blks, b, i) # 0 =>
          /\ At(addr, blks, b, i) \in Block
          /\ lev[At(addr, blks, b, i)] = Below(lev, b, i)
    /\ \A b, i, c, j : /\ Place(lev, b, i) /\ Place(lev, c, j)
                       /\ At(addr, blks, b, i) # 0 /\ At(addr, blks, b, i) = At(addr, blks, c, j)
                       => b = c /\ i = j
    /\ \A b \in Block : lev[b] >= 0 =>
          \E c, i : Place(lev, c, i) /\ At(addr, blks, c, i) = b

IsMap(addr, blks) ==
    addr \in [Slot -> Block \cup {0}] /\ blks \in [0 .. NBLOCK -> [InBlock -> Int]]

FileInv ==
    /\ ino = [addr |-> ino.addr, size |-> ino.size] /\ IsMap(ino.addr, blocks)
    /\ ino.size \in Nat /\ offset \in Int
    /\ unused \subseteq Block /\ lost \subseteq Block /\ unused \cap lost = {}
    /\ \E lev : Tree(ino.addr, blocks, unused \cup lost, lev)

\* What a tree says of one place, of two, and of one block.
LEMMA TreePlace ==
    ASSUME NEW addr, NEW blks, NEW out, NEW lev, Tree(addr, blks, out, lev),
           NEW b, NEW i, Place(lev, b, i), NEW d, d = At(addr, blks, b, i), d # 0
    PROVE  d \in Block /\ lev[d] = Below(lev, b, i)
  BY DEF Tree

LEMMA TreeOnce ==
    ASSUME NEW addr, NEW blks, NEW out, NEW lev, Tree(addr, blks, out, lev),
           NEW b, NEW i, Place(lev, b, i), NEW c, NEW j, Place(lev, c, j),
           At(addr, blks, b, i) # 0, At(addr, blks, b, i) = At(addr, blks, c, j)
    PROVE  b = c /\ i = j
  BY DEF Tree

LEMMA TreeParent ==
    ASSUME NEW addr, NEW blks, NEW out, NEW lev, Tree(addr, blks, out, lev),
           NEW b \in Block, lev[b] >= 0
    PROVE  \E c, i : Place(lev, c, i) /\ At(addr, blks, c, i) = b
  BY DEF Tree

-----------------------------------------------------------------------------
(* What is below a block of the file.                                      *)

LEMMA Levels ==
    /\ \A i \in Slot : LevelOf(i) \in 0 .. 3
    /\ \A b \in Block : b # 0 /\ b \in 0 .. NBLOCK
    /\ 0 \notin Block /\ 0 \in 0 .. NBLOCK
  BY FileAssumption DEF LevelOf, Slot, Block

\* g is what Freed computes of a level from f, what it computes of the one below.
OnLevel(f, c, bad, l) ==
    IF l > 0 /\ c = bad THEN {}
    ELSE {c} \cup IF l = 0 THEN {} ELSE UNION {f[l - 1][d] : d \in Pointed(blocks[c])}
FreedFun(bad) == CHOOSE f : f = [l \in 0 .. 3 |-> [c \in Block |-> OnLevel(f, c, bad, l)]]

Onto(g, c, bad) == IF c = bad THEN {} ELSE {c} \cup UNION {g[d] : d \in Pointed(blocks[c])}

LEMMA FreedExists ==
    ASSUME NEW bad
    PROVE  \E f : f = [l \in 0 .. 3 |-> [c \in Block |-> OnLevel(f, c, bad, l)]]
  <1> DEFINE g0 == [c \in Block |-> {c}]
             g1 == [c \in Block |-> Onto(g0, c, bad)]
             g2 == [c \in Block |-> Onto(g1, c, bad)]
             g3 == [c \in Block |-> Onto(g2, c, bad)]
             f == [l \in 0 .. 3 |-> IF l = 0 THEN g0 ELSE IF l = 1 THEN g1 ELSE IF l = 2 THEN g2 ELSE g3]
  <1>0. f[0] = g0 /\ f[1] = g1 /\ f[2] = g2 /\ f[3] = g3
    <2> HIDE DEF g0, g1, g2, g3
    <2> QED  OBVIOUS
  <1>a. /\ g0 = [c \in Block |-> {c}]
        /\ g1 = [c \in Block |-> Onto(g0, c, bad)]
        /\ g2 = [c \in Block |-> Onto(g1, c, bad)]
        /\ g3 = [c \in Block |-> Onto(g2, c, bad)]
    OBVIOUS
  <1>5. f = [l \in 0 .. 3 |-> f[l]]
    <2> HIDE DEF g0, g1, g2, g3
    <2> QED  OBVIOUS
  <1> HIDE DEF f, g0, g1, g2, g3
  <1>1. f[0] = [c \in Block |-> OnLevel(f, c, bad, 0)]
    <2>1. \A c : OnLevel(f, c, bad, 0) = {c}
      BY DEF OnLevel
    <2> QED  BY <1>0, <1>a, <2>1
  <1>2. ASSUME NEW l \in 1 .. 3 PROVE \A c : OnLevel(f, c, bad, l) = Onto(f[l - 1], c, bad)
    <2>1. l > 0 /\ l # 0
      OBVIOUS
    <2> QED  BY <2>1, Zenon DEF OnLevel, Onto
  <1>3. /\ \A c : OnLevel(f, c, bad, 1) = Onto(g0, c, bad)
        /\ \A c : OnLevel(f, c, bad, 2) = Onto(g1, c, bad)
        /\ \A c : OnLevel(f, c, bad, 3) = Onto(g2, c, bad)
    <2>1. 1 - 1 = 0 /\ 2 - 1 = 1 /\ 3 - 1 = 2 /\ {1, 2, 3} \subseteq 1 .. 3
      OBVIOUS
    <2> QED  BY <1>2, <2>1, <1>0
  <1>4. /\ f[1] = [c \in Block |-> OnLevel(f, c, bad, 1)]
        /\ f[2] = [c \in Block |-> OnLevel(f, c, bad, 2)]
        /\ f[3] = [c \in Block |-> OnLevel(f, c, bad, 3)]
    <2>1. /\ f[1] = [c \in Block |-> Onto(g0, c, bad)]
          /\ f[2] = [c \in Block |-> Onto(g1, c, bad)]
          /\ f[3] = [c \in Block |-> Onto(g2, c, bad)]
      BY <1>0, <1>a
    <2>2. [c \in Block |-> Onto(g0, c, bad)] = [c \in Block |-> OnLevel(f, c, bad, 1)]
      BY <1>3
    <2>3. [c \in Block |-> Onto(g1, c, bad)] = [c \in Block |-> OnLevel(f, c, bad, 2)]
      BY <1>3
    <2>4. [c \in Block |-> Onto(g2, c, bad)] = [c \in Block |-> OnLevel(f, c, bad, 3)]
      BY <1>3
    <2> QED  BY <2>1, <2>2, <2>3, <2>4
  <1>6. \A l \in 0 .. 3 : f[l] = [c \in Block |-> OnLevel(f, c, bad, l)]
    <2>1. \A l \in 0 .. 3 : l = 0 \/ l = 1 \/ l = 2 \/ l = 3
      OBVIOUS
    <2> QED  BY <2>1, <1>1, <1>4, Zenon
  <1>7. f = [l \in 0 .. 3 |-> [c \in Block |-> OnLevel(f, c, bad, l)]]
    BY <1>5, <1>6
  <1> QED  BY <1>7

LEMMA FreedIs ==
    ASSUME NEW bad
    PROVE  /\ \A b, l : Freed(b, l, bad) = FreedFun(bad)[l][b]
           /\ \A l \in 0 .. 3, c \in Block : FreedFun(bad)[l][c] = OnLevel(FreedFun(bad), c, bad, l)
  <1>1. \A b, l : Freed(b, l, bad) = FreedFun(bad)[l][b]
    BY Zenon DEF Freed, FreedFun, OnLevel
  <1> DEFINE f == FreedFun(bad)
  <1>2. f = [l \in 0 .. 3 |-> [c \in Block |-> OnLevel(f, c, bad, l)]]
    <2> DEFINE G(g) == g = [l \in 0 .. 3 |-> [c \in Block |-> OnLevel(g, c, bad, l)]]
    <2>1. \E g : G(g)
      BY FreedExists, Zenon
    <2>2. f = CHOOSE g : G(g)
      BY Zenon DEF FreedFun
    <2>3. G(f)
      <3> HIDE DEF G, f
      <3> QED  BY <2>1, <2>2
    <2> QED  BY <2>3
  <1> HIDE DEF f
  <1>3. \A l \in 0 .. 3, c \in Block : f[l][c] = OnLevel(f, c, bad, l)
    BY <1>2
  <1> QED  BY <1>1, <1>3 DEF f

\* The blocks below block b of the file are blocks of the file, and itrunc
\* finds all when it can read all.
LEMMA FreedInFile ==
    ASSUME NEW lev, NEW out, NEW bad, IsMap(ino.addr, blocks), Tree(ino.addr, blocks, out, lev)
    PROVE  FreedFrom(ino.addr, bad) \subseteq {b \in Block : lev[b] >= 0}
  <1> DEFINE f == FreedFun(bad)
             In(l) == \A b \in Block : lev[b] = l => \A c \in f[l][b] : c \in Block /\ lev[c] >= 0
  <1>0. \A l \in 0 .. 3, c \in Block : f[l][c] = OnLevel(f, c, bad, l)
    BY FreedIs
  <1> HIDE DEF f
  <1>1. In(0)
    <2> SUFFICES ASSUME NEW b \in Block, lev[b] = 0, NEW c \in f[0][b] PROVE c \in Block /\ lev[c] >= 0
      OBVIOUS
    <2>1. f[0][b] = {b}
      BY <1>0 DEF OnLevel
    <2> QED  BY <2>1
  <1>2. ASSUME NEW l \in 1 .. 3, In(l - 1) PROVE In(l)
    <2> SUFFICES ASSUME NEW b \in Block, lev[b] = l, NEW c \in f[l][b] PROVE c \in Block /\ lev[c] >= 0
      OBVIOUS
    <2>1. c = b \/ \E d \in Pointed(blocks[b]) : c \in f[l - 1][d]
      <3>1. f[l][b] = OnLevel(f, b, bad, l) /\ l # 0
        BY <1>0
      <3>2. c \in {b} \cup UNION {f[l - 1][d] : d \in Pointed(blocks[b])}
        BY <3>1 DEF OnLevel
      <3> QED  BY <3>2
    <2>2. ASSUME NEW d \in Pointed(blocks[b]), c \in f[l - 1][d] PROVE c \in Block /\ lev[c] >= 0
      <3>1. PICK i \in InBlock : d = blocks[b][i] /\ d # 0
        BY Levels DEF Pointed, IsMap
      <3>2. Place(lev, b, i) /\ At(ino.addr, blocks, b, i) = d /\ Below(lev, b, i) = l - 1
        BY <3>1, Levels DEF Place, At, Below
      <3>3. d \in Block /\ lev[d] = l - 1
        BY <3>1, <3>2, TreePlace
      <3> QED  BY <3>3, <2>2, <1>2
    <2>3. lev[b] >= 0
      OBVIOUS
    <2> QED  BY <2>1, <2>2, <2>3
  <1>3. \A l \in 0 .. 3 : In(l)
    <2>1. 1 - 1 = 0 /\ 2 - 1 = 1 /\ 3 - 1 = 2 /\ {1, 2, 3} \subseteq 1 .. 3
      OBVIOUS
    <2>2. In(1) /\ In(2) /\ In(3)
      <3> HIDE DEF In
      <3> QED  BY <1>1, <1>2, <2>1
    <2> HIDE DEF In
    <2> QED  BY <1>1, <2>2
  <1>4. ASSUME NEW c \in FreedFrom(ino.addr, bad) PROVE c \in Block /\ lev[c] >= 0
    <2>1. PICK i \in Slot : ino.addr[i] # 0 /\ c \in Freed(ino.addr[i], LevelOf(i), bad)
      BY DEF FreedFrom, IsMap
    <2>2. Place(lev, 0, i) /\ At(ino.addr, blocks, 0, i) = ino.addr[i] /\ Below(lev, 0, i) = LevelOf(i)
      BY DEF Place, At, Below
    <2>3. ino.addr[i] \in Block /\ lev[ino.addr[i]] = LevelOf(i)
      BY <2>1, <2>2, TreePlace
    <2>4. LevelOf(i) \in 0 .. 3
      BY Levels
    <2>5. c \in f[LevelOf(i)][ino.addr[i]]
      BY <2>1, FreedIs DEF f
    <2> QED  BY <1>3, <2>3, <2>4, <2>5
  <1> QED  BY <1>4

LEMMA FreedAll ==
    ASSUME NEW lev, NEW out, IsMap(ino.addr, blocks), Tree(ino.addr, blocks, out, lev)
    PROVE  {b \in Block : lev[b] >= 0} \subseteq FreedFrom(ino.addr, 0)
  <1> DEFINE f == FreedFun(0)
             U == FreedFrom(ino.addr, 0)
             In(l) == \A b \in Block : lev[b] = l => f[l][b] \subseteq U
  <1>0. \A l \in 0 .. 3, c \in Block : f[l][c] = OnLevel(f, c, 0, l)
    BY FreedIs
  <1>1. ASSUME NEW i \in Slot, ino.addr[i] # 0 PROVE f[LevelOf(i)][ino.addr[i]] \subseteq U
    BY <1>1, FreedIs DEF FreedFrom, IsMap
  <1>2. lev \in [Block -> -1 .. 3] /\ \A b \in Block : lev[b] >= 0 =>
            \E c, i : Place(lev, c, i) /\ At(ino.addr, blocks, c, i) = b
    BY DEF Tree
  <1> HIDE DEF f, U
  <1>3. ASSUME NEW l \in 0 .. 3, l < 3 => In(l + 1) PROVE In(l)
    <2> SUFFICES ASSUME NEW b \in Block, lev[b] = l PROVE f[l][b] \subseteq U
      OBVIOUS
    <2>1. PICK c, i : Place(lev, c, i) /\ At(ino.addr, blocks, c, i) = b
      BY <1>2
    <2>2. b # 0
      BY Levels
    <2>3. lev[b] = Below(lev, c, i)
      BY <2>1, <2>2, TreePlace
    <2>4. CASE c = 0
      <3>1. i \in Slot /\ b = ino.addr[i] /\ l = LevelOf(i)
        BY <2>1, <2>3, <2>4, Levels DEF Place, At, Below
      <3> QED  BY <3>1, <2>2, <1>1
    <2>5. CASE c # 0
      <3>1. c \in Block /\ i \in InBlock /\ b = blocks[c][i] /\ lev[c] = l + 1 /\ l < 3
        BY <2>1, <2>3, <2>5, <1>2 DEF Place, At, Below
      <3>2. f[l + 1][c] \subseteq U
        BY <3>1, <1>3
      <3>3. f[l + 1][c] = OnLevel(f, c, 0, l + 1)
        BY <3>1, <1>0
      <3>4. b \in Pointed(blocks[c])
        BY <3>1, <2>2, Levels DEF Pointed, IsMap
      <3>5. c # 0 /\ l + 1 # 0 /\ (l + 1) - 1 = l
        BY <2>5
      <3>6. f[l][b] \subseteq OnLevel(f, c, 0, l + 1)
        <4>1. OnLevel(f, c, 0, l + 1) = {c} \cup UNION {f[l][d] : d \in Pointed(blocks[c])}
          BY <3>5 DEF OnLevel
        <4> QED  BY <4>1, <3>4
      <3> QED  BY <3>2, <3>3, <3>6
    <2> QED  BY <2>4, <2>5
  <1>4. \A l \in 0 .. 3 : In(l)
    <2> HIDE DEF In
    <2>1. In(3)
      <3>1. 3 \in 0 .. 3 /\ ~ (3 < 3)
        OBVIOUS
      <3> QED  BY <1>3, <3>1
    <2>2. In(2)
      <3>1. 2 \in 0 .. 3 /\ 2 + 1 = 3
        OBVIOUS
      <3> QED  BY <1>3, <3>1, <2>1
    <2>3. In(1)
      <3>1. 1 \in 0 .. 3 /\ 1 + 1 = 2
        OBVIOUS
      <3> QED  BY <1>3, <3>1, <2>2
    <2>4. In(0)
      <3>1. 0 \in 0 .. 3 /\ 0 + 1 = 1
        OBVIOUS
      <3> QED  BY <1>3, <3>1, <2>3
    <2> QED  BY <2>1, <2>2, <2>3, <2>4
  <1>5. ASSUME NEW b \in Block, lev[b] >= 0 PROVE b \in U
    <2>1. lev[b] \in 0 .. 3
      BY <1>2, <1>5
    <2>2. f[lev[b]][b] \subseteq U
      BY <2>1, <1>4
    <2>3. b \in OnLevel(f, b, 0, lev[b])
      BY Levels DEF OnLevel
    <2> QED  BY <2>1, <2>2, <2>3, <1>0
  <1> QED  BY <1>5 DEF U

-----------------------------------------------------------------------------
(* Where block numbers stand.                                              *)

Words(b) == {<<b, i>> : i \in {j \in InBlock : blocks[b][j] # 0}}
\* What References computes of a level from f, what it computes of the one below.
Refs(f, c, l) ==
    IF l = 0 THEN {} ELSE Words(c) \cup UNION {f[l - 1][d] : d \in Pointed(blocks[c])}
RefsFun == CHOOSE f : f = [l \in 0 .. 3 |-> [c \in Block |-> Refs(f, c, l)]]

RefsOnto(g, c) == Words(c) \cup UNION {g[d] : d \in Pointed(blocks[c])}

LEMMA RefsExist ==
    \E f : f = [l \in 0 .. 3 |-> [c \in Block |-> Refs(f, c, l)]]
  <1> DEFINE g0 == [c \in Block |-> {}]
             g1 == [c \in Block |-> RefsOnto(g0, c)]
             g2 == [c \in Block |-> RefsOnto(g1, c)]
             g3 == [c \in Block |-> RefsOnto(g2, c)]
             f == [l \in 0 .. 3 |-> IF l = 0 THEN g0 ELSE IF l = 1 THEN g1 ELSE IF l = 2 THEN g2 ELSE g3]
  <1>0. f[0] = g0 /\ f[1] = g1 /\ f[2] = g2 /\ f[3] = g3
    <2> HIDE DEF g0, g1, g2, g3
    <2> QED  OBVIOUS
  <1>a. /\ g0 = [c \in Block |-> {}]
        /\ g1 = [c \in Block |-> RefsOnto(g0, c)]
        /\ g2 = [c \in Block |-> RefsOnto(g1, c)]
        /\ g3 = [c \in Block |-> RefsOnto(g2, c)]
    OBVIOUS
  <1>5. f = [l \in 0 .. 3 |-> f[l]]
    <2> HIDE DEF g0, g1, g2, g3
    <2> QED  OBVIOUS
  <1> HIDE DEF f, g0, g1, g2, g3
  <1>1. f[0] = [c \in Block |-> Refs(f, c, 0)]
    <2>1. \A c : Refs(f, c, 0) = {}
      BY DEF Refs
    <2> QED  BY <1>0, <1>a, <2>1
  <1>2. ASSUME NEW l \in 1 .. 3 PROVE \A c : Refs(f, c, l) = RefsOnto(f[l - 1], c)
    <2>1. l > 0 /\ l # 0
      OBVIOUS
    <2> QED  BY <2>1, Zenon DEF Refs, RefsOnto
  <1>3. /\ \A c : Refs(f, c, 1) = RefsOnto(g0, c)
        /\ \A c : Refs(f, c, 2) = RefsOnto(g1, c)
        /\ \A c : Refs(f, c, 3) = RefsOnto(g2, c)
    <2>1. 1 - 1 = 0 /\ 2 - 1 = 1 /\ 3 - 1 = 2 /\ {1, 2, 3} \subseteq 1 .. 3
      OBVIOUS
    <2> QED  BY <1>2, <2>1, <1>0
  <1>4. /\ f[1] = [c \in Block |-> Refs(f, c, 1)]
        /\ f[2] = [c \in Block |-> Refs(f, c, 2)]
        /\ f[3] = [c \in Block |-> Refs(f, c, 3)]
    <2>1. /\ f[1] = [c \in Block |-> RefsOnto(g0, c)]
          /\ f[2] = [c \in Block |-> RefsOnto(g1, c)]
          /\ f[3] = [c \in Block |-> RefsOnto(g2, c)]
      BY <1>0, <1>a
    <2>2. [c \in Block |-> RefsOnto(g0, c)] = [c \in Block |-> Refs(f, c, 1)]
      BY <1>3
    <2>3. [c \in Block |-> RefsOnto(g1, c)] = [c \in Block |-> Refs(f, c, 2)]
      BY <1>3
    <2>4. [c \in Block |-> RefsOnto(g2, c)] = [c \in Block |-> Refs(f, c, 3)]
      BY <1>3
    <2> QED  BY <2>1, <2>2, <2>3, <2>4
  <1>6. \A l \in 0 .. 3 : f[l] = [c \in Block |-> Refs(f, c, l)]
    <2>1. \A l \in 0 .. 3 : l = 0 \/ l = 1 \/ l = 2 \/ l = 3
      OBVIOUS
    <2> QED  BY <2>1, <1>1, <1>4, Zenon
  <1>7. f = [l \in 0 .. 3 |-> [c \in Block |-> Refs(f, c, l)]]
    BY <1>5, <1>6
  <1> QED  BY <1>7

TopRefs == {<<0, i>> : i \in {j \in DOMAIN ino.addr : ino.addr[j] # 0}}
LEMMA RefsAre ==
    /\ References = TopRefs \cup
          UNION {RefsFun[LevelOf(i)][ino.addr[i]] : i \in {j \in DOMAIN ino.addr : ino.addr[j] # 0}}
    /\ \A l \in 0 .. 3, c \in Block : RefsFun[l][c] = Refs(RefsFun, c, l)
  <1>1. References = TopRefs \cup
          UNION {RefsFun[LevelOf(i)][ino.addr[i]] : i \in {j \in DOMAIN ino.addr : ino.addr[j] # 0}}
    BY DEF References, RefsFun, Refs, Words, TopRefs
  <1> DEFINE f == RefsFun
  <1>2. f = [l \in 0 .. 3 |-> [c \in Block |-> Refs(f, c, l)]]
    <2> DEFINE G(g) == g = [l \in 0 .. 3 |-> [c \in Block |-> Refs(g, c, l)]]
    <2>1. \E g : G(g)
      BY RefsExist, Zenon
    <2>2. f = CHOOSE g : G(g)
      BY Zenon DEF RefsFun
    <2>3. G(f)
      <3> HIDE DEF G, f
      <3> QED  BY <2>1, <2>2
    <2> QED  BY <2>3
  <1> HIDE DEF f
  <1>3. \A l \in 0 .. 3, c \in Block : f[l][c] = Refs(f, c, l)
    BY <1>2
  <1> QED  BY <1>1, <1>3 DEF f

\* References are places in the tree where there is a block number.
LEMMA RefsInTree ==
    ASSUME NEW lev, NEW out, IsMap(ino.addr, blocks), Tree(ino.addr, blocks, out, lev), NEW r \in References
    PROVE  /\ r = <<r[1], r[2]>> /\ Place(lev, r[1], r[2])
           /\ To(r) = At(ino.addr, blocks, r[1], r[2]) /\ To(r) # 0
  <1> DEFINE f == RefsFun
             Good(q) == q = <<q[1], q[2]>> /\ Place(lev, q[1], q[2]) /\ At(ino.addr, blocks, q[1], q[2]) # 0
             In(l) == \A b \in Block : lev[b] = l => \A c \in f[l][b] : Good(c)
  <1>0. \A l \in 0 .. 3, c \in Block : f[l][c] = Refs(f, c, l)
    BY RefsAre
  <1> HIDE DEF f
  <1>1. In(0)
    <2> SUFFICES ASSUME NEW b \in Block, lev[b] = 0, NEW c \in f[0][b] PROVE FALSE
      OBVIOUS
    <2>1. f[0][b] = {}
      BY <1>0 DEF Refs
    <2> QED  BY <2>1
  <1>2. ASSUME NEW l \in 1 .. 3, In(l - 1) PROVE In(l)
    <2> SUFFICES ASSUME NEW b \in Block, lev[b] = l, NEW c \in f[l][b] PROVE Good(c)
      OBVIOUS
    <2>1. c \in Words(b) \/ \E d \in Pointed(blocks[b]) : c \in f[l - 1][d]
      <3>1. f[l][b] = Refs(f, b, l) /\ l # 0
        BY <1>0
      <3>2. c \in Words(b) \cup UNION {f[l - 1][d] : d \in Pointed(blocks[b])}
        BY <3>1 DEF Refs
      <3> QED  BY <3>2
    <2>2. ASSUME NEW d \in Pointed(blocks[b]), c \in f[l - 1][d] PROVE Good(c)
      <3>1. PICK i \in InBlock : d = blocks[b][i] /\ d # 0
        BY Levels DEF Pointed, IsMap
      <3>2. Place(lev, b, i) /\ At(ino.addr, blocks, b, i) = d /\ Below(lev, b, i) = l - 1
        BY <3>1, Levels DEF Place, At, Below
      <3>3. d \in Block /\ lev[d] = l - 1
        BY <3>1, <3>2, TreePlace
      <3> QED  BY <3>3, <2>2, <1>2
    <2>3. ASSUME c \in Words(b) PROVE Good(c)
      <3>1. PICK i \in InBlock : c = <<b, i>> /\ blocks[b][i] # 0
        BY <2>3 DEF Words
      <3>2. c[1] = b /\ c[2] = i
        BY <3>1
      <3>3. lev[b] > 0 /\ b # 0
        BY Levels
      <3> QED  BY <3>1, <3>2, <3>3 DEF Place, At
    <2> QED  BY <2>1, <2>2, <2>3
  <1>3. \A l \in 0 .. 3 : In(l)
    <2>1. 1 - 1 = 0 /\ 2 - 1 = 1 /\ 3 - 1 = 2 /\ {1, 2, 3} \subseteq 1 .. 3
      OBVIOUS
    <2>2. In(1) /\ In(2) /\ In(3)
      <3> HIDE DEF In
      <3> QED  BY <1>1, <1>2, <2>1
    <2> HIDE DEF In
    <2> QED  BY <1>1, <2>2
  <1>4. Good(r)
    <2>1. r \in TopRefs \/ \E i \in Slot : ino.addr[i] # 0 /\ r \in f[LevelOf(i)][ino.addr[i]]
      BY RefsAre DEF f, IsMap
    <2>2. ASSUME r \in TopRefs PROVE Good(r)
      <3>1. PICK i \in Slot : r = <<0, i>> /\ ino.addr[i] # 0
        BY <2>2 DEF TopRefs, IsMap
      <3>2. r[1] = 0 /\ r[2] = i
        BY <3>1
      <3> QED  BY <3>1, <3>2 DEF Place, At
    <2>3. ASSUME NEW i \in Slot, ino.addr[i] # 0, r \in f[LevelOf(i)][ino.addr[i]] PROVE Good(r)
      <3>1. Place(lev, 0, i) /\ At(ino.addr, blocks, 0, i) = ino.addr[i] /\ Below(lev, 0, i) = LevelOf(i)
        BY DEF Place, At, Below
      <3>2. ino.addr[i] \in Block /\ lev[ino.addr[i]] = LevelOf(i)
        BY <2>3, <3>1, TreePlace
      <3>3. LevelOf(i) \in 0 .. 3
        BY Levels
      <3> QED  BY <1>3, <2>3, <3>2, <3>3
    <2> QED  BY <2>1, <2>2, <2>3
  <1>5. To(r) = At(ino.addr, blocks, r[1], r[2])
    BY DEF To, At
  <1> QED  BY <1>4, <1>5

\* All such places are references.
LEMMA TreeInRefs ==
    ASSUME NEW lev, NEW out, IsMap(ino.addr, blocks), Tree(ino.addr, blocks, out, lev),
           NEW b, NEW i, Place(lev, b, i), At(ino.addr, blocks, b, i) # 0
    PROVE  <<b, i>> \in References
  <1> DEFINE f == RefsFun
             U == References
             In(l) == \A c \in Block : lev[c] = l => f[l][c] \subseteq U
  <1>0. \A l \in 0 .. 3, c \in Block : f[l][c] = Refs(f, c, l)
    BY RefsAre
  <1>1. ASSUME NEW j \in Slot, ino.addr[j] # 0
        PROVE  f[LevelOf(j)][ino.addr[j]] \subseteq U /\ <<0, j>> \in U
    BY <1>1, RefsAre DEF TopRefs, IsMap
  <1>2. lev \in [Block -> -1 .. 3]
    BY DEF Tree
  <1> HIDE DEF f, U
  <1>3. ASSUME NEW l \in 0 .. 3, l < 3 => In(l + 1) PROVE In(l)
    <2> SUFFICES ASSUME NEW a \in Block, lev[a] = l PROVE f[l][a] \subseteq U
      OBVIOUS
    <2>0. lev[a] >= 0
      OBVIOUS
    <2>1. PICK c, j : Place(lev, c, j) /\ At(ino.addr, blocks, c, j) = a
      BY <2>0, TreeParent
    <2>2. a # 0
      BY Levels
    <2>3. lev[a] = Below(lev, c, j)
      BY <2>1, <2>2, TreePlace
    <2>4. CASE c = 0
      <3>1. j \in Slot /\ a = ino.addr[j] /\ l = LevelOf(j)
        BY <2>1, <2>3, <2>4, Levels DEF Place, At, Below
      <3> QED  BY <3>1, <2>2, <1>1
    <2>5. CASE c # 0
      <3>1. c \in Block /\ j \in InBlock /\ a = blocks[c][j] /\ lev[c] = l + 1 /\ l < 3
        BY <2>1, <2>3, <2>5, <1>2 DEF Place, At, Below
      <3>2. f[l + 1][c] \subseteq U
        BY <3>1, <1>3
      <3>3. f[l + 1][c] = Refs(f, c, l + 1)
        BY <3>1, <1>0
      <3>4. a \in Pointed(blocks[c])
        BY <3>1, <2>2, Levels DEF Pointed, IsMap
      <3>5. l + 1 # 0 /\ (l + 1) - 1 = l
        OBVIOUS
      <3>6. f[l][a] \subseteq Refs(f, c, l + 1)
        <4>1. Refs(f, c, l + 1) = Words(c) \cup UNION {f[l][d] : d \in Pointed(blocks[c])}
          BY <3>5 DEF Refs
        <4> QED  BY <4>1, <3>4
      <3> QED  BY <3>2, <3>3, <3>6
    <2> QED  BY <2>4, <2>5
  <1>4. \A l \in 0 .. 3 : In(l)
    <2> HIDE DEF In
    <2>1. In(3)
      <3>1. 3 \in 0 .. 3 /\ ~ (3 < 3)
        OBVIOUS
      <3> QED  BY <1>3, <3>1
    <2>2. In(2)
      <3>1. 2 \in 0 .. 3 /\ 2 + 1 = 3
        OBVIOUS
      <3> QED  BY <1>3, <3>1, <2>1
    <2>3. In(1)
      <3>1. 1 \in 0 .. 3 /\ 1 + 1 = 2
        OBVIOUS
      <3> QED  BY <1>3, <3>1, <2>2
    <2>4. In(0)
      <3>1. 0 \in 0 .. 3 /\ 0 + 1 = 1
        OBVIOUS
      <3> QED  BY <1>3, <3>1, <2>3
    <2> QED  BY <2>1, <2>2, <2>3, <2>4
  <1>5. CASE b = 0
    BY <1>5, <1>1, Levels DEF Place, At, U
  <1>6. CASE b # 0
    <2>1. b \in Block /\ lev[b] > 0 /\ i \in InBlock /\ blocks[b][i] # 0
      BY <1>6 DEF Place, At
    <2>2. lev[b] \in 0 .. 3 /\ lev[b] # 0
      BY <2>1, <1>2
    <2>3. <<b, i>> \in Words(b)
      BY <2>1 DEF Words
    <2>4. <<b, i>> \in Refs(f, b, lev[b])
      BY <2>2, <2>3 DEF Refs
    <2> QED  BY <2>1, <2>2, <2>4, <1>0, <1>4 DEF U
  <1> QED  BY <1>5, <1>6

\* The files of the invariant are those of the property.
LEMMA FileInvMeans == FileInv => BlocksInOnePlace
  <1> SUFFICES ASSUME FileInv PROVE BlocksInOnePlace
    OBVIOUS
  <1>0. PICK lev : Tree(ino.addr, blocks, unused \cup lost, lev)
    BY DEF FileInv
  <1>1. IsMap(ino.addr, blocks) /\ FileTypeOK
    BY DEF FileInv, IsMap, FileTypeOK, Slot
  <1>2. \A r \in References : /\ r = <<r[1], r[2]>> /\ Place(lev, r[1], r[2])
                               /\ To(r) = At(ino.addr, blocks, r[1], r[2]) /\ To(r) # 0
    BY <1>0, <1>1, RefsInTree
  <1>3. ASSUME NEW q \in References, NEW r \in References, To(q) = To(r) PROVE q = r
    <2>1. q[1] = r[1] /\ q[2] = r[2]
      BY <1>0, <1>2, <1>3, TreeOnce
    <2> QED  BY <1>2, <2>1
  <1> DEFINE here == {To(r) : r \in References}
  <1>4. \A b \in Block : lev[b] = -1 <=> b \in unused \cup lost
    BY <1>0 DEF Tree
  <1>5. lev \in [Block -> -1 .. 3]
    BY <1>0 DEF Tree
  <1>6. ASSUME NEW b \in here PROVE b \in Block /\ lev[b] # -1
    <2>1. PICK r \in References : b = To(r)
      OBVIOUS
    <2>2. Place(lev, r[1], r[2]) /\ b = At(ino.addr, blocks, r[1], r[2]) /\ b # 0
      BY <1>2, <2>1
    <2>3. b \in Block /\ lev[b] = Below(lev, r[1], r[2])
      BY <1>0, <2>2, TreePlace
    <2> QED  BY <2>2, <2>3, <1>5, Levels DEF Place, Below
  <1>7. ASSUME NEW b \in Block, lev[b] # -1 PROVE b \in here
    <2>1. lev[b] >= 0
      BY <1>5, <1>7
    <2>2. PICK c, i : Place(lev, c, i) /\ At(ino.addr, blocks, c, i) = b
      BY <2>1, <1>0, TreeParent
    <2>3. b # 0
      BY Levels
    <2>4. <<c, i>> \in References
      BY <2>2, <2>3, <1>0, <1>1, TreeInRefs
    <2>5. To(<<c, i>>) = b
      BY <2>2 DEF To, At
    <2> QED  BY <2>4, <2>5
  <1>8. unused \subseteq Block /\ lost \subseteq Block
    BY DEF FileInv
  <1>9. here \cap unused = {} /\ here \cap lost = {} /\ here \cup unused \cup lost = Block
    <2> HIDE DEF here
    <2> QED  BY <1>4, <1>6, <1>7, <1>8
  <1> QED  BY <1>1, <1>3, <1>9 DEF BlocksInOnePlace

-----------------------------------------------------------------------------
(* The tree grows by a block, which is cleared.                            *)

\* Block b, that is not in the tree, is put in an empty place of it.
Growth(addr, blks, out, lev, at, i, b, addr2, blks2, out2, lev2) ==
    /\ Tree(addr, blks, out, lev) /\ Place(lev, at, i) /\ At(addr, blks, at, i) = 0
    /\ b \in out /\ b \in Block
    /\ out2 = out \ {b} /\ lev2 = [lev EXCEPT ![b] = Below(lev, at, i)]
    /\ \A c, j : Place(lev2, c, j) => At(addr2, blks2, c, j) =
            IF c = at /\ j = i THEN b ELSE IF c = b THEN 0 ELSE At(addr, blks, c, j)

LEMMA GrownTree ==
    ASSUME NEW addr, NEW blks, NEW out, NEW lev, NEW at, NEW i, NEW b,
           NEW addr2, NEW blks2, NEW out2, NEW lev2,
           Growth(addr, blks, out, lev, at, i, b, addr2, blks2, out2, lev2)
    PROVE  Tree(addr2, blks2, out2, lev2) /\ lev2[b] = Below(lev, at, i) /\ Below(lev, at, i) \in 0 .. 3
  <1>0. /\ Tree(addr, blks, out, lev) /\ Place(lev, at, i) /\ At(addr, blks, at, i) = 0
        /\ b \in out /\ b \in Block
        /\ out2 = out \ {b} /\ lev2 = [lev EXCEPT ![b] = Below(lev, at, i)]
    BY DEF Growth
  <1>1. /\ lev \in [Block -> -1 .. 3]
        /\ \A a \in Block : lev[a] = -1 <=> a \in out
    BY <1>0 DEF Tree
  <1>2. lev[b] = -1 /\ b # 0
    BY <1>0, <1>1, Levels
  <1>3. Below(lev, at, i) \in 0 .. 3
    <2>1. CASE at = 0
      BY <2>1, <1>0, Levels DEF Place, Below
    <2>2. CASE at # 0
      <3>1. at \in Block /\ lev[at] > 0 /\ lev[at] \in -1 .. 3
        BY <2>2, <1>0, <1>1 DEF Place
      <3> QED  BY <2>2, <3>1 DEF Below
    <2> QED  BY <2>1, <2>2
  <1> DEFINE n == Below(lev, at, i)
  <1>4. lev2[b] = n /\ \A a \in Block : a # b => lev2[a] = lev[a]
    BY <1>0, <1>1
  <1>5. lev2 \in [Block -> -1 .. 3]
    <2> HIDE DEF n
    <2>1. n \in -1 .. 3
      BY <1>3 DEF n
    <2> QED  BY <2>1, <1>0, <1>1 DEF n
  <1>6. at # b
    BY <1>0, <1>2 DEF Place
  <1> HIDE DEF n
  <1>7. /\ \A c, j : c # b /\ Place(lev, c, j) => Place(lev2, c, j)
        /\ \A c, j : c # b /\ Place(lev2, c, j) => Place(lev, c, j)
        /\ \A c, j : c # b /\ Place(lev, c, j) => Below(lev2, c, j) = Below(lev, c, j)
    BY <1>4 DEF Place, Below
  <1>8. \A c, j : Place(lev2, c, j) => At(addr2, blks2, c, j) =
                IF c = at /\ j = i THEN b ELSE IF c = b THEN 0 ELSE At(addr, blks, c, j)
    BY DEF Growth
  <1>t. Place(lev2, at, i) /\ At(addr2, blks2, at, i) = b
    <2>1. Place(lev2, at, i)
      BY <1>0, <1>6, <1>7
    <2> QED  BY <2>1, <1>8
  <1> DEFINE old(c, j) == At(addr, blks, c, j)
             new(c, j) == At(addr2, blks2, c, j)
  \* A place with a block in it is that of b, or is as it was.
  <1>9. ASSUME NEW c, NEW j, Place(lev2, c, j), new(c, j) # 0
        PROVE  (c = at /\ j = i /\ new(c, j) = b) \/
               (/\ c # b /\ Place(lev, c, j) /\ new(c, j) = old(c, j)
                /\ old(c, j) \in Block /\ old(c, j) # b /\ lev[old(c, j)] = Below(lev, c, j))
    <2>1. CASE c = at /\ j = i
      BY <2>1, <1>8, <1>9
    <2>2. CASE ~ (c = at /\ j = i)
      <3>1. c # b /\ new(c, j) = old(c, j)
        BY <2>2, <1>8, <1>9
      <3>2. Place(lev, c, j)
        BY <3>1, <1>7, <1>9
      <3> DEFINE d == old(c, j)
      <3>3. d # 0
        BY <3>1, <1>9
      <3>4. d \in Block /\ lev[d] = Below(lev, c, j)
        <4> HIDE DEF d
        <4> QED  BY <3>2, <3>3, <1>0, TreePlace DEF d
      <3>5. d # b
        <4>1. Below(lev, c, j) # -1
          BY <3>2, <1>1, Levels DEF Place, Below
        <4> QED  BY <4>1, <3>4, <1>2
      <3> QED  BY <3>1, <3>2, <3>4, <3>5
    <2> QED  BY <2>1, <2>2
  <1> HIDE DEF new, old
  <1>10. \A a \in Block : lev2[a] = -1 <=> a \in out2
    BY <1>0, <1>1, <1>3, <1>4 DEF n
  <1>11. ASSUME NEW c, NEW j, Place(lev2, c, j), new(c, j) # 0
         PROVE  new(c, j) \in Block /\ lev2[new(c, j)] = Below(lev2, c, j)
    <2>1. CASE c = at /\ j = i /\ new(c, j) = b
      <3>1. Below(lev2, at, i) = n
        BY <1>0, <1>6, <1>7 DEF n
      <3> QED  BY <2>1, <3>1, <1>0, <1>4
    <2>2. CASE /\ c # b /\ Place(lev, c, j) /\ new(c, j) = old(c, j)
               /\ old(c, j) \in Block /\ old(c, j) # b /\ lev[old(c, j)] = Below(lev, c, j)
      BY <2>2, <1>4, <1>7
    <2> QED  BY <2>1, <2>2, <1>9, <1>11
  <1>12. ASSUME NEW c, NEW j, NEW d, NEW k, Place(lev2, c, j), Place(lev2, d, k),
                new(c, j) # 0, new(c, j) = new(d, k)
         PROVE  c = d /\ j = k
    <2>0. new(d, k) # 0
      BY <1>12
    <2>a. ASSUME NEW e, NEW l, Place(lev2, e, l), new(e, l) = b PROVE e = at /\ l = i
      <3>1. new(e, l) # 0
        BY <2>a, <1>2
      <3> QED  BY <2>a, <3>1, <1>9
    <2>1. CASE c = at /\ j = i /\ new(c, j) = b
      <3>1. d = at /\ k = i
        BY <2>a, <2>1, <1>12
      <3> QED  BY <2>1, <3>1
    <2>2. CASE d = at /\ k = i /\ new(d, k) = b
      <3>1. c = at /\ j = i
        BY <2>a, <2>2, <1>12
      <3> QED  BY <2>2, <3>1
    <2>3. CASE ~ (c = at /\ j = i /\ new(c, j) = b) /\ ~ (d = at /\ k = i /\ new(d, k) = b)
      <3>1. Place(lev, c, j) /\ new(c, j) = old(c, j)
        BY <2>3, <1>9, <1>12
      <3>2. Place(lev, d, k) /\ new(d, k) = old(d, k)
        BY <2>0, <2>3, <1>9, <1>12
      <3>3. old(c, j) # 0 /\ old(c, j) = old(d, k)
        BY <3>1, <3>2, <1>12
      <3> QED  BY <3>1, <3>2, <3>3, <1>0, TreeOnce DEF old
    <2> QED  BY <2>1, <2>2, <2>3
  <1>13. ASSUME NEW a \in Block, lev2[a] >= 0
         PROVE  \E c, j : Place(lev2, c, j) /\ new(c, j) = a
    <2>1. CASE a = b
      BY <2>1, <1>t DEF new
    <2>2. CASE a # b
      <3>1. lev[a] >= 0
        BY <2>2, <1>4, <1>13
      <3>2. PICK c, j : Place(lev, c, j) /\ old(c, j) = a
        BY <3>1, <1>0, TreeParent DEF old
      <3>3. a # 0
        BY Levels
      <3>4. ~ (c = at /\ j = i)
        BY <3>2, <3>3, <1>0 DEF old
      <3>5. c # b
        <4>1. c = 0 \/ lev[c] > 0
          BY <3>2 DEF Place
        <4> QED  BY <4>1, <1>2
      <3>6. Place(lev2, c, j)
        BY <3>2, <3>5, <1>7
      <3>7. new(c, j) = a
        BY <3>2, <3>4, <3>5, <3>6, <1>8 DEF new, old
      <3> QED  BY <3>6, <3>7
    <2> QED  BY <2>1, <2>2
  <1>14. Tree(addr2, blks2, out2, lev2)
    <2>1. \A c, j : Place(lev2, c, j) /\ new(c, j) # 0 =>
              new(c, j) \in Block /\ lev2[new(c, j)] = Below(lev2, c, j)
      BY <1>11
    <2>2. \A c, j, d, k : Place(lev2, c, j) /\ Place(lev2, d, k) /\ new(c, j) # 0 /\ new(c, j) = new(d, k)
              => c = d /\ j = k
      BY <1>12
    <2>3. \A a \in Block : lev2[a] >= 0 => \E c, j : Place(lev2, c, j) /\ new(c, j) = a
      BY <1>13
    <2> QED  BY <1>5, <1>10, <2>1, <2>2, <2>3, Zenon DEF Tree, new
  <1> QED  BY <1>14, <1>3, <1>4 DEF n

-----------------------------------------------------------------------------
(* The way through the tree.                                               *)

MTyped(m) ==
    /\ m = [addr |-> m.addr, size |-> m.size, blocks |-> m.blocks, free |-> m.free, err |-> m.err]
    /\ IsMap(m.addr, m.blocks) /\ m.size \in Nat /\ m.free \subseteq Block /\ m.free \cap lost = {}
HasTree(m, lev) == MTyped(m) /\ Tree(m.addr, m.blocks, m.free \cup lost, lev)

\* Where the way stands after k of n addresses.
Stands(w, lev, k, n) ==
    /\ w = [m |-> w.m, at |-> w.at, over |-> w.over] /\ w.over \in BOOLEAN
    /\ w.over => w.at \in {-1, 0}
    /\ ~ w.over /\ k = 0 => w.at = 0
    /\ ~ w.over /\ k # 0 => w.at \in Block /\ lev[w.at] = n - k
Walks(w, k, n) == \E lev : HasTree(w.m, lev) /\ Stands(w, lev, k, n)

Way(path) ==
    /\ Len(path) \in 1 .. 4 /\ path[1] \in Slot /\ Len(path) = LevelOf(path[1]) + 1
    /\ \A k \in 2 .. Len(path) : path[k] \in InBlock

\* alloc takes a free block, the first.
LEMMA HasFirst ==
    ASSUME NEW S, S \subseteq Block, S # {}
    PROVE  (CHOOSE b \in S : \A c \in S : b <= c) \in S
  <1>1. S \in SUBSET Nat
    BY FileAssumption DEF Block
  <1>2. \E b \in S : \A c \in S : b <= c
    BY <1>1, Least
  <1> QED  BY <1>2

\* A cleared block in an empty place of the tree.
LEMMA AllocatedGrows ==
    ASSUME NEW m, NEW lev, HasTree(m, lev), NEW at, NEW i, Place(lev, at, i),
           At(m.addr, m.blocks, at, i) = 0, NEW b \in m.free,
           NEW n, n = Allocated(m, at, i, b)
    PROVE  \E lev2 : /\ HasTree(n, lev2) /\ lev2[b] = Below(lev, at, i)
                     /\ b \in Block /\ n.err = m.err
  <1>1. /\ m = [addr |-> m.addr, size |-> m.size, blocks |-> m.blocks, free |-> m.free, err |-> m.err]
        /\ IsMap(m.addr, m.blocks) /\ m.size \in Nat /\ m.free \subseteq Block /\ m.free \cap lost = {}
        /\ Tree(m.addr, m.blocks, m.free \cup lost, lev)
    BY DEF HasTree, MTyped
  <1>2. b \in Block /\ b # 0 /\ b \in 0 .. NBLOCK /\ b \notin lost
    BY <1>1, Levels
  <1> DEFINE zb == [m.blocks EXCEPT ![b] = Zeros]
             z == [addr |-> m.addr, size |-> m.size, blocks |-> zb, free |-> m.free \ {b}, err |-> m.err]
             lev2 == [lev EXCEPT ![b] = Below(lev, at, i)]
  <1>3. [m EXCEPT !.free = @ \ {b}, !.blocks[b] = Zeros] = z
    <2> DEFINE ma == m.addr
               ms == m.size
               mb == m.blocks
               mf == m.free
               me == m.err
    <2>1. m = [addr |-> ma, size |-> ms, blocks |-> mb, free |-> mf, err |-> me] /\ mb = m.blocks /\ mf = m.free
          /\ ma = m.addr /\ ms = m.size /\ me = m.err
      BY <1>1
    <2> HIDE DEF ma, ms, mb, mf, me
    <2>2. [m EXCEPT !.free = @ \ {b}, !.blocks[b] = Zeros] =
            [addr |-> ma, size |-> ms, blocks |-> [mb EXCEPT ![b] = Zeros], free |-> mf \ {b}, err |-> me]
      <3> DEFINE k == [m EXCEPT !.free = @ \ {b}]
                 mz == [mb EXCEPT ![b] = Zeros]
      <3>1. k = [addr |-> ma, size |-> ms, blocks |-> mb, free |-> mf \ {b}, err |-> me]
        BY <2>1
      <3>2. [m EXCEPT !.free = @ \ {b}, !.blocks[b] = Zeros] = [k EXCEPT !.blocks = [k.blocks EXCEPT ![b] = Zeros]]
        BY Zenon
      <3> HIDE DEF k
      <3>3. k.blocks = mb
        BY <3>1
      <3>4. [k EXCEPT !.blocks = [k.blocks EXCEPT ![b] = Zeros]] = [k EXCEPT !.blocks = mz]
        BY <3>3
      <3> HIDE DEF mz
      <3>5. [k EXCEPT !.blocks = mz] = [addr |-> ma, size |-> ms, blocks |-> mz, free |-> mf \ {b}, err |-> me]
        BY <3>1
      <3> QED  BY <3>2, <3>4, <3>5 DEF mz
    <2> QED  BY <2>1, <2>2
  <1>4. zb \in [0 .. NBLOCK -> [InBlock -> Int]] /\ zb[b] = Zeros
        /\ \A c \in 0 .. NBLOCK : c # b => zb[c] = m.blocks[c]
    <2>1. Zeros \in [InBlock -> Int]
      BY DEF Zeros
    <2>2. m.blocks \in [0 .. NBLOCK -> [InBlock -> Int]]
      BY <1>1 DEF IsMap
    <2> HIDE DEF Zeros
    <2> QED  BY <2>1, <2>2, <1>2
  <1> HIDE DEF zb
  <1>5. lev[b] = -1
    BY <1>1, <1>2 DEF Tree
  <1>6. at # b
    BY <1>2, <1>5 DEF Place
  <1>a. lev2 = [lev EXCEPT ![b] = Below(lev, at, i)]
    OBVIOUS
  <1> HIDE DEF lev2
  <1>7. /\ Tree(m.addr, m.blocks, m.free \cup lost, lev) /\ Place(lev, at, i)
        /\ At(m.addr, m.blocks, at, i) = 0 /\ b \in m.free \cup lost /\ b \in Block
    BY <1>1, <1>2
  <1>8. (m.free \cup lost) \ {b} = (m.free \ {b}) \cup lost
    BY <1>2
  <1>e. ASSUME NEW j \in InBlock PROVE zb[b][j] = 0
    BY <1>4 DEF Zeros
  <1>9. CASE at = 0
    <2> DEFINE addr2 == [m.addr EXCEPT ![i] = b]
    <2>1. n = [addr |-> addr2, size |-> m.size, blocks |-> zb, free |-> m.free \ {b}, err |-> m.err]
      <3>1. n = [z EXCEPT !.addr[i] = b]
        BY <1>3, <1>9 DEF Allocated
      <3> QED  BY <3>1, Zenon
    <2>2. i \in Slot /\ m.addr \in [Slot -> Block \cup {0}]
      BY <1>1, <1>9, Levels DEF Place, IsMap
    <2>3. addr2 \in [Slot -> Block \cup {0}] /\ addr2[i] = b /\ \A j \in Slot : j # i => addr2[j] = m.addr[j]
      BY <2>2, <1>2
    <2> HIDE DEF addr2
    <2>4. ASSUME NEW c, NEW j, Place(lev2, c, j)
          PROVE  At(addr2, zb, c, j) = IF c = at /\ j = i THEN b ELSE IF c = b THEN 0
                                        ELSE At(m.addr, m.blocks, c, j)
      <3>1. CASE c = 0
        <4>1. j \in Slot
          BY <2>4, <3>1, Levels DEF Place
        <4> QED  BY <4>1, <3>1, <2>3, <1>2, <1>9 DEF At
      <3>2. CASE c # 0
        <4>1. c \in Block /\ j \in InBlock /\ c \in 0 .. NBLOCK
          BY <2>4, <3>2, Levels DEF Place
        <4> QED  BY <4>1, <3>2, <1>4, <1>e, <1>9 DEF At
      <3> QED  BY <3>1, <3>2
    <2>5. Tree(addr2, zb, (m.free \cup lost) \ {b}, lev2) /\ lev2[b] = Below(lev, at, i)
      <3> DEFINE ma == m.addr
                 mb == m.blocks
                 o == m.free \cup lost
                 o2 == (m.free \cup lost) \ {b}
      <3>2. Growth(ma, mb, o, lev, at, i, b, addr2, zb, o2, lev2)
        BY <2>4, <1>7, <1>a, Zenon DEF Growth
      <3> HIDE DEF ma, mb, o, o2
      <3>3. Tree(addr2, zb, o2, lev2) /\ lev2[b] = Below(lev, at, i)
        BY <3>2, GrownTree
      <3> QED  BY <3>3 DEF o2
    <2>6. MTyped(n) /\ Tree(n.addr, n.blocks, n.free \cup lost, lev2)
      <3>1. n.addr = addr2 /\ n.blocks = zb /\ n.free = m.free \ {b} /\ n.size = m.size /\ n.err = m.err
        BY <2>1
      <3>2. n = [addr |-> n.addr, size |-> n.size, blocks |-> n.blocks, free |-> n.free, err |-> n.err]
        BY <2>1, <3>1
      <3>3. IsMap(n.addr, n.blocks)
        BY <3>1, <2>3, <1>4 DEF IsMap
      <3>4. MTyped(n)
        BY <3>1, <3>2, <3>3, <1>1 DEF MTyped
      <3> QED  BY <3>1, <3>4, <2>5, <1>8, Zenon
    <2> QED  BY <2>1, <2>5, <2>6, <1>2 DEF HasTree
  <1>10. CASE at # 0
    <2> DEFINE row == [zb[at] EXCEPT ![i] = b]
               blks2 == [zb EXCEPT ![at] = row]
    <2>0. at \in Block /\ at \in 0 .. NBLOCK /\ i \in InBlock
      BY <1>10, Levels DEF Place
    <2>1. n = [addr |-> m.addr, size |-> m.size, blocks |-> blks2, free |-> m.free \ {b}, err |-> m.err]
      <3>1. n = [z EXCEPT !.blocks[at][i] = b]
        BY <1>3, <1>10 DEF Allocated
      <3> QED  BY <3>1, Zenon
    <2>2. zb[at] \in [InBlock -> Int] /\ b \in Int
      BY <1>4, <2>0, <1>2
    <2>3. row \in [InBlock -> Int] /\ row[i] = b /\ \A j \in InBlock : j # i => row[j] = zb[at][j]
      BY <2>0, <2>2
    <2> HIDE DEF row
    <2>3a. blks2 \in [0 .. NBLOCK -> [InBlock -> Int]] /\ blks2[at] = row
           /\ \A c \in 0 .. NBLOCK : c # at => blks2[c] = zb[c]
      BY <2>0, <2>3, <1>4
    <2> HIDE DEF blks2
    <2>4. ASSUME NEW c, NEW j, Place(lev2, c, j)
          PROVE  At(m.addr, blks2, c, j) = IF c = at /\ j = i THEN b ELSE IF c = b THEN 0
                                        ELSE At(m.addr, m.blocks, c, j)
      <3>1. CASE c = 0
        BY <3>1, <1>2, <1>10 DEF At
      <3>2. CASE c # 0
        <4>1. c \in Block /\ j \in InBlock /\ c \in 0 .. NBLOCK
          BY <2>4, <3>2, Levels DEF Place
        <4>2. CASE c = at
          BY <4>1, <4>2, <3>2, <2>3, <2>3a, <1>4, <1>6 DEF At
        <4>3. CASE c # at
          BY <4>1, <4>3, <3>2, <2>3a, <1>4, <1>e DEF At
        <4> QED  BY <4>2, <4>3
      <3> QED  BY <3>1, <3>2
    <2>5. Tree(m.addr, blks2, (m.free \cup lost) \ {b}, lev2) /\ lev2[b] = Below(lev, at, i)
      <3> DEFINE ma == m.addr
                 mb == m.blocks
                 o == m.free \cup lost
                 o2 == (m.free \cup lost) \ {b}
      <3>2. Growth(ma, mb, o, lev, at, i, b, m.addr, blks2, o2, lev2)
        BY <2>4, <1>7, <1>a, Zenon DEF Growth
      <3> HIDE DEF ma, mb, o, o2
      <3>3. Tree(m.addr, blks2, o2, lev2) /\ lev2[b] = Below(lev, at, i)
        BY <3>2, GrownTree
      <3> QED  BY <3>3 DEF o2
    <2>6. MTyped(n) /\ Tree(n.addr, n.blocks, n.free \cup lost, lev2)
      <3>1. n.addr = m.addr /\ n.blocks = blks2 /\ n.free = m.free \ {b} /\ n.size = m.size /\ n.err = m.err
        BY <2>1
      <3>2. n = [addr |-> n.addr, size |-> n.size, blocks |-> n.blocks, free |-> n.free, err |-> n.err]
        BY <2>1, <3>1
      <3>3. IsMap(n.addr, n.blocks)
        BY <3>1, <2>3a, <1>1 DEF IsMap
      <3>4. MTyped(n)
        BY <3>1, <3>2, <3>3, <1>1 DEF MTyped
      <3> QED  BY <3>1, <3>4, <2>5, <1>8, Zenon
    <2> QED  BY <2>1, <2>5, <2>6, <1>2 DEF HasTree
  <1> QED  BY <1>9, <1>10

\* Only u_error is set.
LEMMA ErrOnly ==
    ASSUME NEW m, NEW lev, HasTree(m, lev), NEW e, NEW n, n = [m EXCEPT !.err = e]
    PROVE  HasTree(n, lev)
  <1>1. m = [addr |-> m.addr, size |-> m.size, blocks |-> m.blocks, free |-> m.free, err |-> m.err]
    BY DEF HasTree, MTyped
  <1>2. /\ n = [addr |-> n.addr, size |-> n.size, blocks |-> n.blocks, free |-> n.free, err |-> n.err]
        /\ n.addr = m.addr /\ n.size = m.size /\ n.blocks = m.blocks /\ n.free = m.free
    BY <1>1
  <1>3. MTyped(m) /\ Tree(m.addr, m.blocks, m.free \cup lost, lev)
    BY DEF HasTree
  <1> QED  BY <1>2, <1>3, Zenon DEF HasTree, MTyped

\* A step of bmap keeps the tree and goes one level down in it.
Steps(w, path, k, bad, x) ==
    Way(path) /\ k \in 1 .. Len(path) /\ Walks(w, k - 1, Len(path)) /\ x = Descend(w, path[k], TRUE, bad)
LEMMA DescendKeeps ==
    ASSUME NEW w, NEW path, NEW k, NEW bad, NEW x, Steps(w, path, k, bad, x)
    PROVE  Walks(x, k, Len(path))
  <1>0. /\ Way(path) /\ k \in 1 .. Len(path) /\ Walks(w, k - 1, Len(path))
        /\ x = Descend(w, path[k], TRUE, bad)
    BY DEF Steps
  <1> DEFINE n == Len(path)
             i == path[k]
             nb == IF w.at = 0 THEN w.m.addr[i] ELSE w.m.blocks[w.at][i]
  <1>1. n \in 1 .. 4 /\ k \in 1 .. n /\ n = LevelOf(path[1]) + 1
    BY <1>0 DEF Way
  <1>2. PICK lev : HasTree(w.m, lev) /\ Stands(w, lev, k - 1, n)
    BY <1>0 DEF Walks
  <1> HIDE DEF n
  <1>3. /\ w = [m |-> w.m, at |-> w.at, over |-> w.over] /\ w.over \in BOOLEAN
        /\ w.over => w.at \in {-1, 0}
        /\ ~ w.over /\ k - 1 = 0 => w.at = 0
        /\ ~ w.over /\ k - 1 # 0 => w.at \in Block /\ lev[w.at] = n - (k - 1)
    BY <1>2 DEF Stands
  <1>4. CASE w.over
    <2>1. x = w
      BY <1>0, <1>4 DEF Descend
    <2>2. Stands(w, lev, k, n)
      BY <1>3, <1>4 DEF Stands
    <2> QED  BY <2>1, <2>2, <1>2 DEF Walks, n
  <1>5. CASE ~ w.over /\ w.at # 0 /\ w.at = bad
    <2> DEFINE m2 == [w.m EXCEPT !.err = TRUE]
    <2>1. x = [m |-> m2, at |-> 0, over |-> TRUE]
      BY <1>0, <1>5 DEF Descend
    <2>2. HasTree(m2, lev)
      BY <1>2, ErrOnly
    <2> HIDE DEF m2
    <2>3. x.m = m2 /\ Stands(x, lev, k, n)
      BY <2>1 DEF Stands
    <2> QED  BY <2>2, <2>3, Zenon DEF Walks, n
  <1>6. ASSUME ~ w.over PROVE /\ Place(lev, w.at, i) /\ At(w.m.addr, w.m.blocks, w.at, i) = nb
                              /\ Below(lev, w.at, i) = n - k
    <2>1. CASE k = 1
      <3>1. w.at = 0 /\ i = path[1] /\ i \in Slot
        BY <1>0, <1>3, <1>6, <2>1 DEF Way
      <3> QED  BY <3>1, <2>1, <1>1, Levels DEF Place, At, Below
    <2>2. CASE k # 1
      <3>1. w.at \in Block /\ lev[w.at] = n - (k - 1) /\ w.at # 0
        BY <1>1, <1>3, <1>6, <2>2, Levels
      <3>2. i \in InBlock
        BY <1>0, <1>1, <2>2 DEF Way
      <3> QED  BY <3>1, <3>2, <1>1 DEF Place, At, Below
    <2> QED  BY <2>1, <2>2
  <1>7. CASE ~ w.over /\ ~ (w.at # 0 /\ w.at = bad) /\ nb # 0
    <2>1. x = [w EXCEPT !.at = nb]
      BY <1>0, <1>7 DEF Descend
    <2>2. nb \in Block /\ lev[nb] = n - k
      <3>1. Tree(w.m.addr, w.m.blocks, w.m.free \cup lost, lev)
        BY <1>2 DEF HasTree
      <3> HIDE DEF nb
      <3>2. Place(lev, w.at, i) /\ nb = At(w.m.addr, w.m.blocks, w.at, i) /\ Below(lev, w.at, i) = n - k
        BY <1>6, <1>7
      <3> QED  BY <3>1, <3>2, <1>7, TreePlace
    <2> HIDE DEF nb
    <2>3. x.m = w.m /\ x = [m |-> x.m, at |-> x.at, over |-> x.over] /\ x.at = nb /\ x.over = w.over
      BY <2>1, <1>3
    <2>4. Stands(x, lev, k, n)
      BY <2>2, <2>3, <1>1, <1>3, <1>7 DEF Stands
    <2> QED  BY <2>3, <2>4, <1>2 DEF Walks, n
  <1>8. CASE ~ w.over /\ ~ (w.at # 0 /\ w.at = bad) /\ nb = 0 /\ w.m.free # {}
    <2> DEFINE b == CHOOSE b \in w.m.free : \A c \in w.m.free : b <= c
               m2 == Allocated(w.m, w.at, i, b)
    <2>1. x = [w EXCEPT !.m = m2, !.at = b]
      BY <1>0, <1>8 DEF Descend
    <2>2. b \in w.m.free
      <3>1. w.m.free \subseteq Block
        BY <1>2 DEF HasTree, MTyped
      <3> QED  BY <3>1, <1>8, HasFirst
    <2> HIDE DEF b
    <2>3. m2 = Allocated(w.m, w.at, i, b)
      OBVIOUS
    <2> HIDE DEF m2
    <2>4. Place(lev, w.at, i) /\ At(w.m.addr, w.m.blocks, w.at, i) = 0 /\ Below(lev, w.at, i) = n - k
      BY <1>6, <1>8
    <2>5. \E lev2 : /\ HasTree(m2, lev2) /\ lev2[b] = Below(lev, w.at, i)
                    /\ b \in Block /\ m2.err = w.m.err
      <3> DEFINE wm == w.m
                 wa == w.at
                 j == path[k]
      <3>1. /\ HasTree(wm, lev) /\ Place(lev, wa, j) /\ At(wm.addr, wm.blocks, wa, j) = 0
            /\ b \in wm.free /\ m2 = Allocated(wm, wa, j, b)
        BY <1>2, <2>2, <2>3, <2>4
      <3> HIDE DEF wm, wa, j
      <3>2. \E lev2 : /\ HasTree(m2, lev2) /\ lev2[b] = Below(lev, wa, j)
                      /\ b \in Block /\ m2.err = wm.err
        BY <3>1, AllocatedGrows
      <3> QED  BY <3>2 DEF wm, wa, j
    <2>6. PICK lev2 : HasTree(m2, lev2) /\ lev2[b] = n - k /\ b \in Block
      BY <2>4, <2>5
    <2>7. x.m = m2 /\ x = [m |-> x.m, at |-> x.at, over |-> x.over] /\ x.at = b /\ x.over = w.over
      BY <2>1, <1>3
    <2>8. Stands(x, lev2, k, n)
      BY <2>6, <2>7, <1>1, <1>3, <1>8 DEF Stands
    <2> QED  BY <2>6, <2>7, <2>8 DEF Walks, n
  <1>9. CASE ~ w.over /\ ~ (w.at # 0 /\ w.at = bad) /\ nb = 0 /\ w.m.free = {}
    <2> DEFINE m2 == [w.m EXCEPT !.err = TRUE]
    <2>1. x = [m |-> m2, at |-> -1, over |-> TRUE]
      BY <1>0, <1>9 DEF Descend
    <2>2. HasTree(m2, lev)
      BY <1>2, ErrOnly
    <2> HIDE DEF m2
    <2>3. x.m = m2 /\ Stands(x, lev, k, n)
      BY <2>1 DEF Stands
    <2> QED  BY <2>2, <2>3, Zenon DEF Walks, n
  <1> HIDE DEF nb
  <1> QED  BY <1>4, <1>5, <1>7, <1>8, <1>9

-----------------------------------------------------------------------------
(* The loops of bmap, readi and writei.                                    *)

\* A round of a loop: of bmap over the path a, of readi, and of writei from a.
Turn(kind, x, k, a, bad, c) ==
    CASE kind = "walk" -> Descend(x, a[k], TRUE, bad)
      [] kind = "read" -> ReadPiece(x, bad, c)
      [] OTHER -> WritePiece(x, a, bad, c)

LoopIs(g, n, kind, first, a, bad, c) ==
    g = [k \in 0 .. n |-> IF k = 0 THEN first ELSE Turn(kind, g[k - 1], k, a, bad, c)]

LEMMA LoopExists ==
    ASSUME NEW n \in Nat, NEW kind, NEW first, NEW a, NEW bad, NEW c
    PROVE  \E g : LoopIs(g, n, kind, first, a, bad, c)
  <1> DEFINE Upto(g, k) == LoopIs(g, k, kind, first, a, bad, c)
             S == {k \in Nat : ~ \E g : Upto(g, k)}
  <1>1. SUFFICES ASSUME S # {} PROVE FALSE
    OBVIOUS
  <1>2. PICK e \in S : \A j \in S : e <= j
    <2> HIDE DEF Upto
    <2> QED  BY <1>1, Least
  <1>3. e > 0
    <2> SUFFICES ASSUME ~ (e > 0) PROVE FALSE
      OBVIOUS
    <2> DEFINE h == [i \in 0 .. e |-> first]
    <2>1. e = 0 /\ 0 .. e = {0}
      OBVIOUS
    <2>2. Upto(h, e)
      <3>1. \A i \in 0 .. e : i = 0
        BY <2>1
      <3> QED  BY <3>1, Zenon DEF LoopIs
    <2>3. ~ \E g : Upto(g, e)
      BY <1>2
    <2> QED  BY <2>2, <2>3
  <1>4. PICK g : Upto(g, e - 1)
    <2>1. e - 1 \in Nat /\ ~ (e <= e - 1)
      BY <1>3
    <2>2. e - 1 \notin S
      BY <1>2, <2>1
    <2> QED  BY <2>1, <2>2
  <1>g. g = [i \in 0 .. e - 1 |-> IF i = 0 THEN first ELSE Turn(kind, g[i - 1], i, a, bad, c)]
    BY <1>4 DEF LoopIs
  <1> DEFINE h == [i \in 0 .. e |-> IF i = e THEN Turn(kind, g[e - 1], e, a, bad, c) ELSE g[i]]
  <1>5. Upto(h, e)
    <2>1. ASSUME NEW i \in 0 .. e
          PROVE  h[i] = IF i = 0 THEN first ELSE Turn(kind, h[i - 1], i, a, bad, c)
      <3>1. CASE i = e
        <4>1. ~ (i = 0) /\ i - 1 \in 0 .. e /\ i - 1 # e
          BY <1>3, <3>1
        <4>2. h[i - 1] = g[e - 1] /\ h[i] = Turn(kind, g[e - 1], e, a, bad, c)
          BY <4>1, <3>1
        <4> HIDE DEF h
        <4> QED  BY <4>1, <4>2, <3>1
      <3>2. CASE i # e
        <4>0. i \in 0 .. e - 1
          BY <3>2
        <4>1. h[i] = g[i]
          BY <3>2, Zenon
        <4>2. g[i] = IF i = 0 THEN first ELSE Turn(kind, g[i - 1], i, a, bad, c)
          BY <1>g, <4>0, Zenon
        <4>3. ~ (i = 0) => h[i - 1] = g[i - 1]
          <5>1. ~ (i = 0) => i - 1 \in 0 .. e /\ i - 1 # e
            BY <4>0
          <5> QED  BY <5>1, Zenon
        <4> HIDE DEF h
        <4> QED  BY <4>1, <4>2, <4>3
      <3> QED  BY <3>1, <3>2
    <2> HIDE DEF h
    <2>2. h = [i \in 0 .. e |-> h[i]]
      BY DEF h
    <2> QED  BY <2>1, <2>2 DEF LoopIs
  <1> QED  BY <1>2, <1>5

\* Along goes all the way.
GoesAlong(path, m, bad, x) ==
    Way(path) /\ (\E lev : HasTree(m, lev)) /\ x = Along(path, m, TRUE, bad)
LEMMA AlongKeeps ==
    ASSUME NEW path, NEW m, NEW bad, NEW x, GoesAlong(path, m, bad, x)
    PROVE  Walks(x, Len(path), Len(path))
  <1> DEFINE n == Len(path)
             first == [m |-> m, at |-> 0, over |-> FALSE]
             G(g) == g = [k \in 0 .. n |-> IF k = 0 THEN first ELSE Descend(g[k - 1], path[k], TRUE, bad)]
             s == CHOOSE g : G(g)
  <1>1. Way(path) /\ (\E lev : HasTree(m, lev)) /\ x = s[n]
    BY DEF GoesAlong, Along
  <1>2. n \in 1 .. 4
    BY <1>1 DEF Way
  <1>3. G(s)
    <2>1. \E g : G(g)
      <3> HIDE DEF n, first
      <3>1. \E g : LoopIs(g, n, "walk", first, path, bad, 0)
        BY <1>2, LoopExists
      <3> QED  BY <3>1 DEF LoopIs, Turn
    <2> QED  BY <2>1
  <1> HIDE DEF s
  <1>4. s[0] = first /\ \A k \in 1 .. n : s[k] = Descend(s[k - 1], path[k], TRUE, bad)
    <2>1. 0 \in 0 .. n /\ \A k \in 1 .. n : k \in 0 .. n /\ k # 0
      BY <1>2
    <2> HIDE DEF n, first
    <2> QED  BY <1>3, <2>1
  <1>5. Walks(s[0], 0, n)
    <2>1. PICK lev : HasTree(m, lev)
      BY <1>1
    <2>2. s[0].m = m /\ Stands(s[0], lev, 0, n)
      BY <1>4 DEF Stands
    <2> QED  BY <2>1, <2>2, Zenon DEF Walks
  <1> HIDE DEF first
  <1>6. ASSUME NEW k \in 1 .. n, Walks(s[k - 1], k - 1, n) PROVE Walks(s[k], k, n)
    <2> DEFINE w == s[k - 1]
               y == s[k]
    <2>1. Steps(w, path, k, bad, y)
      BY <1>1, <1>4, <1>6 DEF Steps
    <2> HIDE DEF w, y
    <2>2. Walks(y, k, Len(path))
      BY <2>1, DescendKeeps
    <2> QED  BY <2>2 DEF y
  <1> HIDE DEF n
  <1>7. Walks(s[1], 1, n)
    <2>1. 1 \in 1 .. n /\ 1 - 1 = 0
      BY <1>2
    <2> QED  BY <2>1, <1>5, <1>6
  <1>8. n >= 2 => Walks(s[2], 2, n)
    <2> SUFFICES ASSUME n >= 2 PROVE Walks(s[2], 2, n)
      OBVIOUS
    <2>1. 2 \in 1 .. n /\ 2 - 1 = 1
      BY <1>2
    <2> QED  BY <2>1, <1>7, <1>6
  <1>9. n >= 3 => Walks(s[3], 3, n)
    <2> SUFFICES ASSUME n >= 3 PROVE Walks(s[3], 3, n)
      OBVIOUS
    <2>1. 3 \in 1 .. n /\ 3 - 1 = 2 /\ n >= 2
      BY <1>2
    <2> QED  BY <2>1, <1>8, <1>6
  <1>10. n >= 4 => Walks(s[4], 4, n)
    <2> SUFFICES ASSUME n >= 4 PROVE Walks(s[4], 4, n)
      OBVIOUS
    <2>1. 4 \in 1 .. n /\ 4 - 1 = 3 /\ n >= 3
      BY <1>2
    <2> QED  BY <2>1, <1>9, <1>6
  <1>11. Walks(s[n], n, n)
    <2>1. n = 1 \/ n = 2 \/ n = 3 \/ n = 4
      BY <1>2
    <2>2. 2 >= 2 /\ 3 >= 3 /\ 4 >= 4
      OBVIOUS
    <2> QED  BY <2>1, <2>2, <1>7, <1>8, <1>9, <1>10
  <1> QED  BY <1>1, <1>11 DEF n

-----------------------------------------------------------------------------
(* The way to a block of the file.                                         *)

LEMMA SpanIs == \A l \in 0 .. 3 : Span[l] \in Nat \ {0}
  <1> DEFINE n2 == NINDIR * NINDIR
             n3 == NINDIR * n2
             f == [l \in 0 .. 3 |-> IF l = 0 THEN 1 ELSE IF l = 1 THEN NINDIR
                                  ELSE IF l = 2 THEN n2 ELSE n3]
             G(g) == g = [level \in 0 .. 3 |-> IF level = 0 THEN 1 ELSE NINDIR * g[level - 1]]
  <1>0. NINDIR \in Nat \ {0}
    BY FileAssumption
  <1>1. G(f)
    <2>1. ASSUME NEW l \in 0 .. 3 PROVE f[l] = IF l = 0 THEN 1 ELSE NINDIR * f[l - 1]
      <3>0. n2 = NINDIR * NINDIR /\ n3 = NINDIR * n2
        OBVIOUS
      <3> HIDE DEF n2, n3
      <3>1. f[0] = 1 /\ f[1] = NINDIR /\ f[2] = n2 /\ f[3] = n3
        OBVIOUS
      <3> HIDE DEF f
      <3>2. l = 0 \/ l = 1 \/ l = 2 \/ l = 3
        OBVIOUS
      <3> DEFINE m1 == NINDIR * 1
      <3>3. m1 = NINDIR
        BY <1>0
      <3>4. /\ l = 0 => f[l] = 1
            /\ l = 1 => f[l - 1] = 1 /\ f[l] = NINDIR /\ NINDIR * f[l - 1] = NINDIR
            /\ l = 2 => f[l - 1] = NINDIR /\ f[l] = NINDIR * NINDIR
            /\ l = 3 => f[l - 1] = n2 /\ f[l] = NINDIR * n2
        BY <3>0, <3>1, <3>3
      <3> QED  BY <3>2, <3>4
    <2>2. f = [l \in 0 .. 3 |-> f[l]]
      OBVIOUS
    <2> HIDE DEF f
    <2> QED  BY <2>1, <2>2
  <1>2. \E g : G(g)
    BY <1>1
  <1>3. Span = CHOOSE g : G(g)
    BY DEF Span
  <1>4. G(Span)
    <2> HIDE DEF G
    <2> QED  BY <1>2, <1>3
  <1>5. Span[0] = 1 /\ \A l \in 1 .. 3 : Span[l] = NINDIR * Span[l - 1]
    BY <1>4
  <1>6. \A x \in Nat \ {0} : NINDIR * x \in Nat \ {0}
    BY <1>0
  <1>7. Span[1] \in Nat \ {0} /\ Span[2] \in Nat \ {0} /\ Span[3] \in Nat \ {0}
    <2>1. 1 - 1 = 0 /\ 2 - 1 = 1 /\ 3 - 1 = 2 /\ {1, 2, 3} \subseteq 1 .. 3 /\ 1 \in Nat \ {0}
      OBVIOUS
    <2>2. Span[1] = NINDIR * Span[0] /\ Span[2] = NINDIR * Span[1] /\ Span[3] = NINDIR * Span[2]
      BY <1>5, <2>1
    <2> QED  BY <2>1, <2>2, <1>5, <1>6
  <1> QED  BY <1>5, <1>7

LEMMA FirstIs ==
    /\ \A l \in 1 .. 4 : First[l] \in Nat
    /\ First[1] = NDIRECT
  <1> DEFINE G(g) == g = [level \in 1 .. 4 |-> IF level = 1 THEN NDIRECT ELSE g[level - 1] + Span[level - 1]]
             f == [l \in 1 .. 4 |-> IF l = 1 THEN NDIRECT ELSE IF l = 2 THEN NDIRECT + Span[1]
                     ELSE IF l = 3 THEN NDIRECT + Span[1] + Span[2] ELSE NDIRECT + Span[1] + Span[2] + Span[3]]
  <1>0. NDIRECT \in Nat
    BY FileAssumption
  <1>1. G(f)
    <2>1. ASSUME NEW l \in 1 .. 4 PROVE f[l] = IF l = 1 THEN NDIRECT ELSE f[l - 1] + Span[l - 1]
      <3>1. /\ f[1] = NDIRECT /\ f[2] = NDIRECT + Span[1] /\ f[3] = NDIRECT + Span[1] + Span[2]
            /\ f[4] = NDIRECT + Span[1] + Span[2] + Span[3]
        OBVIOUS
      <3> HIDE DEF f
      <3>2. l = 1 \/ l = 2 \/ l = 3 \/ l = 4
        OBVIOUS
      <3> QED  BY <3>1, <3>2
    <2>2. f = [l \in 1 .. 4 |-> f[l]]
      OBVIOUS
    <2> HIDE DEF f
    <2> QED  BY <2>1, <2>2
  <1>2. \E g : G(g)
    BY <1>1
  <1>3. First = CHOOSE g : G(g)
    BY DEF First
  <1>4. G(First)
    <2> HIDE DEF G
    <2> QED  BY <1>2, <1>3
  <1>5. First[1] = NDIRECT /\ \A l \in 2 .. 4 : First[l] = First[l - 1] + Span[l - 1]
    BY <1>4
  <1>7. First[2] \in Nat /\ First[3] \in Nat /\ First[4] \in Nat
    <2>1. 3 - 1 = 2 /\ 2 - 1 = 1 /\ 4 - 1 = 3 /\ {2, 3, 4} \subseteq 2 .. 4 /\ {1, 2, 3} \subseteq 0 .. 3
      OBVIOUS
    <2>2. First[2] = First[1] + Span[1] /\ First[3] = First[2] + Span[2] /\ First[4] = First[3] + Span[3]
      BY <1>5, <2>1
    <2>3. Span[1] \in Nat /\ Span[2] \in Nat /\ Span[3] \in Nat
      BY <2>1, SpanIs
    <2> QED  BY <2>2, <2>3, <1>0, <1>5
  <1> QED  BY <1>0, <1>5, <1>7

\* Every block has a way through the map.
LEMMA PathIsWay ==
    ASSUME NEW bn \in 0 .. First[4] - 1
    PROVE  Way(Path[bn])
  <1>0. NDIRECT \in Nat \ {0} /\ NINDIR \in Nat \ {0} /\ First[4] \in Nat /\ First[1] = NDIRECT
    BY FileAssumption, FirstIs
  <1> DEFINE j == CHOOSE l \in 1 .. 3 : First[l] <= bn /\ bn < First[l + 1]
             p == IF bn < NDIRECT THEN <<bn>> ELSE PathAt(j, bn - First[j])
  <1>1. Path[bn] = p
    BY DEF Path
  <1>2. CASE bn < NDIRECT
    <2>1. Len(<<bn>>) = 1 /\ <<bn>>[1] = bn /\ bn \in Slot /\ LevelOf(bn) = 0
      BY <1>0, <1>2 DEF Slot, LevelOf
    <2> QED  BY <1>1, <1>2, <2>1 DEF Way
  <1>3. CASE ~ (bn < NDIRECT)
    <2>1. \E l \in 1 .. 3 : First[l] <= bn /\ bn < First[l + 1]
      <3>1. First[1] <= bn /\ bn < First[4]
        BY <1>0, <1>3
      <3>2. First[1] \in Nat /\ First[2] \in Nat /\ First[3] \in Nat /\ bn \in Nat
        BY FirstIs
      <3>3. 1 + 1 = 2 /\ 2 + 1 = 3 /\ 3 + 1 = 4
        OBVIOUS
      <3>4. CASE bn < First[2]
        BY <3>1, <3>3, <3>4
      <3>5. CASE First[2] <= bn /\ bn < First[3]
        BY <3>3, <3>5
      <3>6. CASE First[3] <= bn
        BY <3>1, <3>3, <3>6
      <3> QED  BY <3>2, <3>4, <3>5, <3>6
    <2>2. j \in 1 .. 3
      BY <2>1
    <2> HIDE DEF j
    <2> DEFINE n == bn - First[j]
               rest == [d \in 1 .. j |-> (n \div Span[j - d]) % NINDIR]
    <2>3. First[j] \in Nat /\ n \in Int
      BY <2>2, FirstIs
    <2> HIDE DEF n
    <2>4. \A d \in 1 .. j : (n \div Span[j - d]) % NINDIR \in InBlock
      <3> SUFFICES ASSUME NEW d \in 1 .. j PROVE (n \div Span[j - d]) % NINDIR \in InBlock
        OBVIOUS
      <3>1. Span[j - d] \in Nat \ {0}
        BY <2>2, SpanIs
      <3> DEFINE q == n \div Span[j - d]
      <3>2. q \in Int
        BY <3>1, <2>3
      <3> HIDE DEF q
      <3>3. q % NINDIR \in 0 .. NINDIR - 1
        BY <3>2, <1>0
      <3> QED  BY <3>3 DEF q, InBlock, BSIZE
    <2>5. rest \in Seq(InBlock) /\ Len(rest) = j
      BY <2>2, <2>4
    <2>6. p = <<NDIRECT + j - 1>> \o rest
      BY <1>3 DEF PathAt, n
    <2> HIDE DEF rest, p
    <2>7. <<NDIRECT + j - 1>> \in Seq(Int)
      BY <1>0, <2>2
    <2>8. rest \in Seq(Int)
      BY <2>5, <1>0 DEF InBlock, BSIZE
    <2>9. Len(p) = j + 1 /\ p[1] = NDIRECT + j - 1 /\ \A k \in 2 .. j + 1 : p[k] = rest[k - 1]
      BY <2>2, <2>5, <2>6, <2>7, <2>8
    <2>10. \A k \in 2 .. j + 1 : p[k] \in InBlock
      <3> SUFFICES ASSUME NEW k \in 2 .. j + 1 PROVE p[k] \in InBlock
        OBVIOUS
      <3>1. k - 1 \in 1 .. j
        BY <2>2
      <3>2. rest[k - 1] \in InBlock
        BY <3>1, <2>5
      <3> QED  BY <3>2, <2>9
    <2>11. p[1] \in Slot /\ LevelOf(p[1]) = j
      <3> DEFINE q == NDIRECT + j - 1
      <3>1. q \in Slot /\ ~ (q < NDIRECT) /\ q - NDIRECT + 1 = j
        BY <2>2, <1>0 DEF Slot
      <3>2. p[1] = q
        BY <2>9
      <3> HIDE DEF q
      <3>3. LevelOf(q) = j
        BY <3>1, Zenon DEF LevelOf
      <3> QED  BY <3>1, <3>2, <3>3, Zenon
    <2>12. /\ Len(p) \in 1 .. 4 /\ p[1] \in Slot /\ Len(p) = LevelOf(p[1]) + 1
           /\ \A k \in 2 .. Len(p) : p[k] \in InBlock
      <3>1. Len(p) = j + 1 /\ j + 1 \in 1 .. 4
        BY <2>2, <2>9
      <3> QED  BY <3>1, <2>10, <2>11
    <2>13. Way(p)
      BY <2>12, Zenon DEF Way
    <2> QED  BY <2>13, <1>1
  <1> QED  BY <1>2, <1>3

\* What bmap finds: nothing, block 0, or a block of data.
Found(w) == \E lev : /\ HasTree(w.m, lev)
                     /\ w.at \in {-1, 0} \/ (w.at \in Block /\ lev[w.at] = 0)
Maps(m, bn, bad, x) == (\E lev : HasTree(m, lev)) /\ x = bmap(m, bn, TRUE, bad)
LEMMA bmapKeeps ==
    ASSUME NEW m, NEW bn, NEW bad, NEW x, Maps(m, bn, bad, x)
    PROVE  Found(x)
  <1>0. (\E lev : HasTree(m, lev)) /\ x = bmap(m, bn, TRUE, bad)
    BY DEF Maps
  <1>1. CASE bn \in 0 .. First[4] - 1
    <2> DEFINE p == Path[bn]
    <2>1. GoesAlong(p, m, bad, x)
      BY <1>0, <1>1, PathIsWay DEF GoesAlong, bmap
    <2>2. Way(p)
      BY <1>1, PathIsWay
    <2> HIDE DEF p
    <2>3. Walks(x, Len(p), Len(p))
      BY <2>1, AlongKeeps
    <2>4. Len(p) # 0 /\ Len(p) - Len(p) = 0
      BY <2>2 DEF Way
    <2>5. PICK lev : HasTree(x.m, lev) /\ Stands(x, lev, Len(p), Len(p))
      BY <2>3 DEF Walks
    <2>6. x.at \in {-1, 0} \/ (x.at \in Block /\ lev[x.at] = 0)
      BY <2>4, <2>5 DEF Stands
    <2> QED  BY <2>5, <2>6 DEF Found
  <1>2. CASE ~ (bn \in 0 .. First[4] - 1)
    <2> DEFINE m2 == [m EXCEPT !.err = TRUE]
    <2>1. x = [m |-> m2, at |-> 0, over |-> TRUE]
      BY <1>0, <1>2 DEF bmap
    <2>2. PICK lev : HasTree(m2, lev)
      BY <1>0, ErrOnly
    <2> HIDE DEF m2
    <2>3. x.m = m2 /\ x.at = 0
      BY <2>1
    <2> QED  BY <2>2, <2>3 DEF Found
  <1> QED  BY <1>1, <1>2

-----------------------------------------------------------------------------
(* writei                                                                  *)

\* Data is not part of the tree.
LEMMA DataOnly ==
    ASSUME NEW addr, NEW blks, NEW out, NEW lev, Tree(addr, blks, out, lev),
           NEW at, at = 0 \/ lev[at] = 0, NEW blks2, \A c \in Block : c # at => blks2[c] = blks[c]
    PROVE  Tree(addr, blks2, out, lev)
  <1>1. \A c, j : Place(lev, c, j) => At(addr, blks2, c, j) = At(addr, blks, c, j)
    <2> SUFFICES ASSUME NEW c, NEW j, Place(lev, c, j) PROVE At(addr, blks2, c, j) = At(addr, blks, c, j)
      OBVIOUS
    <2>1. CASE c = 0
      BY <2>1 DEF At
    <2>2. CASE c # 0
      <3>1. c \in Block /\ lev[c] > 0
        BY <2>2 DEF Place
      <3>2. c # at
        BY <2>2, <3>1
      <3> QED  BY <2>2, <3>1, <3>2 DEF At
    <2> QED  BY <2>1, <2>2
  <1>2. /\ lev \in [Block -> -1 .. 3]
        /\ \A b \in Block : lev[b] = -1 <=> b \in out
    BY DEF Tree
  <1>3. ASSUME NEW b, NEW i, Place(lev, b, i), At(addr, blks2, b, i) # 0
        PROVE  At(addr, blks2, b, i) \in Block /\ lev[At(addr, blks2, b, i)] = Below(lev, b, i)
    <2> DEFINE d == At(addr, blks2, b, i)
    <2>1. d = At(addr, blks, b, i) /\ d # 0
      BY <1>1, <1>3
    <2> HIDE DEF d
    <2>2. d \in Block /\ lev[d] = Below(lev, b, i)
      BY <2>1, <1>3, TreePlace
    <2> QED  BY <2>2 DEF d
  <1>4. ASSUME NEW b, NEW i, NEW c, NEW j, Place(lev, b, i), Place(lev, c, j),
               At(addr, blks2, b, i) # 0, At(addr, blks2, b, i) = At(addr, blks2, c, j)
        PROVE  b = c /\ i = j
    <2>1. At(addr, blks, b, i) # 0 /\ At(addr, blks, b, i) = At(addr, blks, c, j)
      BY <1>1, <1>4
    <2> QED  BY <2>1, <1>4, TreeOnce
  <1>5. ASSUME NEW b \in Block, lev[b] >= 0
        PROVE  \E c, i : Place(lev, c, i) /\ At(addr, blks2, c, i) = b
    <2>1. PICK c, i : Place(lev, c, i) /\ At(addr, blks, c, i) = b
      BY <1>5, TreeParent
    <2> QED  BY <2>1, <1>1
  <1>6. \A b, i : Place(lev, b, i) /\ At(addr, blks2, b, i) # 0 =>
            At(addr, blks2, b, i) \in Block /\ lev[At(addr, blks2, b, i)] = Below(lev, b, i)
    BY <1>3
  <1>7. \A b, i, c, j : /\ Place(lev, b, i) /\ Place(lev, c, j)
                        /\ At(addr, blks2, b, i) # 0 /\ At(addr, blks2, b, i) = At(addr, blks2, c, j)
                        => b = c /\ i = j
    BY <1>4
  <1>8. \A b \in Block : lev[b] >= 0 => \E c, i : Place(lev, c, i) /\ At(addr, blks2, c, i) = b
    BY <1>5
  <1> QED  BY <1>2, <1>6, <1>7, <1>8, Zenon DEF Tree

Writes(r, s) ==
    /\ r = [m |-> r.m, off |-> r.off, left |-> r.left, out |-> r.out, piece |-> r.piece, over |-> r.over]
    /\ \E lev : HasTree(r.m, lev)
    /\ s \in Seq(Int) /\ r.off \in Int /\ r.left \in 0 .. Len(s)

\* Some words of s are put in a block of data or in block 0.
Puts(r, s, w, moved, reads, unread, err, x) ==
    /\ Writes(r, s) /\ Found(w) /\ w.at # -1
    /\ moved \in 0 .. r.left /\ x = WriteAt(r, s, w, moved, reads, unread, err)
LEMMA WriteAtKeeps ==
    ASSUME NEW r, NEW s, NEW w, NEW moved, NEW reads, NEW unread, NEW err, NEW x,
           Puts(r, s, w, moved, reads, unread, err, x)
    PROVE  Writes(x, s)
  <1>0. /\ Writes(r, s) /\ Found(w) /\ w.at # -1
        /\ moved \in 0 .. r.left /\ x = WriteAt(r, s, w, moved, reads, unread, err)
    BY DEF Puts
  <1>1. PICK lev : HasTree(w.m, lev) /\ (w.at = 0 \/ (w.at \in Block /\ lev[w.at] = 0))
    BY <1>0 DEF Found
  <1>2. s \in Seq(Int) /\ r.off \in Int /\ r.left \in 0 .. Len(s) /\ Len(s) \in Nat
    BY <1>0 DEF Writes
  <1> DEFINE on == r.off % BSIZE
             k == Len(s) - r.left + 1
             row == Filled(w.m.blocks[w.at], on, moved, s, k)
             put == [w.m.blocks EXCEPT ![w.at] = row]
             size == IF r.off + moved > w.m.size THEN r.off + moved ELSE w.m.size
             blks == IF moved # 0 /\ ~ unread /\ (reads \/ ~ err) THEN put ELSE w.m.blocks
             m2 == [w.m EXCEPT !.err = err, !.blocks = blks, !.size = size]
  <1>3. x = [m |-> m2, off |-> r.off + moved, left |-> r.left - moved, out |-> <<>>,
             piece |-> r.piece + 1, over |-> err \/ r.left = moved]
    BY <1>0 DEF WriteAt
  <1>4. /\ MTyped(w.m) /\ Tree(w.m.addr, w.m.blocks, w.m.free \cup lost, lev)
        /\ w.m = [addr |-> w.m.addr, size |-> w.m.size, blocks |-> w.m.blocks, free |-> w.m.free, err |-> w.m.err]
        /\ IsMap(w.m.addr, w.m.blocks) /\ w.m.size \in Nat /\ w.m.free \subseteq Block /\ w.m.free \cap lost = {}
        /\ w.m.blocks \in [0 .. NBLOCK -> [InBlock -> Int]]
    BY <1>1 DEF HasTree, MTyped, IsMap
  <1>5. on \in InBlock /\ on \in Int
    <2>1. NINDIR \in Nat \ {0}
      BY FileAssumption
    <2> QED  BY <2>1, <1>2 DEF InBlock, BSIZE
  <1>6. w.at \in 0 .. NBLOCK
    BY <1>1, Levels
  <1> HIDE DEF on
  <1>7. row \in [InBlock -> Int]
    <2>1. w.m.blocks[w.at] \in [InBlock -> Int]
      BY <1>4, <1>6
    <2>2. ASSUME NEW i \in InBlock, i \in on .. on + moved - 1 PROVE s[k + i - on] \in Int
      <3>1. i \in Int /\ moved \in Int /\ r.left \in Int
        BY <1>0, <1>2 DEF InBlock, BSIZE
      <3>2. k + i - on \in 1 .. Len(s)
        BY <3>1, <2>2, <1>0, <1>2, <1>5
      <3> HIDE DEF k
      <3> QED  BY <3>2, <1>2
    <2> HIDE DEF k
    <2> QED  BY <2>1, <2>2 DEF Filled
  <1> HIDE DEF row, k
  <1>8. put \in [0 .. NBLOCK -> [InBlock -> Int]] /\ \A c \in 0 .. NBLOCK : c # w.at => put[c] = w.m.blocks[c]
    BY <1>4, <1>6, <1>7
  <1> HIDE DEF put
  <1>9. blks \in [0 .. NBLOCK -> [InBlock -> Int]] /\ \A c \in Block : c # w.at => blks[c] = w.m.blocks[c]
    BY <1>4, <1>8, Levels
  <1>10. size \in Nat
    BY <1>0, <1>2, <1>4
  <1> HIDE DEF blks, size
  <1>11. Tree(w.m.addr, blks, w.m.free \cup lost, lev)
    <2> DEFINE wa == w.m.addr
               wb == w.m.blocks
               wo == w.m.free \cup lost
               at == w.at
    <2>1. Tree(wa, wb, wo, lev) /\ (at = 0 \/ lev[at] = 0) /\ \A c \in Block : c # at => blks[c] = wb[c]
      BY <1>1, <1>4, <1>9
    <2> HIDE DEF wa, wb, wo, at
    <2>2. Tree(wa, blks, wo, lev)
      BY <2>1, DataOnly
    <2> QED  BY <2>2 DEF wa, wo
  <1>12. /\ m2 = [addr |-> m2.addr, size |-> m2.size, blocks |-> m2.blocks, free |-> m2.free, err |-> m2.err]
         /\ m2.addr = w.m.addr /\ m2.blocks = blks /\ m2.free = w.m.free /\ m2.size = size
    <2> DEFINE ma == w.m.addr
               ms == w.m.size
               mb == w.m.blocks
               mf == w.m.free
               me == w.m.err
               n == w.m
    <2>1. n = [addr |-> ma, size |-> ms, blocks |-> mb, free |-> mf, err |-> me]
      BY <1>4
    <2>2. m2 = [n EXCEPT !.err = err, !.blocks = blks, !.size = size]
      OBVIOUS
    <2> HIDE DEF ma, ms, mb, mf, me, n, m2
    <2>3. m2 = [addr |-> ma, size |-> size, blocks |-> blks, free |-> mf, err |-> err]
      BY <2>1, <2>2
    <2> QED  BY <2>3 DEF ma, mf
  <1> HIDE DEF m2
  <1>13. HasTree(m2, lev)
    <2>1. IsMap(m2.addr, m2.blocks)
      BY <1>4, <1>9, <1>12 DEF IsMap
    <2>2. MTyped(m2)
      BY <2>1, <1>4, <1>10, <1>12 DEF MTyped
    <2>3. Tree(m2.addr, m2.blocks, m2.free \cup lost, lev)
      BY <1>11, <1>12, Zenon
    <2> QED  BY <2>2, <2>3 DEF HasTree
  <1>14. /\ x.m = m2 /\ x.off = r.off + moved /\ x.left = r.left - moved
         /\ x = [m |-> x.m, off |-> x.off, left |-> x.left, out |-> x.out, piece |-> x.piece, over |-> x.over]
    BY <1>3
  <1>15. x.off \in Int /\ x.left \in 0 .. Len(s)
    BY <1>0, <1>2, <1>14
  <1> QED  BY <1>2, <1>13, <1>14, <1>15 DEF Writes

\* A round of writei.
WritesOn(r, s, bad, stuck, x) == Writes(r, s) /\ x = WritePiece(r, s, bad, stuck)
LEMMA WritePieceKeeps ==
    ASSUME NEW r, NEW s, NEW bad, NEW stuck, NEW x, WritesOn(r, s, bad, stuck, x)
    PROVE  Writes(x, s)
  <1>0. Writes(r, s) /\ x = WritePiece(r, s, bad, stuck)
    BY DEF WritesOn
  <1>1. CASE r.over
    BY <1>0, <1>1 DEF WritePiece
  <1>2. CASE ~ r.over
    <2> DEFINE bn == r.off \div BSIZE
               w == bmap(r.m, bn, TRUE, bad)
               n == NextPiece(r)
               unread == n < BSIZE /\ w.at > 0 /\ w.at = bad
    <2>1. x = WriteOf(r, s, w, n, unread, stuck)
      BY <1>0, <1>2 DEF WritePiece, WriteTo
    <2>2. Found(w)
      <3> DEFINE m == r.m
                 b == bn
      <3>1. Maps(m, b, bad, w)
        BY <1>0 DEF Writes, Maps
      <3> HIDE DEF m, b, w
      <3> QED  BY <3>1, bmapKeeps
    <2>3. n \in 0 .. r.left
      <3>1. NINDIR \in Nat \ {0} /\ r.off \in Int /\ r.left \in 0 .. Len(s) /\ s \in Seq(Int)
        BY <1>0, FileAssumption DEF Writes
      <3>2. r.off % BSIZE \in 0 .. BSIZE - 1 /\ BSIZE \in Nat
        BY <3>1 DEF BSIZE
      <3>3. Len(s) \in Nat
        BY <3>1
      <3> HIDE DEF n
      <3>4. n = IF BSIZE - (r.off % BSIZE) < r.left THEN BSIZE - (r.off % BSIZE) ELSE r.left
        BY DEF n, NextPiece, Smaller
      <3> DEFINE q == r.off % BSIZE
      <3>5. q \in 0 .. BSIZE - 1 /\ n = IF BSIZE - q < r.left THEN BSIZE - q ELSE r.left
        BY <3>2, <3>4
      <3> HIDE DEF q
      <3> QED  BY <3>1, <3>2, <3>3, <3>5
    <2> HIDE DEF w, n, unread
    <2>4. CASE w.at < 0
      <3>1. x = [r EXCEPT !.m = w.m, !.over = TRUE]
        BY <2>1, <2>4 DEF WriteOf
      <3>2. r = [m |-> r.m, off |-> r.off, left |-> r.left, out |-> r.out, piece |-> r.piece, over |-> r.over]
        BY <1>0 DEF Writes
      <3>3. /\ x.m = w.m /\ x.off = r.off /\ x.left = r.left
            /\ x = [m |-> x.m, off |-> x.off, left |-> x.left, out |-> x.out, piece |-> x.piece, over |-> x.over]
        BY <3>1, <3>2
      <3>4. \E lev : HasTree(w.m, lev)
        BY <2>2 DEF Found
      <3> QED  BY <1>0, <3>3, <3>4 DEF Writes
    <2>5. CASE ~ (w.at < 0)
      <3> DEFINE moved == IF r.piece = stuck THEN 0 ELSE n
                 reads == n < BSIZE
                 err == w.m.err \/ unread \/ r.piece = stuck
      <3>1. x = WriteAt(r, s, w, moved, reads, unread, err)
        BY <2>1, <2>5 DEF WriteOf
      <3>2. moved \in 0 .. r.left
        <4>1. s \in Seq(Int) /\ r.left \in 0 .. Len(s)
          BY <1>0 DEF Writes
        <4>2. r.left \in Nat
          BY <4>1
        <4> QED  BY <4>2, <2>3
      <3>3. w.at # -1
        BY <2>5
      <3> HIDE DEF moved, reads, err
      <3>4. Puts(r, s, w, moved, reads, unread, err, x)
        BY <1>0, <2>2, <3>1, <3>2, <3>3, Zenon DEF Puts
      <3> QED  BY <3>4, WriteAtKeeps
    <2> QED  BY <2>4, <2>5
  <1> QED  BY <1>1, <1>2

\* All of writei.
LEMMA writeiKeeps ==
    ASSUME FileInv, NEW s \in Seq(Int), NEW bad, NEW stuck, NEW x, x = writei(s, bad, stuck)
    PROVE  Writes(x, s)
  <1> DEFINE n == Len(s)
             first == Begun(Now, n)
             G(g) == g = [k \in 0 .. n |-> IF k = 0 THEN first ELSE WritePiece(g[k - 1], s, bad, stuck)]
             r == CHOOSE g : G(g)
  <1>1. x = r[n] /\ n \in Nat
    BY DEF writei
  <1>2. G(r)
    <2>1. \E g : G(g)
      <3> HIDE DEF n, first
      <3>1. \E g : LoopIs(g, n, "write", first, s, bad, stuck)
        BY <1>1, LoopExists
      <3> QED  BY <3>1 DEF LoopIs, Turn
    <2> QED  BY <2>1
  <1> HIDE DEF r
  <1>3. r[0] = first /\ \A k \in 1 .. n : r[k] = WritePiece(r[k - 1], s, bad, stuck)
    <2>1. 0 \in 0 .. n /\ \A k \in 1 .. n : k \in 0 .. n /\ k # 0
      BY <1>1
    <2> HIDE DEF n, first
    <2> QED  BY <1>2, <2>1
  <1>4. Writes(first, s)
    <2> DEFINE m == Now
    <2>1. first = [m |-> m, off |-> offset, left |-> n, out |-> <<>>, piece |-> 1,
                   over |-> n = 0 \/ offset < 0]
      BY DEF Begun
    <2>2. m = [addr |-> ino.addr, size |-> ino.size, blocks |-> blocks, free |-> unused, err |-> FALSE]
      BY DEF Now
    <2>3. \E lev : HasTree(m, lev)
      <3>1. PICK lev : Tree(ino.addr, blocks, unused \cup lost, lev)
        BY DEF FileInv
      <3>2. MTyped(m)
        BY <2>2 DEF FileInv, MTyped
      <3>3. m.addr = ino.addr /\ m.blocks = blocks /\ m.free = unused
        BY <2>2
      <3> HIDE DEF m
      <3> QED  BY <3>1, <3>2, <3>3 DEF HasTree
    <2> HIDE DEF m, first
    <2>4. /\ first.m = m /\ first.off = offset /\ first.left = n
          /\ first = [m |-> first.m, off |-> first.off, left |-> first.left, out |-> first.out,
                      piece |-> first.piece, over |-> first.over]
      BY <2>1
    <2>5. offset \in Int
      BY DEF FileInv
    <2> QED  BY <1>1, <2>3, <2>4, <2>5 DEF Writes
  <1> HIDE DEF first
  <1>5. ASSUME NEW k \in 1 .. n, Writes(r[k - 1], s) PROVE Writes(r[k], s)
    <2> DEFINE y == r[k - 1]
               z == r[k]
    <2>1. WritesOn(y, s, bad, stuck, z)
      BY <1>3, <1>5 DEF WritesOn
    <2> HIDE DEF y, z
    <2>2. Writes(z, s)
      BY <2>1, WritePieceKeeps
    <2> QED  BY <2>2 DEF z
  <1> HIDE DEF n
  <1> DEFINE S == {k \in Nat : k <= n /\ ~ Writes(r[k], s)}
  <1>6. S = {}
    <2> SUFFICES ASSUME S # {} PROVE FALSE
      OBVIOUS
    <2>1. PICK e \in S : \A j \in S : e <= j
      BY Least
    <2>2. e # 0
      BY <1>3, <1>4
    <2>3. e \in 1 .. n /\ e - 1 \in Nat /\ e - 1 <= n /\ ~ (e <= e - 1)
      BY <1>1, <2>2
    <2>4. Writes(r[e - 1], s)
      BY <2>1, <2>3
    <2> QED  BY <1>5, <2>3, <2>4
  <1> QED  BY <1>1, <1>6

-----------------------------------------------------------------------------
(* readi leaves the file alone.                                            *)

Reads(r) ==
    /\ r = [m |-> r.m, off |-> r.off, left |-> r.left, out |-> r.out, piece |-> r.piece, over |-> r.over]
    /\ r.m = [addr |-> r.m.addr, size |-> r.m.size, blocks |-> r.m.blocks, free |-> r.m.free, err |-> r.m.err]
    /\ r.m.addr = ino.addr /\ r.m.size = ino.size /\ r.m.blocks = blocks /\ r.m.free = unused
    /\ r.off \in Int /\ r.left \in Int

ReadsOn(r, bad, stuck, x) == FileInv /\ Reads(r) /\ x = ReadPiece(r, bad, stuck)
LEMMA ReadPieceKeeps ==
    ASSUME NEW r, NEW bad, NEW stuck, NEW x, ReadsOn(r, bad, stuck, x)
    PROVE  Reads(x)
  <1> DEFINE m == r.m
             off == r.off
             more == r.left
             out == r.out
             piece == r.piece
             over == r.over
             bn == off \div BSIZE
             w == bmap(m, bn, FALSE, bad)
             n == Smaller(NextPiece(r), m.size - off)
             unread == w.at > 0 /\ w.at = bad
  <1>0. x = ReadPiece(r, bad, stuck) /\ Reads(r) /\ FileInv
    BY DEF ReadsOn
  <1>1. /\ r = [m |-> m, off |-> off, left |-> more, out |-> out, piece |-> piece, over |-> over]
        /\ m = [addr |-> m.addr, size |-> m.size, blocks |-> m.blocks, free |-> m.free, err |-> m.err]
        /\ m.addr = ino.addr /\ m.size = ino.size /\ m.blocks = blocks /\ m.free = unused
        /\ off \in Int /\ more \in Int
    BY <1>0 DEF Reads
  <1>2. m.size \in Int
    BY <1>0, <1>1 DEF FileInv
  <1>3. n \in Int
    <2>1. NINDIR \in Nat \ {0}
      BY FileAssumption
    <2>2. off % BSIZE \in Int
      BY <2>1, <1>1 DEF BSIZE
    <2>3. NextPiece(r) \in Int
      BY <1>1, <2>1, <2>2 DEF NextPiece, Smaller, BSIZE
    <2> QED  BY <1>1, <1>2, <2>3 DEF Smaller
  <1>4. CASE over \/ m.size <= off
    <2>1. x = [r EXCEPT !.over = TRUE]
      BY <1>0, <1>4 DEF ReadPiece
    <2> HIDE DEF m, off, more, out, piece, over
    <2>2. x = [m |-> m, off |-> off, left |-> more, out |-> out, piece |-> piece, over |-> TRUE]
      BY <1>1, <2>1
    <2> QED  BY <1>1, <2>2 DEF Reads
  <1>5. CASE ~ (over \/ m.size <= off)
    <2>1. x = ReadAt(r, w, n, unread, stuck)
      BY <1>0, <1>5 DEF ReadPiece, ReadOf
    <2> HIDE DEF w, n, unread
    <2>2. CASE w.m.err \/ piece = stuck
      <3>1. x = [r EXCEPT !.over = TRUE, !.m.err = TRUE]
        BY <2>1, <2>2 DEF ReadAt
      <3> DEFINE m2 == [m EXCEPT !.err = TRUE]
      <3>2. x = [r EXCEPT !.over = TRUE, !.m = m2]
        BY <3>1, Zenon
      <3>3. /\ m2 = [addr |-> m2.addr, size |-> m2.size, blocks |-> m2.blocks, free |-> m2.free, err |-> m2.err]
            /\ m2.addr = ino.addr /\ m2.size = ino.size /\ m2.blocks = blocks /\ m2.free = unused
        <4> DEFINE e == TRUE
        <4>1. m2 = [m EXCEPT !.err = e]
          OBVIOUS
        <4> HIDE DEF m, m2, e
        <4> QED  BY <1>1, <4>1
      <3> HIDE DEF m, off, more, out, piece, over, m2
      <3>4. x = [m |-> m2, off |-> off, left |-> more, out |-> out, piece |-> piece, over |-> TRUE]
        BY <1>1, <3>2
      <3> QED  BY <1>1, <3>3, <3>4 DEF Reads
    <2>3. CASE ~ (w.m.err \/ piece = stuck)
      <3> DEFINE m2 == [m EXCEPT !.err = unread]
      <3>1. PICK o, p, v : x = [m |-> m2, off |-> off + n, left |-> more - n, out |-> o, piece |-> p, over |-> v]
        BY <2>1, <2>3 DEF ReadAt
      <3>3. /\ m2 = [addr |-> m2.addr, size |-> m2.size, blocks |-> m2.blocks, free |-> m2.free, err |-> m2.err]
            /\ m2.addr = ino.addr /\ m2.size = ino.size /\ m2.blocks = blocks /\ m2.free = unused
        BY <1>1
      <3>4. off + n \in Int /\ more - n \in Int
        BY <1>1, <1>3
      <3> HIDE DEF m, off, more, out, piece, over, m2
      <3> QED  BY <3>1, <3>3, <3>4 DEF Reads
    <2> QED  BY <2>2, <2>3
  <1> QED  BY <1>4, <1>5

LEMMA readiKeeps ==
    ASSUME FileInv, NEW n \in Nat, NEW bad, NEW stuck, NEW x, x = readi(n, bad, stuck)
    PROVE  Reads(x)
  <1> DEFINE first == Begun(Now, n)
             G(g) == g = [k \in 0 .. n |-> IF k = 0 THEN first ELSE ReadPiece(g[k - 1], bad, stuck)]
             r == CHOOSE g : G(g)
  <1>1. x = r[n]
    BY DEF readi
  <1>2. G(r)
    <2>1. \E g : G(g)
      <3> HIDE DEF first
      <3>1. \E g : LoopIs(g, n, "read", first, 0, bad, stuck)
        BY LoopExists
      <3> QED  BY <3>1 DEF LoopIs, Turn
    <2> QED  BY <2>1
  <1> HIDE DEF r
  <1>3. r[0] = first /\ \A k \in 1 .. n : r[k] = ReadPiece(r[k - 1], bad, stuck)
    <2>1. 0 \in 0 .. n /\ \A k \in 1 .. n : k \in 0 .. n /\ k # 0
      OBVIOUS
    <2> HIDE DEF first
    <2> QED  BY <1>2, <2>1
  <1>4. Reads(first)
    <2> DEFINE m == Now
    <2>1. first = [m |-> m, off |-> offset, left |-> n, out |-> <<>>, piece |-> 1,
                   over |-> n = 0 \/ offset < 0]
      BY DEF Begun
    <2>2. m = [addr |-> ino.addr, size |-> ino.size, blocks |-> blocks, free |-> unused, err |-> FALSE]
      BY DEF Now
    <2> HIDE DEF m, first
    <2>4. /\ first.m = m /\ first.off = offset /\ first.left = n
          /\ first = [m |-> first.m, off |-> first.off, left |-> first.left, out |-> first.out,
                      piece |-> first.piece, over |-> first.over]
      BY <2>1
    <2>5. offset \in Int
      BY DEF FileInv
    <2> QED  BY <2>2, <2>4, <2>5 DEF Reads
  <1> HIDE DEF first
  <1>5. ASSUME NEW k \in 1 .. n, Reads(r[k - 1]) PROVE Reads(r[k])
    <2> DEFINE y == r[k - 1]
               z == r[k]
    <2>1. ReadsOn(y, bad, stuck, z)
      BY <1>3, <1>5 DEF ReadsOn
    <2> HIDE DEF y, z
    <2>2. Reads(z)
      BY <2>1, ReadPieceKeeps
    <2> QED  BY <2>2 DEF z
  <1> DEFINE S == {k \in Nat : k <= n /\ ~ Reads(r[k])}
  <1>6. S = {}
    <2> SUFFICES ASSUME S # {} PROVE FALSE
      OBVIOUS
    <2>1. PICK e \in S : \A j \in S : e <= j
      BY Least
    <2>2. e # 0
      BY <1>3, <1>4
    <2>3. e \in 1 .. n /\ e - 1 \in Nat /\ e - 1 <= n /\ ~ (e <= e - 1)
      BY <2>2
    <2>4. Reads(r[e - 1])
      BY <2>1, <2>3
    <2> QED  BY <1>5, <2>3, <2>4
  <1> QED  BY <1>1, <1>6

-----------------------------------------------------------------------------
(* The actions.                                                            *)

LEMMA FileInitInv == FileInit => FileInv
  <1> SUFFICES ASSUME FileInit PROVE FileInv
    OBVIOUS
  <1> DEFINE a == [i \in 0 .. NDIRECT + 2 |-> 0]
             lev == [b \in Block |-> -1]
  <1>1. ino = [addr |-> a, size |-> 0] /\ blocks = [b \in 0 .. NBLOCK |-> OldWords]
        /\ unused = Block /\ lost = {} /\ offset = 0
    BY DEF FileInit
  <1>2. a \in [Slot -> Block \cup {0}] /\ \A i \in Slot : a[i] = 0
    BY DEF Slot
  <1>3. blocks \in [0 .. NBLOCK -> [InBlock -> Int]]
    BY <1>1 DEF OldWords
  <1> HIDE DEF a
  <1>4. Tree(a, blocks, Block, lev)
    <2>1. \A b, i : Place(lev, b, i) => b = 0 /\ At(a, blocks, b, i) = 0
      BY <1>2 DEF Place, At
    <2>2. lev \in [Block -> -1 .. 3] /\ \A b \in Block : lev[b] = -1
      OBVIOUS
    <2> HIDE DEF lev
    <2> QED  BY <2>1, <2>2 DEF Tree
  <1>5. ino.addr = a /\ ino.size = 0 /\ unused \cup lost = Block
    BY <1>1
  <1> QED  BY <1>1, <1>2, <1>3, <1>4, <1>5 DEF FileInv, IsMap

\* The end of a call: what the map was, the file has now.
Returned(m, off) ==
    /\ HasTree(m, CHOOSE lev : HasTree(m, lev)) /\ off \in Int
    /\ ino' = [addr |-> m.addr, size |-> m.size] /\ blocks' = m.blocks /\ unused' = m.free
    /\ offset' = off /\ lost' = lost

LEMMA ReturnedInv ==
    ASSUME FileInv, \E m, off : Returned(m, off)
    PROVE  FileInv'
  <1>1. PICK m, off : Returned(m, off)
    OBVIOUS
  <1> DEFINE lev == CHOOSE lev : HasTree(m, lev)
  <1>2. /\ MTyped(m) /\ Tree(m.addr, m.blocks, m.free \cup lost, lev) /\ off \in Int
        /\ ino' = [addr |-> m.addr, size |-> m.size] /\ blocks' = m.blocks /\ unused' = m.free
        /\ offset' = off /\ lost' = lost
    BY <1>1 DEF Returned, HasTree
  <1> HIDE DEF lev
  <1>3. ino'.addr = m.addr /\ ino'.size = m.size
    BY <1>2
  <1>4. Tree(ino'.addr, blocks', unused' \cup lost', lev)
    BY <1>2, <1>3, Zenon
  <1>5. /\ IsMap(m.addr, m.blocks) /\ m.size \in Nat /\ m.free \subseteq Block /\ m.free \cap lost = {}
    BY <1>2 DEF MTyped
  <1>6. lost \subseteq Block
    BY DEF FileInv
  <1>7. IsMap(ino'.addr, blocks')
    BY <1>2, <1>3, <1>5 DEF IsMap
  <1>8. /\ ino' = [addr |-> ino'.addr, size |-> ino'.size] /\ ino'.size \in Nat /\ offset' \in Int
        /\ unused' \subseteq Block /\ lost' \subseteq Block /\ unused' \cap lost' = {}
    BY <1>2, <1>3, <1>5, <1>6
  <1>9. \E l : Tree(ino'.addr, blocks', unused' \cup lost', l)
    BY <1>4
  <1> QED  BY <1>7, <1>8, <1>9 DEF FileInv

LEMMA WriteInv ==
    ASSUME FileInv, NEW s \in Strings, NEW bad, NEW stuck, Write(s, bad, stuck)
    PROVE  FileInv'
  <1> DEFINE r == writei(s, bad, stuck)
  <1>1. s \in Seq(Int)
    BY FileAssumption
  <1>2. Writes(r, s)
    <2>1. r = writei(s, bad, stuck)
      OBVIOUS
    <2> HIDE DEF r
    <2> QED  BY <1>1, <2>1, writeiKeeps
  <1>3. /\ ino' = [addr |-> r.m.addr, size |-> r.m.size] /\ blocks' = r.m.blocks /\ unused' = r.m.free
        /\ offset' = r.off /\ lost' = lost
    BY DEF Write, Return
  <1> HIDE DEF r
  <1>4. (\E lev : HasTree(r.m, lev)) /\ r.off \in Int
    BY <1>2 DEF Writes
  <1>5. Returned(r.m, r.off)
    BY <1>3, <1>4, Zenon DEF Returned
  <1> QED  BY <1>5, ReturnedInv

LEMMA ReadInv ==
    ASSUME FileInv, NEW n \in Counts, NEW bad, NEW stuck, Read(n, bad, stuck)
    PROVE  FileInv'
  <1> DEFINE r == readi(n, bad, stuck)
  <1>1. n \in Nat
    BY FileAssumption
  <1>2. Reads(r)
    <2>1. r = readi(n, bad, stuck)
      OBVIOUS
    <2> HIDE DEF r
    <2> QED  BY <1>1, <2>1, readiKeeps
  <1>3. /\ ino' = [addr |-> r.m.addr, size |-> r.m.size] /\ blocks' = r.m.blocks /\ unused' = r.m.free
        /\ offset' = r.off /\ lost' = lost
    BY DEF Read, Return
  <1> HIDE DEF r
  <1>4. \E lev : HasTree(r.m, lev)
    <2>1. PICK lev : Tree(ino.addr, blocks, unused \cup lost, lev)
      BY DEF FileInv
    <2>2. MTyped(r.m)
      BY <1>2 DEF Reads, FileInv, MTyped
    <2>3. r.m.addr = ino.addr /\ r.m.blocks = blocks /\ r.m.free = unused
      BY <1>2 DEF Reads
    <2> QED  BY <2>1, <2>2, <2>3 DEF HasTree
  <1>5. r.off \in Int
    BY <1>2 DEF Reads
  <1>6. Returned(r.m, r.off)
    BY <1>3, <1>4, <1>5, Zenon DEF Returned
  <1> QED  BY <1>6, ReturnedInv

LEMMA TruncateInv ==
    ASSUME FileInv, NEW bad, Truncate(bad)
    PROVE  FileInv'
  <1> DEFINE a == [i \in DOMAIN ino.addr |-> 0]
             got == FreedFrom(ino.addr, bad)
             all == FreedFrom(ino.addr, 0)
             lev2 == [b \in Block |-> -1]
  <1>1. PICK lev : Tree(ino.addr, blocks, unused \cup lost, lev)
    BY DEF FileInv
  <1>2. IsMap(ino.addr, blocks) /\ ino.addr \in [Slot -> Block \cup {0}]
        /\ blocks \in [0 .. NBLOCK -> [InBlock -> Int]]
    BY DEF FileInv, IsMap
  <1>3. got \subseteq {b \in Block : lev[b] >= 0} /\ all = {b \in Block : lev[b] >= 0}
    <2>1. got \subseteq {b \in Block : lev[b] >= 0} /\ all \subseteq {b \in Block : lev[b] >= 0}
      BY <1>1, <1>2, FreedInFile
    <2>2. {b \in Block : lev[b] >= 0} \subseteq all
      BY <1>1, <1>2, FreedAll
    <2> QED  BY <2>1, <2>2
  <1>4. /\ lev \in [Block -> -1 .. 3]
        /\ \A b \in Block : lev[b] = -1 <=> b \in unused \cup lost
    BY <1>1 DEF Tree
  <1>5. /\ ino' = [addr |-> a, size |-> 0] /\ unused' = unused \cup got /\ offset' = offset
        /\ lost' = lost \cup (IF bad = 0 THEN {} ELSE all \ got)
    BY DEF Truncate
  <1>6. bad = 0 => got = all
    OBVIOUS
  <1>7. blocks' \in [0 .. NBLOCK -> [InBlock -> Int]]
    <2>1. blocks' = [b \in 0 .. NBLOCK |-> IF b = 0 THEN blocks[b] ELSE OldWords]
      BY <1>2 DEF Truncate
    <2>2. OldWords \in [InBlock -> Int]
      BY DEF OldWords
    <2>3. \A b \in 0 .. NBLOCK : blocks[b] \in [InBlock -> Int]
      BY <1>2
    <2> QED  BY <2>1, <2>2, <2>3
  <1>8. a \in [Slot -> Block \cup {0}] /\ \A i \in Slot : a[i] = 0
    BY <1>2
  <1> HIDE DEF a, got, all
  <1>9. unused \subseteq Block /\ lost \subseteq Block /\ unused \cap lost = {} /\ offset \in Int
    BY DEF FileInv
  <1>10. \A b \in Block : lev[b] >= 0 \/ b \in unused \/ b \in lost
    BY <1>4
  <1>11. \A b \in all : b \in Block /\ b \notin unused /\ b \notin lost
    BY <1>3, <1>4
  <1>12. unused' \cup lost' = Block /\ unused' \cap lost' = {}
    <2>1. got \subseteq all /\ all \subseteq Block
      BY <1>3
    <2>2. \A b \in Block : b \in all \/ b \in unused \/ b \in lost
      BY <1>3, <1>10
    <2>3. CASE bad = 0
      <3>1. unused' = unused \cup all /\ lost' = lost
        BY <1>5, <1>6, <2>3
      <3> QED  BY <3>1, <2>1, <2>2, <1>9, <1>11
    <2>4. CASE bad # 0
      <3>1. unused' = unused \cup got /\ lost' = lost \cup (all \ got)
        BY <1>5, <2>4
      <3> QED  BY <3>1, <2>1, <2>2, <1>9, <1>11
    <2> QED  BY <2>3, <2>4
  <1>13. Tree(ino'.addr, blocks', unused' \cup lost', lev2)
    <2>0. ino'.addr = a
      BY <1>5
    <2>1. \A b, i : Place(lev2, b, i) => b = 0 /\ At(a, blocks', b, i) = 0
      BY <1>8 DEF Place, At
    <2>2. lev2 \in [Block -> -1 .. 3] /\ \A b \in Block : lev2[b] = -1
      OBVIOUS
    <2> HIDE DEF lev2
    <2>3. Tree(a, blocks', Block, lev2)
      BY <2>1, <2>2 DEF Tree
    <2> QED  BY <2>0, <2>3, <1>12
  <1>14. IsMap(ino'.addr, blocks')
    BY <1>5, <1>7, <1>8 DEF IsMap
  <1>15. /\ ino' = [addr |-> ino'.addr, size |-> ino'.size] /\ ino'.size \in Nat /\ offset' \in Int
         /\ unused' \subseteq Block /\ lost' \subseteq Block /\ unused' \cap lost' = {}
    BY <1>5, <1>9, <1>12
  <1>16. \E l : Tree(ino'.addr, blocks', unused' \cup lost', l)
    <2> HIDE DEF lev2
    <2> QED  BY <1>13
  <1> QED  BY <1>14, <1>15, <1>16 DEF FileInv

LEMMA SeekInv == FileInv /\ Seek => FileInv'
  <1> SUFFICES ASSUME FileInv, Seek PROVE FileInv'
    OBVIOUS
  <1>1. ino' = ino /\ blocks' = blocks /\ unused' = unused /\ lost' = lost /\ offset' \in Int
    BY FileAssumption DEF Seek, store
  <1> QED  BY <1>1 DEF FileInv, IsMap

LEMMA FileNextInv == FileInv /\ [FileNext]_fileVars => FileInv'
  <1> SUFFICES ASSUME FileInv, [FileNext]_fileVars PROVE FileInv'
    OBVIOUS
  <1>1. CASE UNCHANGED fileVars
    <2>1. ino' = ino /\ blocks' = blocks /\ unused' = unused /\ lost' = lost /\ offset' = offset
      BY <1>1 DEF fileVars
    <2> QED  BY <2>1 DEF FileInv, IsMap
  <1>2. ASSUME NEW bad \in Bad, NEW stuck \in Stuck, NEW n \in Counts, Read(n, bad, stuck)
        PROVE  FileInv'
    BY <1>2, ReadInv
  <1>3. ASSUME NEW bad \in Bad, NEW stuck \in Stuck, NEW s \in Strings, Write(s, bad, stuck)
        PROVE  FileInv'
    BY <1>3, WriteInv
  <1>4. ASSUME NEW bad \in Bad, Truncate(bad)
        PROVE  FileInv'
    BY <1>4, TruncateInv
  <1>5. CASE Seek
    BY <1>5, SeekInv
  <1> QED  BY <1>1, <1>2, <1>3, <1>4, <1>5 DEF FileNext

\* FileMap: bmap, readi, writei and itrunc keep every block of the device in
\* one place of the map, free, or among those that a failed truncation lost,
\* whatever the sizes of the map and of the device, the calls and their failures.
THEOREM FileBlocksStay == FileSpec => []BlocksInOnePlace
  <1>1. FileInv /\ [FileNext]_fileVars => FileInv'
    BY FileNextInv
  <1>2. FileSpec => []FileInv
    BY FileInitInv, <1>1, PTL DEF FileSpec
  <1> QED  BY <1>2, FileInvMeans, PTL

=============================================================================
