---------------------------- MODULE Inode_proofs ----------------------------
(***************************************************************************)
(* Theorems about the inode table, for every value of the constants, in    *)
(* the systems whose programs make no pipes: i_count is the number of      *)
(* references, and the locks of inodes do what iget, plock and prele need  *)
(* of them.  pipe assigns i_count and i_flag (pipe.c) without a look at    *)
(* who else refers to the inode or waits for it, so that neither holds     *)
(* with it in general.                                                     *)
(***************************************************************************)
EXTENDS Inode, FiniteSetTheorems, TLAPS

-----------------------------------------------------------------------------
(* The inductive invariant.                                                *)

\* Where a process may be.
Place == {"user", "namei", "ialloc", "iwait", "loop", "ilist", "iend", "iout", "iget",
          "enfile", "igetRead", "got", "iput", "itrunc", "iupdat", "wdir", "plock",
          "rdwr", "update", "updateWrite"}

\* iput has been called and has not returned.
Putting == {"iput", "itrunc", "iupdat"}

\* The places in which link has looked up the old name and not the new one.
Linking == {"namei", "iget", "igetRead", "enfile", "got"} \cup Putting

\* p works on cur[p], with a reference of its own or with that of a file.
Works(p) == Refers(p) \/ pc[p] = "rdwr"

\* A process has NOFILE files at most.
Typed == TypeOK /\ \A p \in Proc : Len(files[p]) <= NOFILE

\* What p calls, and what it points to, where it stands.
PlaceOf(p) ==
    /\ pc[p] = "user" => call[p] = "none"
    /\ Works(p) \/ pc[p] = "plock" => cur[p] # 0
    /\ pc[p] \in {"plock", "rdwr"} =>
         call[p] \in {"rdwr", "close"} /\ files[p] # <<>> /\ cur[p] = Head(files[p])
    /\ linked[p] # 0 => call[p] = "link" /\ pc[p] \in Linking
    /\ after[p] = "linked" <=> linked[p] # 0 /\ pc[p] \in Putting
    /\ pc[p] = "namei" => linked[p] # 0
    /\ pc[p] \in {"update", "updateWrite"} \/ after[p] = "update" => call[p] = "update"
    /\ pc[p] = "iget" => want[p] \in Ino
    /\ asleep[p] # 0 => pc[p] \in {"iget", "plock"}
    /\ dlock = p => call[p] \in {"creat", "unlink"} \/ (call[p] = "link" /\ pc[p] = "wdir")
    /\ pc[p] = "ilist" => seen[p] < Len(Ilist)
    /\ pc[p] \notin {"ilist", "iend"} => seen[p] = 0

Places == \A p \in Proc : PlaceOf(p)

\* Who frees an inode, or writes it for the last time, is alone with it.
LastOne == \A p \in Proc : pc[p] \in {"itrunc", "iupdat"} =>
    count[cur[p]] = 1 /\ Locked(cur[p])

\* Who has a slot locked is at work on it.
LockHasWorker == \A s \in Slot : Locked(s) => \E p \in Proc : cur[p] = s /\ Works(p)

\* Who sleeps for a slot is known to the one that has it locked.
SleepersKnown == \A p \in Proc : asleep[p] # 0 => {"ILOCK", "IWANT"} \subseteq flag[asleep[p]]

\* s_ilock is set while somebody searches, and those who wait for it know.
SearchOn ==
    /\ ilock => \E p \in Proc : pc[p] \in {"ilist", "iend"}
    /\ \A p \in Proc : pc[p] = "iwait" => ilock

\* But for link, who works on a slot has it locked, alone.
WorkersLock == "link" \notin Calls =>
    /\ \A p \in Proc : Works(p) => Locked(cur[p])
    /\ \A p, q \in Proc : Works(p) /\ Works(q) /\ cur[p] = cur[q] => p = q

Inv ==
    /\ Typed /\ Places /\ CountsReferences /\ LastOne /\ LockHasWorker
    /\ SleepersKnown /\ SearchOn /\ WorkersLock

IInv == "pipe" \notin Calls => Inv

-----------------------------------------------------------------------------
(* Counting.                                                               *)

One(b) == IF b THEN 1 ELSE 0

\* Sets that differ in one element at most.
LEMMA CountChange ==
    ASSUME NEW S, NEW T, IsFiniteSet(S), NEW x, S \ {x} = T \ {x}
    PROVE  /\ IsFiniteSet(T) /\ Cardinality(S) \in Nat /\ Cardinality(T) \in Nat
           /\ Cardinality(T) = Cardinality(S) - One(x \in S) + One(x \in T)
  <1> DEFINE U == S \ {x}
  <1>1. IsFiniteSet(U)
    BY FS_RemoveElement
  <1>2. /\ IsFiniteSet(U \cup {x}) /\ Cardinality(U \cup {x}) = Cardinality(U) + 1
    BY <1>1, FS_AddElement
  <1>3. Cardinality(U) \in Nat
    BY <1>1, FS_CardinalityType
  <1>4. S = IF x \in S THEN U \cup {x} ELSE U
    OBVIOUS
  <1>5. T = IF x \in T THEN U \cup {x} ELSE U
    OBVIOUS
  <1> HIDE DEF U
  <1>6. Cardinality(S) = Cardinality(U) + One(x \in S)
    BY <1>2, <1>3, <1>4 DEF One
  <1>7. IsFiniteSet(T) /\ Cardinality(T) = Cardinality(U) + One(x \in T)
    <2>1. CASE x \in T
      BY <2>1, <1>2, <1>5 DEF One
    <2>2. CASE x \notin T
      BY <2>2, <1>1, <1>3, <1>5 DEF One
    <2> QED  BY <2>1, <2>2
  <1>8. One(x \in S) \in Nat /\ One(x \in T) \in Nat
    BY DEF One
  <1> QED  BY <1>3, <1>6, <1>7, <1>8

\* A finite set with an element has a cardinality of one at least, and of more
\* than one if it has two.
LEMMA CountElements ==
    ASSUME NEW S, IsFiniteSet(S)
    PROVE  /\ Cardinality(S) \in Nat
           /\ \A x \in S : Cardinality(S) >= 1
           /\ \A x, y \in S : x # y => Cardinality(S) >= 2
           /\ S = {} => Cardinality(S) = 0
  <1>1. Cardinality(S) \in Nat
    BY FS_CardinalityType
  <1>2. Cardinality(S) = 0 <=> S = {}
    BY FS_EmptySet
  <1>3. Cardinality(S) = 1 <=> \E x : S = {x}
    BY FS_Singleton
  <1> QED  BY <1>1, <1>2, <1>3

\* p has a reference of its own to s.
RefersTo(p, s) == cur[p] = s /\ Refers(p)

Workers(s) == {p \in Proc : cur[p] = s /\ Refers(p)}
Linkers(s) == {p \in Proc : linked[p] = s}
Opened(s) ==
    {x \in Proc \X (1 .. NOFILE) : x[2] \in DOMAIN files[x[1]] /\ files[x[1]][x[2]] = s}

\* The sizes of the tables are numbers.
LEMMA Sizes ==
    system \in Systems => NINODE \in Nat \ {0} /\ NOFILE \in Nat \ {0}
  BY InodeAssumption DEF NINODE, NOFILE

\* What the references of a slot are counted in is finite.
LEMMA Finite ==
    ASSUME system \in Systems, NEW s
    PROVE  /\ IsFiniteSet(Workers(s)) /\ IsFiniteSet(Linkers(s)) /\ IsFiniteSet(Opened(s))
           /\ References(s) = Cardinality(Workers(s)) + Cardinality(Linkers(s))
                              + Cardinality(Opened(s))
  <1>1. IsFiniteSet(Workers(s)) /\ IsFiniteSet(Linkers(s))
    BY FS_Subset, InodeAssumption DEF Workers, Linkers
  <1>2. IsFiniteSet(1 .. NOFILE)
    BY FS_Interval, Sizes
  <1>3. IsFiniteSet(Proc \X (1 .. NOFILE))
    BY <1>2, FS_Product, InodeAssumption
  <1>4. Opened(s) \subseteq Proc \X (1 .. NOFILE)
    BY DEF Opened
  <1>5. IsFiniteSet(Opened(s))
    BY <1>3, <1>4, FS_Subset
  <1>6. References(s) = Cardinality(Workers(s)) + Cardinality(Linkers(s))
                        + Cardinality(Opened(s))
    BY DEF References, Workers, Linkers, Opened
  <1> QED  BY <1>1, <1>5, <1>6

\* A reference is counted; and who has the only one is the only one who has any.
LEMMA Counted ==
    ASSUME Typed, CountsReferences, NEW p \in Proc, NEW s \in Slot
    PROVE  /\ RefersTo(p, s) \/ linked[p] = s \/ (\E i \in DOMAIN files[p] : files[p][i] = s)
                => count[s] >= 1
           /\ RefersTo(p, s) /\ count[s] = 1 =>
                /\ \A q \in Proc \ {p} : ~ RefersTo(q, s)
                /\ \A q \in Proc : linked[q] # s
                /\ \A q \in Proc : \A i \in DOMAIN files[q] : files[q][i] # s
  <1>1. system \in Systems
    BY DEF Typed, TypeOK
  <1>2. count[s] = Cardinality(Workers(s)) + Cardinality(Linkers(s)) + Cardinality(Opened(s))
    BY <1>1, Finite DEF CountsReferences
  <1>3. /\ Cardinality(Workers(s)) \in Nat /\ Cardinality(Linkers(s)) \in Nat
        /\ Cardinality(Opened(s)) \in Nat
    BY <1>1, Finite, CountElements
  <1>4. \A q \in Proc : RefersTo(q, s) => q \in Workers(s)
    BY DEF RefersTo, Workers
  <1>5. \A q \in Proc : linked[q] = s => q \in Linkers(s)
    BY DEF Linkers
  <1>6. \A q \in Proc : \A i \in DOMAIN files[q] : files[q][i] = s => <<q, i>> \in Opened(s)
    <2> SUFFICES ASSUME NEW q \in Proc, NEW i \in DOMAIN files[q], files[q][i] = s
                 PROVE  <<q, i>> \in Opened(s)
      OBVIOUS
    <2>1. files[q] \in Seq(Slot) /\ Len(files[q]) <= NOFILE
      BY DEF Typed, TypeOK
    <2>2. i \in 1 .. NOFILE
      BY <2>1, <1>1, Sizes
    <2> QED  BY <2>2 DEF Opened
  <1>7. IsFiniteSet(Workers(s)) /\ IsFiniteSet(Linkers(s)) /\ IsFiniteSet(Opened(s))
    BY <1>1, Finite
  <1>8. ASSUME NEW x, x \in Workers(s) \/ x \in Linkers(s) \/ x \in Opened(s)
        PROVE  count[s] >= 1
    <2>1. Cardinality(Workers(s)) >= 1 \/ Cardinality(Linkers(s)) >= 1
          \/ Cardinality(Opened(s)) >= 1
      BY <1>7, <1>8, CountElements
    <2> QED  BY <2>1, <1>2, <1>3
  <1>9. ASSUME RefersTo(p, s), count[s] = 1
        PROVE  Workers(s) = {p} /\ Linkers(s) = {} /\ Opened(s) = {}
    <2>1. Cardinality(Workers(s)) >= 1
      BY <1>4, <1>7, <1>9, CountElements
    <2>2. Cardinality(Workers(s)) = 1 /\ Cardinality(Linkers(s)) = 0 /\ Cardinality(Opened(s)) = 0
      BY <2>1, <1>2, <1>3, <1>9
    <2>3. \E x : Workers(s) = {x}
      BY <2>2, <1>7, FS_Singleton
    <2> QED  BY <2>2, <2>3, <1>4, <1>7, <1>9, FS_EmptySet
  <1> QED  BY <1>4, <1>5, <1>6, <1>8, <1>9

-----------------------------------------------------------------------------
(* Steps of one process.                                                   *)

\* What the step of another process leaves to q: all, but that q may be woken.
Keeps(q) ==
    /\ pc'[q] = pc[q] \/ (pc[q] = "iwait" /\ pc'[q] = "ialloc")
    /\ call'[q] = call[q] /\ cur'[q] = cur[q] /\ linked'[q] = linked[q]
    /\ after'[q] = after[q] /\ want'[q] = want[q] /\ files'[q] = files[q]
    /\ seen'[q] = seen[q]
    /\ asleep'[q] = asleep[q] \/ asleep'[q] = 0
    /\ dlock' = q => dlock = q

Others(p) == system' = system /\ \A q \in Proc \ {p} : Keeps(q)

\* How p's references, but for those of its files, change i_count.
CountsOwn(p) == files'[p] = files[p] /\ \A s \in Slot :
    count'[s] = count[s] - One(RefersTo(p, s)) + One(RefersTo(p, s)')
                         - One(linked[p] = s) + One(linked'[p] = s)

\* p opens the inode that it works on: its reference is the file's now.
Opens(p) ==
    /\ Refers(p) /\ ~ Refers(p)' /\ cur[p] \in Slot /\ Len(files[p]) < NOFILE
    /\ files'[p] = Append(files[p], cur[p])
    /\ count' = count /\ linked'[p] = linked[p]

\* p closes its first file: the reference is its own now.
Closes(p) ==
    /\ ~ Refers(p) /\ Refers(p)' /\ cur[p] = Head(files[p]) /\ cur'[p] = cur[p]
    /\ files[p] # <<>> /\ files'[p] = Tail(files[p])
    /\ count' = count /\ linked'[p] = linked[p]

\* Others work on what they worked on.
LEMMA OthersWork ==
    ASSUME NEW p, Others(p), NEW q \in Proc \ {p}
    PROVE  /\ Refers(q)' <=> Refers(q)
           /\ Works(q)' <=> Works(q)
           /\ cur'[q] = cur[q]
  <1>1. cur'[q] = cur[q] /\ (pc'[q] = pc[q] \/ (pc[q] = "iwait" /\ pc'[q] = "ialloc"))
    BY DEF Others, Keeps
  <1> QED  BY <1>1 DEF Refers, Works

\* The references of those who work on a slot and of links in progress.
LEMMA OwnRecounted ==
    ASSUME Typed, NEW p \in Proc, Others(p), NEW s
    PROVE  /\ Cardinality(Workers(s)') = Cardinality(Workers(s)) - One(RefersTo(p, s))
                                         + One(RefersTo(p, s)')
           /\ Cardinality(Linkers(s)') = Cardinality(Linkers(s)) - One(linked[p] = s)
                                         + One(linked'[p] = s)
           /\ Cardinality(Workers(s)) \in Nat /\ Cardinality(Linkers(s)) \in Nat
           /\ Cardinality(Workers(s)') \in Nat /\ Cardinality(Linkers(s)') \in Nat
  <1>1. system \in Systems
    BY DEF Typed, TypeOK
  <1>2. IsFiniteSet(Workers(s)) /\ IsFiniteSet(Linkers(s))
    BY <1>1, Finite
  <1>3. Workers(s) \ {p} = Workers(s)' \ {p}
    BY OthersWork DEF Workers
  <1>4. Linkers(s) \ {p} = Linkers(s)' \ {p}
    BY DEF Linkers, Others, Keeps
  <1>5. (p \in Workers(s) <=> RefersTo(p, s)) /\ (p \in Workers(s)' <=> RefersTo(p, s)')
    BY DEF Workers, RefersTo
  <1>6. (p \in Linkers(s) <=> linked[p] = s) /\ (p \in Linkers(s)' <=> linked'[p] = s)
    BY DEF Linkers
  <1> HIDE DEF Workers, Linkers
  <1>7. Cardinality(Workers(s)') = Cardinality(Workers(s)) - One(p \in Workers(s))
                                   + One(p \in Workers(s)')
        /\ Cardinality(Workers(s)) \in Nat /\ Cardinality(Workers(s)') \in Nat
    BY <1>2, <1>3, CountChange
  <1>8. Cardinality(Linkers(s)') = Cardinality(Linkers(s)) - One(p \in Linkers(s))
                                   + One(p \in Linkers(s)')
        /\ Cardinality(Linkers(s)) \in Nat /\ Cardinality(Linkers(s)') \in Nat
    BY <1>2, <1>4, CountChange
  <1>9. /\ One(p \in Workers(s)) = One(RefersTo(p, s))
        /\ One(p \in Workers(s)') = One(RefersTo(p, s)')
        /\ One(p \in Linkers(s)) = One(linked[p] = s)
        /\ One(p \in Linkers(s)') = One(linked'[p] = s)
    BY <1>5, <1>6 DEF One
  <1> QED  BY <1>7, <1>8, <1>9

\* The references of files, when p opens none, opens one or closes one.
LEMMA FilesRecounted ==
    ASSUME Typed, NEW p \in Proc, Others(p), NEW s
    PROVE  /\ Cardinality(Opened(s)) \in Nat
           /\ files'[p] = files[p] => Cardinality(Opened(s)') = Cardinality(Opened(s))
           /\ Opens(p) => Cardinality(Opened(s)') = Cardinality(Opened(s)) + One(cur[p] = s)
           /\ Closes(p) => Cardinality(Opened(s)') = Cardinality(Opened(s)) - One(cur[p] = s)
  <1>1. /\ system \in Systems /\ files[p] \in Seq(Slot) /\ Len(files[p]) <= NOFILE
        /\ \A q \in Proc \ {p} : files'[q] = files[q]
        /\ NOFILE' = NOFILE /\ NOFILE \in Nat
    BY Sizes DEF Typed, TypeOK, Others, Keeps, NOFILE
  <1>2. IsFiniteSet(Opened(s)) /\ Cardinality(Opened(s)) \in Nat
    BY <1>1, Finite, FS_CardinalityType
  <1>3. ASSUME files'[p] = files[p]
        PROVE  Opened(s)' = Opened(s)
    BY <1>1, <1>3 DEF Opened
  <1>4. ASSUME Opens(p)
        PROVE  Cardinality(Opened(s)') = Cardinality(Opened(s)) + One(cur[p] = s)
    <2> DEFINE x == <<p, Len(files[p]) + 1>>
    <2>1. /\ files'[p] = Append(files[p], cur[p]) /\ Len(files[p]) < NOFILE /\ cur[p] \in Slot
      BY <1>4 DEF Opens
    <2>2. /\ DOMAIN files[p] = 1 .. Len(files[p])
          /\ DOMAIN files'[p] = 1 .. Len(files[p]) + 1
          /\ \A i \in 1 .. Len(files[p]) : files'[p][i] = files[p][i]
          /\ files'[p][Len(files[p]) + 1] = cur[p] /\ Len(files[p]) \in Nat
      BY <2>1, <1>1
    <2>3. x \notin Opened(s) /\ (x \in Opened(s)' <=> cur[p] = s)
      BY <2>1, <2>2, <1>1 DEF Opened
    <2>4. Opened(s) \ {x} = Opened(s)' \ {x}
      <3>1. ASSUME NEW q \in Proc, NEW i \in 1 .. NOFILE, <<q, i>> # x
            PROVE  <<q, i>> \in Opened(s) <=> <<q, i>> \in Opened(s)'
        <4>1. CASE q # p
          BY <4>1, <1>1 DEF Opened
        <4>2. CASE q = p
          <5>1. i \in DOMAIN files[p] <=> i \in DOMAIN files'[p]
            BY <4>2, <3>1, <2>2
          <5>2. i \in DOMAIN files[p] => files[p][i] = files'[p][i]
            BY <2>2
          <5> QED  BY <5>1, <5>2, <4>2, <1>1 DEF Opened
        <4> QED  BY <4>1, <4>2
      <3>2. Opened(s) \subseteq Proc \X (1 .. NOFILE) /\ Opened(s)' \subseteq Proc \X (1 .. NOFILE)
        BY <1>1 DEF Opened
      <3> HIDE DEF x
      <3> QED  BY <3>1, <3>2
    <2> HIDE DEF x
    <2>5. Cardinality(Opened(s)') = Cardinality(Opened(s)) - One(x \in Opened(s))
                                    + One(x \in Opened(s)')
      BY <2>4, <1>2, CountChange
    <2> QED  BY <2>3, <2>5, <1>2 DEF One
  <1>5. ASSUME Closes(p)
        PROVE  Cardinality(Opened(s)') = Cardinality(Opened(s)) - One(cur[p] = s)
    <2> DEFINE x == <<p, 1>>
               R == Opened(s) \ {x}
               f == [y \in R |-> IF y[1] = p THEN <<p, y[2] - 1>> ELSE y]
    <2>1. /\ files[p] # <<>> /\ files'[p] = Tail(files[p]) /\ cur[p] = Head(files[p])
      BY <1>5 DEF Closes
    <2>2. /\ DOMAIN files[p] = 1 .. Len(files[p]) /\ Len(files[p]) \in Nat /\ Len(files[p]) >= 1
          /\ DOMAIN files'[p] = 1 .. Len(files[p]) - 1
          /\ \A i \in 1 .. Len(files[p]) - 1 : files'[p][i] = files[p][i + 1]
          /\ files[p][1] = cur[p]
      BY <2>1, <1>1
    <2>3. x \in Opened(s) <=> cur[p] = s
      BY <2>2, <1>1 DEF Opened
    <2>4. f \in Bijection(R, Opened(s)')
      <3>1. ASSUME NEW y \in R
            PROVE  /\ y = <<y[1], y[2]>> /\ y[1] \in Proc /\ y[2] \in DOMAIN files[y[1]]
                   /\ y[2] \in 1 .. NOFILE /\ files[y[1]][y[2]] = s
                   /\ y[1] = p => y[2] # 1
        BY DEF Opened
      <3>2. ASSUME NEW y \in R
            PROVE  f[y] \in Opened(s)'
        <4>1. CASE y[1] = p
          <5>1. y[2] - 1 \in 1 .. Len(files[p]) - 1 /\ y[2] - 1 \in 1 .. NOFILE
            BY <4>1, <3>1, <2>2, <1>1
          <5>2. files'[p][y[2] - 1] = s
            BY <5>1, <4>1, <3>1, <2>2
          <5> QED  BY <5>1, <5>2, <4>1, <2>2, <1>1 DEF Opened
        <4>2. CASE y[1] # p
          <5>1. f[y] = y
            BY <4>2
          <5> QED  BY <5>1, <4>2, <3>1, <1>1 DEF Opened
        <4> QED  BY <4>1, <4>2
      <3>3. ASSUME NEW y \in R, NEW z \in R, f[y] = f[z]
            PROVE  y = z
        <4>1. y[1] = z[1]
          <5>1. f[y][1] = y[1] /\ f[z][1] = z[1]
            BY <3>1
          <5> QED  BY <5>1, <3>3
        <4>2. y[2] = z[2]
          <5>1. CASE y[1] = p
            <6>1. f[y][2] = y[2] - 1 /\ f[z][2] = z[2] - 1
              BY <5>1, <4>1
            <6>2. y[2] \in Int /\ z[2] \in Int
              BY <3>1, <1>1
            <6> QED  BY <6>1, <6>2, <3>3
          <5>2. CASE y[1] # p
            BY <5>2, <4>1, <3>3
          <5> QED  BY <5>1, <5>2
        <4> QED  BY <4>1, <4>2, <3>1
      <3>4. ASSUME NEW z \in Opened(s)'
            PROVE  \E y \in R : f[y] = z
        <4>1. /\ z = <<z[1], z[2]>> /\ z[1] \in Proc /\ z[2] \in DOMAIN files'[z[1]]
              /\ z[2] \in 1 .. NOFILE /\ files'[z[1]][z[2]] = s
          BY <1>1 DEF Opened
        <4>2. CASE z[1] = p
          <5> DEFINE y == <<p, z[2] + 1>>
          <5>1. z[2] + 1 \in 1 .. Len(files[p]) /\ z[2] + 1 \in 1 .. NOFILE /\ z[2] + 1 # 1
            BY <4>1, <4>2, <2>2, <1>1
          <5>2. files[p][z[2] + 1] = s
            BY <4>1, <4>2, <2>2
          <5>3. y \in R
            BY <5>1, <5>2, <2>2 DEF Opened
          <5>4. f[y] = <<p, (z[2] + 1) - 1>>
            BY <5>3
          <5>5. (z[2] + 1) - 1 = z[2]
            BY <4>1, <1>1
          <5> QED  BY <5>3, <5>4, <5>5, <4>1, <4>2
        <4>3. CASE z[1] # p
          <5>1. z \in R
            BY <4>1, <4>3, <1>1 DEF Opened
          <5>2. f[z] = z
            BY <5>1, <4>3
          <5> QED  BY <5>1, <5>2
        <4> QED  BY <4>2, <4>3
      <3> HIDE DEF R
      <3>5. f \in [R -> Opened(s)']
        <4>1. f = [y \in R |-> f[y]] /\ DOMAIN f = R
          OBVIOUS
        <4> HIDE DEF f
        <4> QED  BY <4>1, <3>2
      <3> HIDE DEF f
      <3> QED  BY <3>3, <3>4, <3>5 DEF Bijection, Injection, Surjection, IsInjective
    <2>5. IsFiniteSet(R) /\ Cardinality(R) = IF x \in Opened(s) THEN Cardinality(Opened(s)) - 1
                                             ELSE Cardinality(Opened(s))
      BY <1>2, FS_RemoveElement
    <2> HIDE DEF R, f, x
    <2>6. Cardinality(Opened(s)') = Cardinality(R)
      BY <2>4, <2>5, FS_Bijection DEF ExistsBijection
    <2> QED  BY <2>3, <2>5, <2>6, <1>2 DEF One
  <1> QED  BY <1>2, <1>3, <1>4, <1>5

\* So the count of every slot stays the number of its references.
LEMMA Recounted ==
    ASSUME Typed, CountsReferences, NEW p \in Proc, Others(p), OneCopy',
           CountsOwn(p) \/ Opens(p) \/ Closes(p)
    PROVE  CountsReferences'
  <1>1. system \in Systems /\ system' \in Systems /\ Slot' = Slot
    BY DEF Typed, TypeOK, Others, Slot, NINODE
  <1> SUFFICES ASSUME NEW s \in Slot PROVE count'[s] = References(s)'
    BY <1>1 DEF CountsReferences
  <1> DEFINE a == Cardinality(Workers(s))
             b == Cardinality(Linkers(s))
             c == Cardinality(Opened(s))
             a2 == Cardinality(Workers(s)')
             b2 == Cardinality(Linkers(s)')
             c2 == Cardinality(Opened(s)')
  <1>2. count[s] = a + b + c
    BY <1>1, Finite DEF CountsReferences
  <1>3. References(s)' = a2 + b2 + c2
    BY DEF References, Workers, Linkers, Opened
  <1>4. /\ a2 = a - One(RefersTo(p, s)) + One(RefersTo(p, s)')
        /\ b2 = b - One(linked[p] = s) + One(linked'[p] = s)
        /\ a \in Nat /\ b \in Nat /\ a2 \in Nat /\ b2 \in Nat
    BY OwnRecounted
  <1>5. /\ c \in Nat
        /\ files'[p] = files[p] => c2 = c
        /\ Opens(p) => c2 = c + One(cur[p] = s)
        /\ Closes(p) => c2 = c - One(cur[p] = s)
    BY FilesRecounted
  <1> HIDE DEF a, b, c, a2, b2, c2
  <1>6. CASE CountsOwn(p)
    <2>1. /\ files'[p] = files[p]
          /\ count'[s] = count[s] - One(RefersTo(p, s)) + One(RefersTo(p, s)')
                                  - One(linked[p] = s) + One(linked'[p] = s)
      BY <1>6 DEF CountsOwn
    <2> HIDE DEF References
    <2> QED  BY <2>1, <1>2, <1>3, <1>4, <1>5 DEF One
  <1>7. CASE Opens(p)
    <2>1. /\ count'[s] = count[s] /\ (linked'[p] = s <=> linked[p] = s)
          /\ RefersTo(p, s) <=> cur[p] = s
          /\ ~ RefersTo(p, s)'
      BY <1>7 DEF Opens, RefersTo
    <2> HIDE DEF References
    <2> QED  BY <2>1, <1>2, <1>3, <1>4, <1>5, <1>7 DEF One
  <1>8. CASE Closes(p)
    <2>1. /\ count'[s] = count[s] /\ (linked'[p] = s <=> linked[p] = s)
          /\ RefersTo(p, s)' <=> cur[p] = s
          /\ ~ RefersTo(p, s)
      BY <1>8 DEF Closes, RefersTo
    <2> HIDE DEF References
    <2> QED  BY <2>1, <1>2, <1>3, <1>4, <1>5, <1>8 DEF One
  <1> QED  BY <1>6, <1>7, <1>8

\* What p may do to the slots: it locks what is not locked, and unlocks and
\* counts what it works on.
SlotsOf(p) == \A s \in Slot :
    /\ Locked(s)' => (Locked(s) /\ ~ (cur[p] = s /\ Works(p))) \/ (cur'[p] = s /\ Works(p)')
    /\ Locked(s) /\ ~ Locked(s)' => cur[p] = s /\ Works(p)
    /\ count'[s] = count[s] \/ ~ Locked(s) \/ (cur[p] = s /\ Works(p))

\* The lock of the slot that p works on, but for link.
LockOf(p) == "link" \notin Calls /\ Works(p)' =>
    /\ Locked(cur[p])'
    /\ (Works(p) /\ cur'[p] = cur[p]) \/ ~ Locked(cur'[p])

\* p is alone with what it frees or writes for the last time.
LastOf(p) == pc'[p] \in {"itrunc", "iupdat"} => count[cur[p]]' = 1 /\ Locked(cur[p])'

\* What p's step leaves of the invariant, as a whole.
StepOf(p) ==
    /\ Others(p) /\ Typed' /\ PlaceOf(p)' /\ OneCopy'
    /\ CountsOwn(p) \/ Opens(p) \/ Closes(p)
    /\ SlotsOf(p) /\ LockOf(p) /\ LastOf(p)
    /\ SleepersKnown' /\ SearchOn'

\* Who works on a slot is counted in it.
LEMMA WorkIsCounted ==
    ASSUME Inv, NEW p \in Proc
    PROVE  /\ Works(p) => cur[p] \in Slot /\ count[cur[p]] >= 1
           /\ linked[p] # 0 => linked[p] \in Slot /\ count[linked[p]] >= 1
           /\ pc[p] = "plock" => cur[p] \in Slot /\ count[cur[p]] >= 1
           /\ \A s \in Slot : count[s] = 1 /\ RefersTo(p, s) =>
                /\ \A q \in Proc \ {p} : ~ (Works(q) /\ cur[q] = s)
                /\ \A q \in Proc : linked[q] # s
                /\ \A q \in Proc : \A i \in DOMAIN files[q] : files[q][i] # s
           /\ files[p] # <<>> => Head(files[p]) \in Slot /\ count[Head(files[p])] >= 1
  <1>0. Typed /\ CountsReferences /\ PlaceOf(p) /\ \A q \in Proc : PlaceOf(q)
    BY DEF Inv, Places
  <1>1. /\ cur[p] \in Slot \cup {0} /\ linked[p] \in Slot \cup {0} /\ 0 \notin Slot
        /\ files[p] \in Seq(Slot)
    BY <1>0 DEF Typed, TypeOK, Slot
  <1>2. ASSUME NEW q \in Proc, pc[q] \in {"plock", "rdwr"}
        PROVE  1 \in DOMAIN files[q] /\ files[q][1] = cur[q]
    <2>1. files[q] # <<>> /\ cur[q] = Head(files[q]) /\ files[q] \in Seq(Slot)
      BY <1>0, <1>2 DEF PlaceOf, Typed, TypeOK
    <2> QED  BY <2>1
  <1>3. Works(p) \/ pc[p] = "plock" => cur[p] \in Slot
    BY <1>0, <1>1 DEF PlaceOf
  <1>4. Works(p) => count[cur[p]] >= 1
    <2>1. CASE Refers(p)
      BY <2>1, <1>0, <1>3, Counted DEF RefersTo, Works
    <2>2. CASE pc[p] = "rdwr"
      BY <2>2, <1>0, <1>2, <1>3, Counted DEF Works
    <2> QED  BY <2>1, <2>2 DEF Works
  <1>5. pc[p] = "plock" => count[cur[p]] >= 1
    BY <1>0, <1>2, <1>3, Counted
  <1>6. linked[p] # 0 => linked[p] \in Slot /\ count[linked[p]] >= 1
    BY <1>0, <1>1, Counted
  <1>7. ASSUME NEW s \in Slot, count[s] = 1, RefersTo(p, s)
        PROVE  /\ \A q \in Proc \ {p} : ~ (Works(q) /\ cur[q] = s)
               /\ \A q \in Proc : linked[q] # s
               /\ \A q \in Proc : \A i \in DOMAIN files[q] : files[q][i] # s
    <2>1. /\ \A q \in Proc \ {p} : ~ RefersTo(q, s)
          /\ \A q \in Proc : linked[q] # s
          /\ \A q \in Proc : \A i \in DOMAIN files[q] : files[q][i] # s
      BY <1>0, <1>7, Counted
    <2> QED  BY <2>1, <1>2 DEF RefersTo, Works
  <1>8. files[p] # <<>> => Head(files[p]) \in Slot /\ count[Head(files[p])] >= 1
    <2>1. files[p] # <<>> => 1 \in DOMAIN files[p] /\ Head(files[p]) = files[p][1] /\ files[p][1] \in Slot
      BY <1>1
    <2> QED  BY <2>1, <1>0, Counted
  <1> QED  BY <1>3, <1>4, <1>5, <1>6, <1>7, <1>8

\* Such a step keeps the invariant.
LEMMA StepKeeps ==
    ASSUME Inv, NEW p \in Proc, StepOf(p)
    PROVE  Inv'
  <1>0. /\ Typed /\ Places /\ CountsReferences /\ LastOne /\ LockHasWorker /\ WorkersLock
        /\ \A q \in Proc : PlaceOf(q)
    BY DEF Inv, Places
  <1>s. /\ Others(p) /\ Typed' /\ PlaceOf(p)' /\ OneCopy'
        /\ CountsOwn(p) \/ Opens(p) \/ Closes(p)
        /\ SlotsOf(p) /\ LockOf(p) /\ LastOf(p)
        /\ SleepersKnown' /\ SearchOn'
    BY DEF StepOf
  <1>c. Slot' = Slot /\ Calls' = Calls
    BY <1>s DEF Others, Slot, NINODE, Calls
  <1>o. \A q \in Proc \ {p} : (Refers(q)' <=> Refers(q)) /\ (Works(q)' <=> Works(q)) /\ cur'[q] = cur[q]
    BY <1>s, OthersWork
  <1>1. Places'
    <2> SUFFICES ASSUME NEW q \in Proc \ {p} PROVE PlaceOf(q)'
      BY <1>s DEF Places
    <2>1. PlaceOf(q) /\ Keeps(q)
      BY <1>0, <1>s DEF Others
    <2>2. CASE pc'[q] = pc[q]
      BY <2>1, <2>2, <1>o DEF PlaceOf, Keeps
    <2>3. CASE pc[q] = "iwait" /\ pc'[q] = "ialloc"
      <3>1. linked[q] = 0 /\ asleep[q] = 0 /\ after[q] # "linked" /\ ~ Works(q)
        BY <2>1, <2>3 DEF PlaceOf, Linking, Putting, Works, Refers
      <3>2. linked'[q] = 0 /\ asleep'[q] = 0 /\ after'[q] # "linked" /\ ~ Works(q)'
        BY <3>1, <2>1, <1>o DEF Keeps
      <3> QED  BY <2>1, <2>3, <3>1, <3>2 DEF PlaceOf, Keeps
    <2> QED  BY <2>1, <2>2, <2>3 DEF Keeps
  <1>2. CountsReferences'
    BY <1>0, <1>s, Recounted
  <1>3. LastOne'
    <2> SUFFICES ASSUME NEW q \in Proc, pc'[q] \in {"itrunc", "iupdat"}
                 PROVE  count[cur[q]]' = 1 /\ Locked(cur[q])'
      BY DEF LastOne
    <2>1. CASE q = p
      BY <2>1, <1>s DEF LastOf
    <2>2. CASE q # p
      <3>1. pc[q] \in {"itrunc", "iupdat"} /\ cur'[q] = cur[q] /\ RefersTo(q, cur[q])
        BY <2>2, <1>s, <1>o DEF Others, Keeps, RefersTo, Refers
      <3>2. count[cur[q]] = 1 /\ Locked(cur[q]) /\ cur[q] \in Slot
        BY <3>1, <1>0, WorkIsCounted DEF LastOne, Works, RefersTo
      <3>3. ~ (Works(p) /\ cur[p] = cur[q])
        BY <3>1, <3>2, <2>2, WorkIsCounted
      <3> QED  BY <3>1, <3>2, <3>3, <1>s DEF SlotsOf
    <2> QED  BY <2>1, <2>2
  <1>4. LockHasWorker'
    <2> SUFFICES ASSUME NEW s \in Slot, Locked(s)'
                 PROVE  \E q \in Proc : cur'[q] = s /\ Works(q)'
      BY <1>c DEF LockHasWorker
    <2>1. CASE cur'[p] = s /\ Works(p)'
      BY <2>1
    <2>2. CASE Locked(s) /\ ~ (cur[p] = s /\ Works(p))
      BY <2>2, <1>0, <1>o DEF LockHasWorker
    <2> QED  BY <2>1, <2>2, <1>s DEF SlotsOf
  <1>5. WorkersLock'
    <2> SUFFICES ASSUME "link" \notin Calls
                 PROVE  /\ \A q \in Proc : Works(q)' => Locked(cur[q])'
                        /\ \A q, r \in Proc : Works(q)' /\ Works(r)' /\ cur'[q] = cur'[r] => q = r
      BY <1>c DEF WorkersLock
    <2>2. /\ \A q \in Proc : Works(q) => Locked(cur[q])
          /\ \A q, r \in Proc : Works(q) /\ Works(r) /\ cur[q] = cur[r] => q = r
      BY <1>0 DEF WorkersLock
    <2>3. ASSUME NEW q \in Proc \ {p}, Works(q)'
          PROVE  Works(q) /\ cur'[q] = cur[q] /\ cur[q] \in Slot /\ Locked(cur[q]) /\ Locked(cur[q])'
      <3>1. Works(q) /\ cur'[q] = cur[q] /\ Locked(cur[q]) /\ cur[q] \in Slot
        BY <2>3, <2>2, <1>o, WorkIsCounted
      <3>2. ~ (cur[p] = cur[q] /\ Works(p))
        BY <3>1, <2>2
      <3> QED  BY <3>1, <3>2, <1>s DEF SlotsOf
    <2>4. ASSUME Works(p)'
          PROVE  Locked(cur[p])' /\ ((Works(p) /\ cur'[p] = cur[p]) \/ ~ Locked(cur'[p]))
      BY <2>4, <1>s DEF LockOf
    <2>5. ASSUME NEW q \in Proc \ {p}, Works(q)', Works(p)'
          PROVE  cur'[q] # cur'[p]
      BY <2>2, <2>3, <2>4, <2>5
    <2>6. ASSUME NEW q \in Proc, NEW r \in Proc, Works(q)', Works(r)', cur'[q] = cur'[r]
          PROVE  q = r
      <3>1. CASE q # p /\ r # p
        BY <3>1, <2>2, <2>3, <2>6
      <3>2. CASE q = p /\ r # p
        BY <3>2, <2>5, <2>6
      <3>3. CASE q # p /\ r = p
        BY <3>3, <2>5, <2>6
      <3> QED  BY <3>1, <3>2, <3>3
    <2>7. ASSUME NEW q \in Proc, Works(q)'
          PROVE  Locked(cur[q])'
      BY <2>3, <2>4, <2>7
    <2> QED  BY <2>6, <2>7
  <1> QED  BY <1>s, <1>1, <1>2, <1>3, <1>4, <1>5 DEF Inv

-----------------------------------------------------------------------------
(* Steps that leave locks and counts alone.                                *)

\* The sizes of the tables, the calls and the failures are what they were.
LEMMA SameSizes ==
    ASSUME system' = system
    PROVE  Slot' = Slot /\ NOFILE' = NOFILE /\ Calls' = Calls /\ Fails' = Fails
  BY DEF Slot, NINODE, NOFILE, Calls, Fails

\* p goes on with what it has, or has nothing before and after.
LEMMA Quiet ==
    ASSUME Inv, NEW p \in Proc, Others(p), Typed', PlaceOf(p)', SearchOn',
           number' = number, count' = count, files' = files, asleep' = asleep,
           linked'[p] = linked[p],
           \A s \in Slot : /\ "ILOCK" \in flag'[s] <=> "ILOCK" \in flag[s]
                           /\ "IWANT" \in flag'[s] <=> "IWANT" \in flag[s],
           Refers(p)' <=> Refers(p), Works(p)' <=> Works(p), Works(p) => cur'[p] = cur[p],
           pc'[p] \in {"itrunc", "iupdat"} => pc[p] = "itrunc"
    PROVE  StepOf(p)
  <1>0. /\ Typed /\ CountsReferences /\ LastOne /\ SleepersKnown /\ WorkersLock
    BY DEF Inv
  <1>c. Slot' = Slot
    BY SameSizes DEF Others
  <1>l. \A s \in Slot : Locked(s)' <=> Locked(s)
    BY DEF Locked
  <1>r. Refers(p) => Works(p)
    BY DEF Works
  <1>1. OneCopy'
    BY <1>0, <1>c DEF CountsReferences, OneCopy, Typed
  <1>2. CountsOwn(p)
    <2> SUFFICES ASSUME NEW s \in Slot
                 PROVE  count'[s] = count[s] - One(RefersTo(p, s)) + One(RefersTo(p, s)')
                                             - One(linked[p] = s) + One(linked'[p] = s)
      BY DEF CountsOwn
    <2>1. RefersTo(p, s)' <=> RefersTo(p, s)
      BY <1>r DEF RefersTo
    <2>2. count[s] \in Nat
      BY <1>0 DEF Typed, TypeOK
    <2> HIDE DEF RefersTo
    <2> QED  BY <2>1, <2>2 DEF One
  <1>3. SlotsOf(p)
    BY <1>l DEF SlotsOf
  <1>4. LockOf(p)
    <2> SUFFICES ASSUME "link" \notin Calls, Works(p)
                 PROVE  Locked(cur[p])' /\ cur'[p] = cur[p]
      BY DEF LockOf
    <2>1. Locked(cur[p]) /\ cur[p] \in Slot /\ cur'[p] = cur[p]
      BY <1>0, WorkIsCounted DEF WorkersLock
    <2> QED  BY <2>1, <1>l DEF Locked
  <1>5. LastOf(p)
    <2> SUFFICES ASSUME pc'[p] \in {"itrunc", "iupdat"} PROVE count[cur[p]]' = 1 /\ Locked(cur[p])'
      BY DEF LastOf
    <2>1. pc[p] = "itrunc" /\ Works(p)
      BY DEF Works, Refers
    <2>2. count[cur[p]] = 1 /\ Locked(cur[p]) /\ cur[p] \in Slot /\ cur'[p] = cur[p]
      BY <2>1, <1>0, WorkIsCounted DEF LastOne
    <2> QED  BY <2>2, <1>l DEF Locked
  <1>6. SleepersKnown'
    <2> SUFFICES ASSUME NEW q \in Proc, asleep[q] # 0
                 PROVE  {"ILOCK", "IWANT"} \subseteq flag'[asleep[q]]
      BY DEF SleepersKnown
    <2>1. asleep[q] \in Slot /\ {"ILOCK", "IWANT"} \subseteq flag[asleep[q]]
      BY <1>0 DEF Typed, TypeOK, SleepersKnown
    <2> QED  BY <2>1
  <1> QED  BY <1>1, <1>2, <1>3, <1>4, <1>5, <1>6 DEF StepOf

\* SearchOn depends on s_ilock and on who searches.
LEMMA SearchStays ==
    ASSUME Inv, NEW p \in Proc, Others(p), UNCHANGED search,
           pc[p] \notin {"ilist", "iend"}, pc'[p] # "iwait"
    PROVE  SearchOn'
  <1>1. SearchOn /\ ilock' = ilock
    BY DEF Inv, search
  <1>2. \A q \in Proc \ {p} : pc'[q] = pc[q] \/ (pc[q] = "iwait" /\ pc'[q] = "ialloc")
    BY DEF Others, Keeps
  <1> QED  BY <1>1, <1>2 DEF SearchOn

\* Who works on a slot works on an inode.
LEMMA WorksOnInode ==
    ASSUME Inv, NEW p \in Proc, Works(p)
    PROVE  /\ cur[p] \in Slot /\ number[cur[p]] \in Ino /\ count[cur[p]] \in Nat \ {0}
           /\ core[cur[p]] \in [mode : BOOLEAN, nlink : Int]
           /\ core[cur[p]].mode \in BOOLEAN /\ core[cur[p]].nlink \in Int
           /\ volume[number[cur[p]]] \in [mode : BOOLEAN, nlink : Int]
           /\ flag[cur[p]] \subseteq {"ILOCK", "IWANT", "ICHG"}
  <1>1. cur[p] \in Slot /\ count[cur[p]] >= 1
    BY WorkIsCounted
  <1>2. TypeOK /\ OneCopy
    BY DEF Inv, CountsReferences, OneCopy
  <1>3. count[cur[p]] \in Nat \ {0}
    BY <1>1, <1>2 DEF TypeOK
  <1>4. number[cur[p]] # NoIno
    BY <1>1, <1>2, <1>3 DEF OneCopy
  <1> QED  BY <1>1, <1>2, <1>3, <1>4 DEF TypeOK

\* Nothing changes for the others, no reference, lock or wait, and the rest is of
\* its type.
Harmless(p) ==
    /\ UNCHANGED <<system, number, count, ilock, seen, linked, files, asleep>>
    /\ flag' \in [Slot -> SUBSET {"ILOCK", "IWANT", "ICHG"}]
    /\ \A s \in Slot : /\ "ILOCK" \in flag'[s] <=> "ILOCK" \in flag[s]
                       /\ "IWANT" \in flag'[s] <=> "IWANT" \in flag[s]
    /\ core' \in [Slot -> [mode : BOOLEAN, nlink : Int]]
    /\ volume' \in [Ino -> [mode : BOOLEAN, nlink : Int]]
    /\ spare' \in Seq(Ino) /\ entry' \in [Name -> Ino \cup {NoIno}]
    /\ dlock' \in Proc \cup {NoProc}
    /\ pc' \in [Proc -> Place] /\ cur' \in [Proc -> Slot \cup {0}]
    /\ call' \in [Proc -> Calls \cup {"none"}] /\ name' \in [Proc -> Name \cup {NoName}]
    /\ want' \in [Proc -> Ino \cup {NoIno}]
    /\ after' \in [Proc -> {"return", "ialloc", "linked", "update"}]
    /\ \A q \in Proc \ {p} :
         /\ pc'[q] = pc[q] /\ cur'[q] = cur[q] /\ call'[q] = call[q]
         /\ want'[q] = want[q] /\ after'[q] = after[q] /\ (dlock' = q => dlock = q)

\* p goes from place to place with what it has.
LEMMA GoesOn ==
    ASSUME Inv, NEW p \in Proc, Harmless(p), PlaceOf(p)',
           pc[p] \notin {"ilist", "iend"}, pc'[p] # "iwait",
           Refers(p)' <=> Refers(p), Works(p)' <=> Works(p), Works(p) => cur'[p] = cur[p],
           pc'[p] \in {"itrunc", "iupdat"} => pc[p] = "itrunc"
    PROVE  StepOf(p)
  <1>0. Typed
    BY DEF Inv
  <1>1. /\ UNCHANGED <<system, number, count, ilock, seen, linked, files, asleep>>
        /\ \A s \in Slot : /\ "ILOCK" \in flag'[s] <=> "ILOCK" \in flag[s]
                           /\ "IWANT" \in flag'[s] <=> "IWANT" \in flag[s]
        /\ \A q \in Proc \ {p} :
             /\ pc'[q] = pc[q] /\ cur'[q] = cur[q] /\ call'[q] = call[q]
             /\ want'[q] = want[q] /\ after'[q] = after[q] /\ (dlock' = q => dlock = q)
    BY DEF Harmless
  <1>c. Slot' = Slot /\ NOFILE' = NOFILE /\ Calls' = Calls
    BY <1>1, SameSizes
  <1>2. Others(p)
    BY <1>1 DEF Others, Keeps
  <1>3. Typed'
    <2>1. /\ system \in Systems /\ number \in [Slot -> Ino \cup {NoIno}]
          /\ count \in [Slot -> Nat] /\ ilock \in BOOLEAN
          /\ seen \in [Proc -> 0 .. Len(Ilist)] /\ {linked, asleep} \subseteq [Proc -> Slot \cup {0}]
          /\ files \in [Proc -> Seq(Slot)] /\ \A q \in Proc : Len(files[q]) <= NOFILE
      BY <1>0 DEF Typed, TypeOK
    <2>2. TypeOK'
      BY <2>1, <1>c DEF Harmless, TypeOK, Place
    <2> QED  BY <2>1, <2>2, <1>1, <1>c DEF Typed
  <1>4. SearchOn'
    BY <1>1, <1>2, SearchStays DEF search
  <1> QED  BY <1>1, <1>2, <1>3, <1>4, Quiet

\* ICHG comes and goes without the other flags.
LEMMA FlagsKept ==
    ASSUME Typed, NEW s \in Slot,
           \/ flag' = flag
           \/ flag' = [flag EXCEPT ![s] = @ \cup {"ICHG"}]
           \/ flag' = [flag EXCEPT ![s] = flag[s] \ {"ICHG"}]
    PROVE  /\ flag' \in [Slot -> SUBSET {"ILOCK", "IWANT", "ICHG"}]
           /\ \A t \in Slot : /\ "ILOCK" \in flag'[t] <=> "ILOCK" \in flag[t]
                              /\ "IWANT" \in flag'[t] <=> "IWANT" \in flag[t]
  <1>0. flag \in [Slot -> SUBSET {"ILOCK", "IWANT", "ICHG"}]
    BY DEF Typed, TypeOK
  <1>1. CASE flag' = flag
    BY <1>0, <1>1
  <1>2. CASE flag' = [flag EXCEPT ![s] = @ \cup {"ICHG"}]
    BY <1>0, <1>2
  <1>3. CASE flag' = [flag EXCEPT ![s] = flag[s] \ {"ICHG"}]
    BY <1>0, <1>3
  <1> QED  BY <1>1, <1>2, <1>3

\* iget has read the inode.
LEMMA IgetReadStep ==
    ASSUME Inv, NEW p \in Proc, IgetRead(p), UNCHANGED <<system, search>>
    PROVE  StepOf(p)
  <1>0. Typed /\ PlaceOf(p)
    BY DEF Inv, Places
  <1>a. /\ pc[p] = "igetRead" /\ asleep[p] = 0 /\ pc' = [pc EXCEPT ![p] = "got"]
        /\ core' = [core EXCEPT ![cur[p]] = volume[number[cur[p]]]]
        /\ UNCHANGED <<number, flag, count, volume, spare, entry, dlock>>
        /\ UNCHANGED <<call, name, want, linked, after, cur, files, asleep>>
        /\ UNCHANGED <<ilock, seen>>
    BY DEF IgetRead, At, Goto, Set, search, fs, args
  <1>w. cur[p] \in Slot /\ number[cur[p]] \in Ino
        /\ core[cur[p]] \in [mode : BOOLEAN, nlink : Int]
        /\ volume[number[cur[p]]] \in [mode : BOOLEAN, nlink : Int]
    BY <1>a, WorksOnInode DEF Works, Refers
  <1>b. /\ pc' \in [Proc -> Place] /\ pc'[p] = "got"
        /\ \A q \in Proc \ {p} : pc'[q] = pc[q]
    BY <1>0, <1>a DEF Typed, TypeOK, Place
  <1>1. Harmless(p)
    BY <1>0, <1>a, <1>b, <1>w DEF Harmless, Typed, TypeOK
  <1>2. PlaceOf(p)'
    BY <1>0, <1>a, <1>b, <1>w DEF PlaceOf, Linking, Putting, Works, Refers
  <1>3. Refers(p) /\ Works(p) /\ Refers(p)' /\ Works(p)' /\ cur'[p] = cur[p]
    BY <1>a, <1>b DEF Works, Refers
  <1> QED  BY <1>1, <1>2, <1>3, <1>a, <1>b, GoesOn

\* iget could not read the inode.
LEMMA IgetReadFailsStep ==
    ASSUME Inv, NEW p \in Proc, IgetReadFails(p), UNCHANGED <<system, search>>
    PROVE  StepOf(p)
  <1>0. Typed /\ PlaceOf(p)
    BY DEF Inv, Places
  <1>a. /\ pc[p] = "igetRead" /\ asleep[p] = 0 /\ pc' = [pc EXCEPT ![p] = "iput"]
        /\ after' = [after EXCEPT ![p] = IF linked[p] # 0 THEN "linked" ELSE "return"]
        /\ UNCHANGED <<number, flag, count, core, volume, spare, entry, dlock>>
        /\ UNCHANGED <<call, name, want, linked, cur, files, asleep>>
        /\ UNCHANGED <<ilock, seen>>
    BY DEF IgetReadFails, At, Goto, Set, search, table, fs, Otherwise
  <1>b. /\ pc' \in [Proc -> Place] /\ pc'[p] = "iput"
        /\ \A q \in Proc \ {p} : pc'[q] = pc[q]
    BY <1>0, <1>a DEF Typed, TypeOK, Place
  <1>d. after'[p] = IF linked[p] # 0 THEN "linked" ELSE "return"
    BY <1>0, <1>a DEF Typed, TypeOK
  <1>1. Harmless(p)
    BY <1>0, <1>a, <1>b DEF Harmless, Typed, TypeOK
  <1>2. PlaceOf(p)'
    BY <1>0, <1>a, <1>b, <1>d DEF PlaceOf, Linking, Putting, Works, Refers
  <1>3. Refers(p) /\ Works(p) /\ Refers(p)' /\ Works(p)' /\ cur'[p] = cur[p]
    BY <1>a, <1>b DEF Works, Refers
  <1> QED  BY <1>1, <1>2, <1>3, <1>a, <1>b, GoesOn

\* itrunc has ended, and ifree is called.
LEMMA IputFreesStep ==
    ASSUME Inv, NEW p \in Proc, IputFrees(p), UNCHANGED <<system, search>>
    PROVE  StepOf(p)
  <1>0. Typed /\ PlaceOf(p)
    BY DEF Inv, Places
  <1>a. /\ pc[p] = "itrunc" /\ asleep[p] = 0 /\ pc' = [pc EXCEPT ![p] = "iupdat"]
        /\ core' = [core EXCEPT ![cur[p]] = [core[cur[p]] EXCEPT !.mode = FALSE]]
        /\ flag' = [flag EXCEPT ![cur[p]] = @ \cup {"ICHG"}]
        /\ spare' = spare \/ spare' = Append(spare, number[cur[p]])
        /\ UNCHANGED <<number, count, volume, entry, dlock>>
        /\ UNCHANGED <<call, name, want, linked, after, cur, files, asleep>>
        /\ UNCHANGED <<ilock, seen>>
    BY DEF IputFrees, At, Goto, Set, search, args, Add, Ifree
  <1>w. cur[p] \in Slot /\ number[cur[p]] \in Ino
        /\ core[cur[p]] \in [mode : BOOLEAN, nlink : Int]
        /\ volume[number[cur[p]]] \in [mode : BOOLEAN, nlink : Int]
    BY <1>a, WorksOnInode DEF Works, Refers
  <1>b. /\ pc' \in [Proc -> Place] /\ pc'[p] = "iupdat"
        /\ \A q \in Proc \ {p} : pc'[q] = pc[q]
    BY <1>0, <1>a DEF Typed, TypeOK, Place
  <1>f. /\ flag' \in [Slot -> SUBSET {"ILOCK", "IWANT", "ICHG"}]
        /\ \A s \in Slot : /\ "ILOCK" \in flag'[s] <=> "ILOCK" \in flag[s]
                           /\ "IWANT" \in flag'[s] <=> "IWANT" \in flag[s]
    BY <1>0, <1>a, <1>w, FlagsKept
  <1>d. core' \in [Slot -> [mode : BOOLEAN, nlink : Int]]
    <2>1. [core[cur[p]] EXCEPT !.mode = FALSE] \in [mode : BOOLEAN, nlink : Int]
      BY <1>w
    <2> QED  BY <2>1, <1>0, <1>a DEF Typed, TypeOK
  <1>e. spare' \in Seq(Ino)
    <2>1. spare \in Seq(Ino) /\ number[cur[p]] \in Ino
      BY <1>0, <1>w DEF Typed, TypeOK
    <2>2. spare' = spare \/ spare' = Append(spare, number[cur[p]])
      BY <1>a
    <2> QED  BY <2>1, <2>2
  <1>1. Harmless(p)
    BY <1>0, <1>a, <1>b, <1>d, <1>e, <1>f DEF Harmless, Typed, TypeOK
  <1>2. PlaceOf(p)'
    BY <1>0, <1>a, <1>b, <1>w DEF PlaceOf, Linking, Putting, Works, Refers
  <1>3. Refers(p) /\ Works(p) /\ Refers(p)' /\ Works(p)' /\ cur'[p] = cur[p]
    BY <1>a, <1>b DEF Works, Refers
  <1> QED  BY <1>1, <1>2, <1>3, <1>a, <1>b, GoesOn

\* "Inode was allocated after all."
LEMMA GotTakenStep ==
    ASSUME Inv, NEW p \in Proc, GotTaken(p), UNCHANGED <<system, search>>
    PROVE  StepOf(p)
  <1>0. Typed /\ PlaceOf(p)
    BY DEF Inv, Places
  <1>a. /\ pc[p] = "got" /\ asleep[p] = 0 /\ pc' = [pc EXCEPT ![p] = "iput"]
        /\ after' = [after EXCEPT ![p] = "ialloc"]
        /\ call[p] # "link"
        /\ UNCHANGED <<number, flag, count, core, volume, spare, entry, dlock>>
        /\ UNCHANGED <<call, name, want, linked, cur, files, asleep>>
        /\ UNCHANGED <<ilock, seen>>
    BY DEF GotTaken, At, Goto, Set, search, table, fs, Allocating
  <1>b. /\ pc' \in [Proc -> Place] /\ pc'[p] = "iput"
        /\ \A q \in Proc \ {p} : pc'[q] = pc[q]
    BY <1>0, <1>a DEF Typed, TypeOK, Place
  <1>d. after'[p] = "ialloc"
    BY <1>0, <1>a DEF Typed, TypeOK
  <1>1. Harmless(p)
    BY <1>0, <1>a, <1>b DEF Harmless, Typed, TypeOK
  <1>2. PlaceOf(p)'
    BY <1>0, <1>a, <1>b, <1>d DEF PlaceOf, Linking, Putting, Works, Refers
  <1>3. Refers(p) /\ Works(p) /\ Refers(p)' /\ Works(p)' /\ cur'[p] = cur[p]
    BY <1>a, <1>b DEF Works, Refers
  <1> QED  BY <1>1, <1>2, <1>3, <1>a, <1>b, GoesOn

\* maknode.
LEMMA GotNewStep ==
    ASSUME Inv, NEW p \in Proc, GotNew(p), UNCHANGED <<system, search>>
    PROVE  StepOf(p)
  <1>0. Typed /\ PlaceOf(p)
    BY DEF Inv, Places
  <1>a. /\ pc[p] = "got" /\ asleep[p] = 0 /\ pc' = [pc EXCEPT ![p] = "wdir"] /\ call[p] = "creat"
        /\ core' = [core EXCEPT ![cur[p]] = [mode |-> TRUE, nlink |-> 1]]
        /\ flag' = [flag EXCEPT ![cur[p]] = @ \cup {"ICHG"}]
        /\ UNCHANGED <<number, count, volume, spare, entry, dlock>>
        /\ UNCHANGED <<call, name, want, linked, after, cur, files, asleep>>
        /\ UNCHANGED <<ilock, seen>>
    BY DEF GotNew, At, Goto, Set, search, fs, args, Add
  <1>w. cur[p] \in Slot /\ number[cur[p]] \in Ino
        /\ core[cur[p]] \in [mode : BOOLEAN, nlink : Int]
        /\ volume[number[cur[p]]] \in [mode : BOOLEAN, nlink : Int]
    BY <1>a, WorksOnInode DEF Works, Refers
  <1>b. /\ pc' \in [Proc -> Place] /\ pc'[p] = "wdir"
        /\ \A q \in Proc \ {p} : pc'[q] = pc[q]
    BY <1>0, <1>a DEF Typed, TypeOK, Place
  <1>1. Harmless(p)
    BY <1>0, <1>a, <1>b, <1>w DEF Harmless, Typed, TypeOK
  <1>2. PlaceOf(p)'
    BY <1>0, <1>a, <1>b, <1>w DEF PlaceOf, Linking, Putting, Works, Refers
  <1>3. Refers(p) /\ Works(p) /\ Refers(p)' /\ Works(p)' /\ cur'[p] = cur[p]
    BY <1>a, <1>b DEF Works, Refers
  <1> QED  BY <1>1, <1>2, <1>3, <1>a, <1>b, GoesOn

\* The call has no further use for the inode.
LEMMA GotPutStep ==
    ASSUME Inv, NEW p \in Proc, GotPut(p), UNCHANGED <<system, search>>
    PROVE  StepOf(p)
  <1>0. Typed /\ PlaceOf(p)
    BY DEF Inv, Places
  <1>a. /\ pc[p] = "got" /\ asleep[p] = 0 /\ pc' = [pc EXCEPT ![p] = "iput"]
        /\ after' = [after EXCEPT ![p] = IF linked[p] # 0 THEN "linked" ELSE "return"]
        /\ UNCHANGED <<number, flag, count, core, volume, spare, entry, dlock>>
        /\ UNCHANGED <<call, name, want, linked, cur, files, asleep>>
        /\ UNCHANGED <<ilock, seen>>
    BY DEF GotPut, At, Goto, Set, search, table, fs, Otherwise
  <1>b. /\ pc' \in [Proc -> Place] /\ pc'[p] = "iput"
        /\ \A q \in Proc \ {p} : pc'[q] = pc[q]
    BY <1>0, <1>a DEF Typed, TypeOK, Place
  <1>d. after'[p] = IF linked[p] # 0 THEN "linked" ELSE "return"
    BY <1>0, <1>a DEF Typed, TypeOK
  <1>1. Harmless(p)
    BY <1>0, <1>a, <1>b DEF Harmless, Typed, TypeOK
  <1>2. PlaceOf(p)'
    BY <1>0, <1>a, <1>b, <1>d DEF PlaceOf, Linking, Putting, Works, Refers
  <1>3. Refers(p) /\ Works(p) /\ Refers(p)' /\ Works(p)' /\ cur'[p] = cur[p]
    BY <1>a, <1>b DEF Works, Refers
  <1> QED  BY <1>1, <1>2, <1>3, <1>a, <1>b, GoesOn

\* unlink has the file.
LEMMA GotUnlinkStep ==
    ASSUME Inv, NEW p \in Proc, GotUnlink(p), UNCHANGED <<system, search>>
    PROVE  StepOf(p)
  <1>0. Typed /\ PlaceOf(p)
    BY DEF Inv, Places
  <1>a. /\ pc[p] = "got" /\ asleep[p] = 0 /\ pc' = [pc EXCEPT ![p] = "wdir"] /\ call[p] = "unlink"
        /\ UNCHANGED <<number, flag, count, core, volume, spare, entry, dlock>>
        /\ UNCHANGED <<call, name, want, linked, after, cur, files, asleep>>
        /\ UNCHANGED <<ilock, seen>>
    BY DEF GotUnlink, At, Goto, Set, search, table, fs, args
  <1>b. /\ pc' \in [Proc -> Place] /\ pc'[p] = "wdir"
        /\ \A q \in Proc \ {p} : pc'[q] = pc[q]
    BY <1>0, <1>a DEF Typed, TypeOK, Place
  <1>1. Harmless(p)
    BY <1>0, <1>a, <1>b DEF Harmless, Typed, TypeOK
  <1>2. PlaceOf(p)'
    BY <1>0, <1>a, <1>b DEF PlaceOf, Linking, Putting, Works, Refers
  <1>3. Refers(p) /\ Works(p) /\ Refers(p)' /\ Works(p)' /\ cur'[p] = cur[p]
    BY <1>a, <1>b DEF Works, Refers
  <1> QED  BY <1>1, <1>2, <1>3, <1>a, <1>b, GoesOn

\* creat of a new file locks the directory.
LEMMA CreatStep ==
    ASSUME Inv, NEW p \in Proc, Creat(p), UNCHANGED <<system, search>>
    PROVE  StepOf(p)
  <1>0. Typed /\ PlaceOf(p)
    BY DEF Inv, Places
  <1>a. PICK n \in Name :
        /\ pc[p] = "user" /\ asleep[p] = 0 /\ pc' = [pc EXCEPT ![p] = "ialloc"]
        /\ "creat" \in Calls /\ call' = [call EXCEPT ![p] = "creat"]
        /\ dlock' = p /\ name' = [name EXCEPT ![p] = n]
        /\ UNCHANGED <<number, flag, count, core, volume, spare, entry>>
        /\ UNCHANGED <<want, linked, after, cur, files, asleep>>
        /\ UNCHANGED <<ilock, seen>>
    BY DEF Creat, At, Goto, Set, search, table, Begins
  <1>b. /\ pc' \in [Proc -> Place] /\ pc'[p] = "ialloc"
        /\ \A q \in Proc \ {p} : pc'[q] = pc[q]
    BY <1>0, <1>a DEF Typed, TypeOK, Place
  <1>d. call'[p] = "creat"
    BY <1>0, <1>a DEF Typed, TypeOK
  <1>1. Harmless(p)
    BY <1>0, <1>a, <1>b DEF Harmless, Typed, TypeOK
  <1>2. PlaceOf(p)'
    BY <1>0, <1>a, <1>b, <1>d DEF PlaceOf, Linking, Putting, Works, Refers
  <1>3. ~ Refers(p) /\ ~ Works(p) /\ ~ Refers(p)' /\ ~ Works(p)'
    BY <1>a, <1>b DEF Works, Refers
  <1> QED  BY <1>1, <1>2, <1>3, <1>a, <1>b, GoesOn

\* update begins.
LEMMA UpdateStep ==
    ASSUME Inv, NEW p \in Proc, Update(p), UNCHANGED <<system, search>>
    PROVE  StepOf(p)
  <1>0. Typed /\ PlaceOf(p)
    BY DEF Inv, Places
  <1>a. /\ pc[p] = "user" /\ asleep[p] = 0 /\ pc' = [pc EXCEPT ![p] = "update"]
        /\ "update" \in Calls /\ call' = [call EXCEPT ![p] = "update"]
        /\ after' = [after EXCEPT ![p] = "update"]
        /\ UNCHANGED <<number, flag, count, core, volume, spare, entry, dlock>>
        /\ UNCHANGED <<name, want, linked, cur, files, asleep>>
        /\ UNCHANGED <<ilock, seen>>
    BY DEF Update, At, Goto, Set, search, table, fs, Begins
  <1>b. /\ pc' \in [Proc -> Place] /\ pc'[p] = "update"
        /\ \A q \in Proc \ {p} : pc'[q] = pc[q]
    BY <1>0, <1>a DEF Typed, TypeOK, Place
  <1>d. call'[p] = "update" /\ after'[p] = "update"
    BY <1>0, <1>a DEF Typed, TypeOK
  <1>1. Harmless(p)
    BY <1>0, <1>a, <1>b DEF Harmless, Typed, TypeOK
  <1>2. PlaceOf(p)'
    BY <1>0, <1>a, <1>b, <1>d DEF PlaceOf, Linking, Putting, Works, Refers
  <1>3. ~ Refers(p) /\ ~ Works(p) /\ ~ Refers(p)' /\ ~ Works(p)'
    BY <1>a, <1>b DEF Works, Refers
  <1> QED  BY <1>1, <1>2, <1>3, <1>a, <1>b, GoesOn

\* creat has written the directory.
LEMMA WdirCreatStep ==
    ASSUME Inv, NEW p \in Proc, WdirCreat(p), UNCHANGED <<system, search>>
    PROVE  StepOf(p)
  <1>0. Typed /\ PlaceOf(p)
    BY DEF Inv, Places
  <1>a. /\ pc[p] = "wdir" /\ asleep[p] = 0 /\ call[p] = "creat"
        /\ \E place \in {"got", "iput"} : pc' = [pc EXCEPT ![p] = place]
        /\ entry' = entry \/ entry' = [entry EXCEPT ![name[p]] = number[cur[p]]]
        /\ dlock' = IF dlock = p THEN NoProc ELSE dlock
        /\ UNCHANGED <<number, flag, count, core, volume, spare>>
        /\ UNCHANGED <<call, name, want, linked, after, cur, files, asleep>>
        /\ UNCHANGED <<ilock, seen>>
    BY DEF WdirCreat, At, Goto, Set, search, table, args, LeaveDir, Writes
  <1>w. cur[p] \in Slot /\ number[cur[p]] \in Ino
        /\ core[cur[p]] \in [mode : BOOLEAN, nlink : Int]
        /\ volume[number[cur[p]]] \in [mode : BOOLEAN, nlink : Int]
    BY <1>a, WorksOnInode DEF Works, Refers
  <1>b. /\ pc' \in [Proc -> Place] /\ pc'[p] \in {"got", "iput"}
        /\ \A q \in Proc \ {p} : pc'[q] = pc[q]
    BY <1>0, <1>a DEF Typed, TypeOK, Place
  <1>u. dlock' \in Proc \cup {NoProc} /\ \A q \in Proc : dlock' = q => dlock = q
    BY <1>0, <1>a, InodeAssumption DEF Typed, TypeOK
  <1>e. entry' \in [Name -> Ino \cup {NoIno}]
    BY <1>0, <1>a, <1>w DEF Typed, TypeOK
  <1>n. dlock' # p
    BY <1>a, InodeAssumption
  <1>1. Harmless(p)
    BY <1>0, <1>a, <1>b, <1>e, <1>u DEF Harmless, Typed, TypeOK
  <1>2. PlaceOf(p)'
    BY <1>0, <1>a, <1>b, <1>w, <1>n DEF PlaceOf, Linking, Putting, Works, Refers
  <1>3. Refers(p) /\ Works(p) /\ Refers(p)' /\ Works(p)' /\ cur'[p] = cur[p]
    BY <1>a, <1>b DEF Works, Refers
  <1> QED  BY <1>1, <1>2, <1>3, <1>a, <1>b, GoesOn

\* unlink has written the directory.
LEMMA WdirUnlinkStep ==
    ASSUME Inv, NEW p \in Proc, WdirUnlink(p), UNCHANGED <<system, search>>
    PROVE  StepOf(p)
  <1>0. Typed /\ PlaceOf(p)
    BY DEF Inv, Places
  <1>a. /\ pc[p] = "wdir" /\ asleep[p] = 0 /\ call[p] = "unlink" /\ pc' = [pc EXCEPT ![p] = "iput"]
        /\ entry' = entry \/ entry' = [entry EXCEPT ![name[p]] = NoIno]
        /\ core' = [core EXCEPT ![cur[p]] = [core[cur[p]] EXCEPT !.nlink = @ - 1]]
        /\ flag' = [flag EXCEPT ![cur[p]] = @ \cup {"ICHG"}]
        /\ UNCHANGED <<number, count, volume, spare, dlock>>
        /\ UNCHANGED <<call, name, want, linked, after, cur, files, asleep>>
        /\ UNCHANGED <<ilock, seen>>
    BY DEF WdirUnlink, At, Goto, Set, search, args, Add, Writes
  <1>w. cur[p] \in Slot /\ number[cur[p]] \in Ino
        /\ core[cur[p]] \in [mode : BOOLEAN, nlink : Int]
        /\ volume[number[cur[p]]] \in [mode : BOOLEAN, nlink : Int]
    BY <1>a, WorksOnInode DEF Works, Refers
  <1>b. /\ pc' \in [Proc -> Place] /\ pc'[p] = "iput"
        /\ \A q \in Proc \ {p} : pc'[q] = pc[q]
    BY <1>0, <1>a DEF Typed, TypeOK, Place
  <1>e. entry' \in [Name -> Ino \cup {NoIno}]
    BY <1>0, <1>a DEF Typed, TypeOK
  <1>d. core' \in [Slot -> [mode : BOOLEAN, nlink : Int]]
    <2>1. [core[cur[p]] EXCEPT !.nlink = @ - 1] \in [mode : BOOLEAN, nlink : Int]
      BY <1>w
    <2> QED  BY <2>1, <1>0, <1>a DEF Typed, TypeOK
  <1>f. /\ flag' \in [Slot -> SUBSET {"ILOCK", "IWANT", "ICHG"}]
        /\ \A s \in Slot : /\ "ILOCK" \in flag'[s] <=> "ILOCK" \in flag[s]
                           /\ "IWANT" \in flag'[s] <=> "IWANT" \in flag[s]
    BY <1>0, <1>a, <1>w, FlagsKept
  <1>1. Harmless(p)
    BY <1>0, <1>a, <1>b, <1>d, <1>e, <1>f DEF Harmless, Typed, TypeOK
  <1>2. PlaceOf(p)'
    BY <1>0, <1>a, <1>b, <1>w DEF PlaceOf, Linking, Putting, Works, Refers
  <1>3. Refers(p) /\ Works(p) /\ Refers(p)' /\ Works(p)' /\ cur'[p] = cur[p]
    BY <1>a, <1>b DEF Works, Refers
  <1> QED  BY <1>1, <1>2, <1>3, <1>a, <1>b, GoesOn

\* link has written the directory.
LEMMA WdirLinkStep ==
    ASSUME Inv, NEW p \in Proc, WdirLink(p), UNCHANGED <<system, search>>
    PROVE  StepOf(p)
  <1>0. Typed /\ PlaceOf(p)
    BY DEF Inv, Places
  <1>a. /\ pc[p] = "wdir" /\ asleep[p] = 0 /\ call[p] = "link" /\ pc' = [pc EXCEPT ![p] = "iput"]
        /\ entry' = entry \/ entry' = [entry EXCEPT ![name[p]] = number[cur[p]]]
        /\ dlock' = IF dlock = p THEN NoProc ELSE dlock
        /\ \/ core' = core /\ flag' = flag
           \/ /\ core' = [core EXCEPT ![cur[p]] = [core[cur[p]] EXCEPT !.nlink = @ + 1]]
              /\ flag' = [flag EXCEPT ![cur[p]] = @ \cup {"ICHG"}]
        /\ UNCHANGED <<number, count, volume, spare>>
        /\ UNCHANGED <<call, name, want, linked, after, cur, files, asleep>>
        /\ UNCHANGED <<ilock, seen>>
    BY DEF WdirLink, At, Goto, Set, search, args, Add, LeaveDir, Writes
  <1>w. cur[p] \in Slot /\ number[cur[p]] \in Ino
        /\ core[cur[p]] \in [mode : BOOLEAN, nlink : Int]
        /\ volume[number[cur[p]]] \in [mode : BOOLEAN, nlink : Int]
    BY <1>a, WorksOnInode DEF Works, Refers
  <1>b. /\ pc' \in [Proc -> Place] /\ pc'[p] = "iput"
        /\ \A q \in Proc \ {p} : pc'[q] = pc[q]
    BY <1>0, <1>a DEF Typed, TypeOK, Place
  <1>u. dlock' \in Proc \cup {NoProc} /\ \A q \in Proc : dlock' = q => dlock = q
    BY <1>0, <1>a, InodeAssumption DEF Typed, TypeOK
  <1>e. entry' \in [Name -> Ino \cup {NoIno}]
    BY <1>0, <1>a, <1>w DEF Typed, TypeOK
  <1>n. dlock' # p
    BY <1>a, InodeAssumption
  <1>d. core' \in [Slot -> [mode : BOOLEAN, nlink : Int]]
    <2>1. [core[cur[p]] EXCEPT !.nlink = @ + 1] \in [mode : BOOLEAN, nlink : Int]
      BY <1>w
    <2> QED  BY <2>1, <1>0, <1>a DEF Typed, TypeOK
  <1>f. /\ flag' \in [Slot -> SUBSET {"ILOCK", "IWANT", "ICHG"}]
        /\ \A s \in Slot : /\ "ILOCK" \in flag'[s] <=> "ILOCK" \in flag[s]
                           /\ "IWANT" \in flag'[s] <=> "IWANT" \in flag[s]
    BY <1>0, <1>a, <1>w, FlagsKept
  <1>1. Harmless(p)
    BY <1>0, <1>a, <1>b, <1>d, <1>e, <1>f, <1>u DEF Harmless, Typed, TypeOK
  <1>2. PlaceOf(p)'
    BY <1>0, <1>a, <1>b, <1>w, <1>n DEF PlaceOf, Linking, Putting, Works, Refers
  <1>3. Refers(p) /\ Works(p) /\ Refers(p)' /\ Works(p)' /\ cur'[p] = cur[p]
    BY <1>a, <1>b DEF Works, Refers
  <1> QED  BY <1>1, <1>2, <1>3, <1>a, <1>b, GoesOn

\* update has written an inode.
LEMMA UpdateWritesStep ==
    ASSUME Inv, NEW p \in Proc, UpdateWrites(p), UNCHANGED <<system, search>>
    PROVE  StepOf(p)
  <1>0. Typed /\ PlaceOf(p)
    BY DEF Inv, Places
  <1>a. /\ pc[p] = "updateWrite" /\ asleep[p] = 0 /\ pc' = [pc EXCEPT ![p] = "iput"]
        /\ \/ volume' = volume /\ flag' = flag
           \/ /\ volume' = [volume EXCEPT ![number[cur[p]]] = core[cur[p]]]
              /\ flag' = [flag EXCEPT ![cur[p]] = flag[cur[p]] \ {"ICHG"}]
        /\ UNCHANGED <<number, count, core, spare, entry, dlock>>
        /\ UNCHANGED <<call, name, want, linked, after, cur, files, asleep>>
        /\ UNCHANGED <<ilock, seen>>
    BY DEF UpdateWrites, At, Goto, Set, search, args, Copies
  <1>w. cur[p] \in Slot /\ number[cur[p]] \in Ino
        /\ core[cur[p]] \in [mode : BOOLEAN, nlink : Int]
        /\ volume[number[cur[p]]] \in [mode : BOOLEAN, nlink : Int]
    BY <1>a, WorksOnInode DEF Works, Refers
  <1>b. /\ pc' \in [Proc -> Place] /\ pc'[p] = "iput"
        /\ \A q \in Proc \ {p} : pc'[q] = pc[q]
    BY <1>0, <1>a DEF Typed, TypeOK, Place
  <1>d. volume' \in [Ino -> [mode : BOOLEAN, nlink : Int]]
    BY <1>0, <1>a, <1>w DEF Typed, TypeOK
  <1>f. /\ flag' \in [Slot -> SUBSET {"ILOCK", "IWANT", "ICHG"}]
        /\ \A s \in Slot : /\ "ILOCK" \in flag'[s] <=> "ILOCK" \in flag[s]
                           /\ "IWANT" \in flag'[s] <=> "IWANT" \in flag[s]
    BY <1>0, <1>a, <1>w, FlagsKept
  <1>1. Harmless(p)
    BY <1>0, <1>a, <1>b, <1>d, <1>f DEF Harmless, Typed, TypeOK
  <1>2. PlaceOf(p)'
    BY <1>0, <1>a, <1>b, <1>w DEF PlaceOf, Linking, Putting, Works, Refers
  <1>3. Refers(p) /\ Works(p) /\ Refers(p)' /\ Works(p)' /\ cur'[p] = cur[p]
    BY <1>a, <1>b DEF Works, Refers
  <1> QED  BY <1>1, <1>2, <1>3, <1>a, <1>b, GoesOn

\* rdwr and closef call plock.
LEMMA UseFileStep ==
    ASSUME Inv, NEW p \in Proc, UseFile(p), UNCHANGED <<system, search>>
    PROVE  StepOf(p)
  <1>0. Typed /\ PlaceOf(p)
    BY DEF Inv, Places
  <1>a. PICK c \in {"rdwr", "close"} :
        /\ pc[p] = "user" /\ asleep[p] = 0 /\ pc' = [pc EXCEPT ![p] = "plock"]
        /\ c \in Calls /\ call' = [call EXCEPT ![p] = c] /\ files[p] # <<>>
        /\ cur' = [cur EXCEPT ![p] = Head(files[p])]
        /\ UNCHANGED <<number, flag, count, core, volume, spare, entry, dlock>>
        /\ UNCHANGED <<name, want, linked, after, files, asleep>>
        /\ UNCHANGED <<ilock, seen>>
    BY DEF UseFile, At, Goto, Set, search, table, fs, Begins
  <1>b. /\ pc' \in [Proc -> Place] /\ pc'[p] = "plock"
        /\ \A q \in Proc \ {p} : pc'[q] = pc[q]
    BY <1>0, <1>a DEF Typed, TypeOK, Place
  <1>d. Head(files[p]) \in Slot /\ Head(files[p]) # 0
    BY <1>a, WorkIsCounted DEF Slot
  <1>e. cur'[p] = Head(files[p]) /\ call'[p] = c
    BY <1>0, <1>a DEF Typed, TypeOK
  <1>1. Harmless(p)
    BY <1>0, <1>a, <1>b, <1>d DEF Harmless, Typed, TypeOK
  <1>2. PlaceOf(p)'
    BY <1>0, <1>a, <1>b, <1>d, <1>e DEF PlaceOf, Linking, Putting, Works, Refers
  <1>3. ~ Refers(p) /\ ~ Works(p) /\ ~ Refers(p)' /\ ~ Works(p)'
    BY <1>a, <1>b DEF Works, Refers
  <1> QED  BY <1>1, <1>2, <1>3, <1>a, <1>b, GoesOn
-----------------------------------------------------------------------------
(* The search for a spare inode.                                           *)

\* The I list has every inode once, and there is one.
LEMMA IlistIs ==
    Ilist \in Seq(Ino) /\ Len(Ilist) \in Nat \ {0}
  <1>1. Cardinality(Ino) \in Nat /\ ExistsBijection(1 .. Cardinality(Ino), Ino)
    BY InodeAssumption, FS_CardinalityType
  <1>2. Cardinality(Ino) # 0
    BY InodeAssumption, FS_EmptySet
  <1>3. \E f \in [1 .. Cardinality(Ino) -> Ino] : IsInjective(f)
    BY <1>1 DEF ExistsBijection, Bijection, Injection
  <1>4. Ilist \in [1 .. Cardinality(Ino) -> Ino]
    BY <1>3 DEF Ilist, SetToSeq
  <1> QED  BY <1>1, <1>2, <1>4

\* The list that the superblock has at first.
LEMMA SparesAre ==
    ASSUME NEW S, S \subseteq Ino
    PROVE  Spares(S) \in Seq(Ino)
  <1> DEFINE n == Cardinality(S)
             all == SetToSeq(S)
  <1>0. IsFiniteSet(S)
    BY InodeAssumption, FS_Subset
  <1>1. n \in Nat /\ ExistsBijection(1 .. n, S)
    BY <1>0, FS_CardinalityType
  <1>2. \E f \in [1 .. n -> S] : IsInjective(f)
    BY <1>1 DEF ExistsBijection, Bijection, Injection
  <1>3. all \in [1 .. n -> S]
    BY <1>2 DEF SetToSeq
  <1>4. all \in Seq(Ino)
    BY <1>1, <1>3
  <1>5. Spares(S) = SubSeq(all, 1, IF Len(all) > NICINOD THEN NICINOD ELSE Len(all))
    BY DEF Spares
  <1> HIDE DEF all
  <1>6. NICINOD \in Nat
    BY InodeAssumption
  <1> QED  BY <1>4, <1>5, <1>6

\* A search goes on.
LEMMA IallocWaitsStep ==
    ASSUME Inv, NEW p \in Proc, IallocWaits(p), system' = system
    PROVE  StepOf(p)
  <1>0. /\ Typed /\ PlaceOf(p) /\ SearchOn
    BY DEF Inv, Places
  <1>c. Slot' = Slot /\ NOFILE' = NOFILE /\ Calls' = Calls
    BY SameSizes
  <1>a. /\ pc[p] = "ialloc" /\ ilock /\ pc' = [pc EXCEPT ![p] = "iwait"] /\ asleep[p] = 0
        /\ UNCHANGED <<table, fs, search, args, cur, files, asleep>>
    BY DEF IallocWaits, At, Goto
  <1>1. Others(p)
    BY <1>0, <1>a DEF Others, Keeps, Typed, TypeOK, table, fs, search, args
  <1>2. Typed'
    BY <1>0, <1>c, <1>a DEF Typed, TypeOK, table, fs, search, args
  <1>3. PlaceOf(p)'
    BY <1>0, <1>c, <1>a DEF PlaceOf, Typed, TypeOK, Linking, Putting, Works, Refers, fs,
       search, args
  <1>4. SearchOn'
    <2>1. ilock' = ilock
      BY <1>a DEF search
    <2>2. \A q \in Proc \ {p} : pc'[q] = pc[q]
      BY <1>0, <1>a DEF Typed, TypeOK
    <2>3. \E q \in Proc \ {p} : pc[q] \in {"ilist", "iend"}
      BY <1>0, <1>a DEF SearchOn
    <2> QED  BY <1>a, <2>1, <2>2, <2>3 DEF SearchOn
  <1>5. /\ number' = number /\ count' = count /\ files' = files /\ asleep' = asleep
        /\ linked'[p] = linked[p] /\ flag' = flag
        /\ ~ Refers(p) /\ ~ Works(p) /\ ~ Refers(p)' /\ ~ Works(p)'
        /\ pc'[p] \notin {"itrunc", "iupdat"}
    BY <1>0, <1>a DEF Typed, TypeOK, Works, Refers, table, args
  <1> QED  BY <1>1, <1>2, <1>3, <1>4, <1>5, Quiet

\* A search begins.
LEMMA IallocLocksStep ==
    ASSUME Inv, NEW p \in Proc, IallocLocks(p), system' = system
    PROVE  StepOf(p)
  <1>0. /\ Typed /\ PlaceOf(p) /\ SearchOn
    BY DEF Inv, Places
  <1>c. Slot' = Slot /\ NOFILE' = NOFILE /\ Calls' = Calls
    BY SameSizes
  <1>a. /\ pc[p] \in {"ialloc", "loop"} /\ pc' = [pc EXCEPT ![p] = "ilist"] /\ ilock' = TRUE
        /\ UNCHANGED <<table, fs, seen, args, cur, files, asleep>> /\ asleep[p] = 0
    BY DEF IallocLocks, InLoop, At, Goto
  <1>1. Others(p)
    BY <1>0, <1>a DEF Others, Keeps, Typed, TypeOK, table, fs, args
  <1>2. Typed'
    BY <1>0, <1>c, <1>a DEF Typed, TypeOK, table, fs, args
  <1>3. PlaceOf(p)'
    BY <1>0, <1>c, <1>a, IlistIs, SMTT(30)
    DEF PlaceOf, Typed, TypeOK, Linking, Putting, Works, Refers, fs, args
  <1>4. SearchOn'
    BY <1>0, <1>a DEF Typed, TypeOK, SearchOn
  <1>5. /\ number' = number /\ count' = count /\ files' = files /\ asleep' = asleep
        /\ linked'[p] = linked[p] /\ flag' = flag
        /\ ~ Refers(p) /\ ~ Works(p) /\ ~ Refers(p)' /\ ~ Works(p)'
        /\ pc'[p] \notin {"itrunc", "iupdat"}
    BY <1>0, <1>a DEF Typed, TypeOK, Works, Refers, table, args
  <1> QED  BY <1>1, <1>2, <1>3, <1>4, <1>5, Quiet

\* A block of the I list has been read, or could not be.
LEMMA IallocReadsStep ==
    ASSUME Inv, NEW p \in Proc, IallocReads(p), system' = system
    PROVE  StepOf(p)
  <1>0. /\ Typed /\ PlaceOf(p) /\ SearchOn
    BY DEF Inv, Places
  <1>c. Slot' = Slot /\ NOFILE' = NOFILE /\ Calls' = Calls
    BY SameSizes
  <1>a. /\ pc[p] = "ilist" /\ asleep[p] = 0 /\ seen' = [seen EXCEPT ![p] = seen[p] + 1]
        /\ pc' = [pc EXCEPT ![p] = IF SpareIsFull' \/ seen'[p] = Len(Ilist) THEN "iend"
                                   ELSE "ilist"]
        /\ spare' = spare \/ spare' = Append(spare, Ilist[seen[p] + 1])
        /\ UNCHANGED <<table, volume, entry, dlock, ilock, args, cur, files, asleep>>
    BY DEF IallocReads, At, Goto, Set
  <1>b. /\ seen[p] \in 0 .. Len(Ilist) /\ seen[p] < Len(Ilist) /\ seen'[p] = seen[p] + 1
        /\ seen' \in [Proc -> 0 .. Len(Ilist)] /\ \A q \in Proc \ {p} : seen'[q] = seen[q]
    <2>1. seen \in [Proc -> 0 .. Len(Ilist)] /\ seen[p] < Len(Ilist)
      BY <1>0, <1>a DEF Typed, TypeOK, PlaceOf
    <2> QED  BY <2>1, <1>a, IlistIs
  <1>d. spare' \in Seq(Ino)
    <2>1. Ilist[seen[p] + 1] \in Ino /\ spare \in Seq(Ino)
      BY <1>0, <1>b, IlistIs DEF Typed, TypeOK
    <2> QED  BY <2>1, <1>a
  <1>e. /\ pc'[p] = (IF SpareIsFull' \/ seen'[p] = Len(Ilist) THEN "iend" ELSE "ilist")
        /\ \A q \in Proc \ {p} : pc'[q] = pc[q]
        /\ pc' \in [Proc -> Place]
    <2> HIDE DEF SpareIsFull
    <2> QED  BY <1>0, <1>a DEF Typed, TypeOK, Place
  <1>f. /\ UNCHANGED <<number, flag, count, core, volume, entry, dlock, ilock>>
        /\ UNCHANGED <<call, name, want, linked, after, cur, files, asleep>>
    BY <1>a DEF table, args
  <1>1. Others(p)
    BY <1>b, <1>e, <1>f DEF Others, Keeps
  <1>2. Typed'
    BY <1>0, <1>c, <1>b, <1>d, <1>e, <1>f DEF Typed, TypeOK, Place
  <1>g. pc'[p] \in {"iend", "ilist"} /\ (pc'[p] = "ilist" => seen'[p] # Len(Ilist))
    BY <1>e
  <1>3. PlaceOf(p)'
    <2>1. pc'[p] = "ilist" => seen'[p] < Len(Ilist)
      BY <1>b, <1>g, IlistIs
    <2> QED  BY <1>0, <1>a, <1>f, <1>g, <2>1 DEF PlaceOf, Linking, Putting, Works, Refers
  <1>4. SearchOn'
    BY <1>0, <1>a, <1>e, <1>f, <1>g DEF SearchOn
  <1>5. /\ linked'[p] = linked[p] /\ flag' = flag
        /\ ~ Refers(p) /\ ~ Works(p) /\ ~ Refers(p)' /\ ~ Works(p)'
        /\ pc'[p] \notin {"itrunc", "iupdat"}
    BY <1>a, <1>f, <1>g DEF Works, Refers
  <1> QED  BY <1>1, <1>2, <1>3, <1>4, <1>5, <1>f, Quiet

\* The search is over.
LEMMA IallocEndsStep ==
    ASSUME Inv, NEW p \in Proc, IallocEnds(p), system' = system
    PROVE  StepOf(p)
  <1>0. /\ Typed /\ PlaceOf(p) /\ SearchOn
    BY DEF Inv, Places
  <1>c. Slot' = Slot /\ NOFILE' = NOFILE /\ Calls' = Calls
    BY SameSizes
  <1>a. /\ pc[p] = "iend" /\ asleep[p] = 0 /\ ilock' = FALSE
        /\ seen' = [seen EXCEPT ![p] = 0]
        /\ pc' = [q \in Proc |-> IF q = p THEN IF spare = <<>> THEN "iout" ELSE "loop"
                                 ELSE IF pc[q] = "iwait" THEN "ialloc" ELSE pc[q]]
        /\ UNCHANGED <<table, fs, args, cur, files, asleep>>
    BY DEF IallocEnds, At, Set
  <1>b. /\ seen'[p] = 0 /\ seen' \in [Proc -> 0 .. Len(Ilist)]
        /\ \A q \in Proc \ {p} : seen'[q] = seen[q]
    BY <1>0, <1>a, IlistIs DEF Typed, TypeOK
  <1>e. /\ pc'[p] \in {"iout", "loop"}
        /\ \A q \in Proc \ {p} : pc'[q] = IF pc[q] = "iwait" THEN "ialloc" ELSE pc[q]
        /\ pc' \in [Proc -> Place]
    BY <1>0, <1>a DEF Typed, TypeOK, Place
  <1>f. /\ UNCHANGED <<number, flag, count, core, volume, spare, entry, dlock>>
        /\ UNCHANGED <<call, name, want, linked, after, cur, files, asleep>>
    BY <1>a DEF table, fs, args
  <1>1. Others(p)
    BY <1>b, <1>e, <1>f DEF Others, Keeps
  <1>h. ilock' \in BOOLEAN
    BY <1>a
  <1>2. Typed'
    BY <1>0, <1>h, <1>c, <1>b, <1>e, <1>f DEF Typed, TypeOK, Place
  <1>3. PlaceOf(p)'
    BY <1>0, <1>a, <1>b, <1>e, <1>f DEF PlaceOf, Linking, Putting, Works, Refers
  <1>4. SearchOn'
    BY <1>a, <1>e DEF SearchOn
  <1>5. /\ linked'[p] = linked[p] /\ flag' = flag
        /\ ~ Refers(p) /\ ~ Works(p) /\ ~ Refers(p)' /\ ~ Works(p)'
        /\ pc'[p] \notin {"itrunc", "iupdat"}
    BY <1>a, <1>f, <1>e DEF Works, Refers
  <1> QED  BY <1>1, <1>2, <1>3, <1>4, <1>5, <1>f, Quiet

\* What a call leaves when it ends, p being at work on nothing.
LEMMA ReturnStep ==
    ASSUME Inv, NEW p \in Proc, ~ Works(p), linked[p] = 0, pc[p] \notin {"ilist", "iend"},
           Return(p), LeaveDir(p), asleep[p] = 0,
           UNCHANGED <<system, table, volume, spare, entry, search, files, asleep>>
    PROVE  StepOf(p)
  <1>0. /\ Typed /\ PlaceOf(p) /\ SearchOn
    BY DEF Inv, Places
  <1>c. Slot' = Slot /\ NOFILE' = NOFILE /\ Calls' = Calls
    BY SameSizes
  <1>a. /\ pc' = [pc EXCEPT ![p] = "user"] /\ call' = [call EXCEPT ![p] = "none"]
        /\ name' = [name EXCEPT ![p] = NoName] /\ want' = [want EXCEPT ![p] = NoIno]
        /\ cur' = [cur EXCEPT ![p] = 0] /\ linked' = [linked EXCEPT ![p] = 0]
        /\ after' = [after EXCEPT ![p] = "return"]
        /\ dlock' = IF dlock = p THEN NoProc ELSE dlock
        /\ UNCHANGED <<number, flag, count, core, volume, spare, entry, ilock, seen, files, asleep>>
    BY DEF Return, LeaveDir, Goto, Set, table, search
  <1>d. /\ dlock' \in Proc \cup {NoProc} /\ dlock' # p
        /\ \A q \in Proc : dlock' = q => dlock = q
    BY <1>0, <1>a, InodeAssumption DEF Typed, TypeOK
  <1>1. Others(p)
    BY <1>0, <1>a, <1>d DEF Others, Keeps, Typed, TypeOK
  <1>2. Typed'
    BY <1>0, <1>c, <1>a, <1>d DEF Typed, TypeOK
  <1>3. PlaceOf(p)'
    BY <1>0, <1>a, <1>d DEF PlaceOf, Typed, TypeOK, Linking, Putting, Works, Refers
  <1>4. SearchOn'
    BY <1>0, <1>a DEF Typed, TypeOK, SearchOn
  <1>5. /\ linked'[p] = linked[p] /\ ~ Refers(p) /\ ~ Works(p)' /\ ~ Refers(p)'
        /\ pc'[p] \notin {"itrunc", "iupdat"}
    BY <1>0, <1>a DEF Typed, TypeOK, Works, Refers
  <1> QED  BY <1>1, <1>2, <1>3, <1>4, <1>5, <1>a, Quiet

\* There is no spare inode.
LEMMA IallocFailsStep ==
    ASSUME Inv, NEW p \in Proc, IallocFails(p), system' = system
    PROVE  StepOf(p)
  <1>0. PlaceOf(p)
    BY DEF Inv, Places
  <1>1. /\ pc[p] = "iout" /\ asleep[p] = 0 /\ LeaveDir(p) /\ Return(p)
        /\ UNCHANGED <<table, volume, spare, entry, search, files, asleep>>
    BY DEF IallocFails, At
  <1>2. ~ Works(p) /\ linked[p] = 0
    BY <1>0, <1>1 DEF PlaceOf, Works, Refers, Linking, Putting
  <1> QED  BY <1>1, <1>2, ReturnStep


\* update is over.
LEMMA UpdateEndsStep ==
    ASSUME Inv, NEW p \in Proc, UpdateEnds(p), UNCHANGED <<system, search>>
    PROVE  StepOf(p)
  <1>0. Typed /\ PlaceOf(p)
    BY DEF Inv, Places
  <1>1. /\ pc[p] = "update" /\ asleep[p] = 0 /\ Return(p)
        /\ UNCHANGED <<table, volume, spare, entry, dlock, files, asleep>>
    BY DEF UpdateEnds, At, fs
  <1>2. ~ Works(p) /\ linked[p] = 0 /\ dlock # p
    BY <1>0, <1>1 DEF PlaceOf, Works, Refers, Linking, Putting
  <1>3. LeaveDir(p)
    BY <1>1, <1>2 DEF LeaveDir
  <1> QED  BY <1>1, <1>2, <1>3, ReturnStep
-----------------------------------------------------------------------------
(* The lock of a slot.                                                     *)

\* Who sleeps for a slot, sleeps for one that somebody has locked and counted.
LEMMA SleepersCounted ==
    ASSUME Inv, NEW q \in Proc, asleep[q] # 0
    PROVE  /\ asleep[q] \in Slot /\ Locked(asleep[q]) /\ count[asleep[q]] >= 1
           /\ {"ILOCK", "IWANT"} \subseteq flag[asleep[q]]
  <1>1. asleep[q] \in Slot /\ {"ILOCK", "IWANT"} \subseteq flag[asleep[q]]
    BY DEF Inv, Typed, TypeOK, SleepersKnown
  <1>2. Locked(asleep[q])
    BY <1>1 DEF Locked
  <1>3. \E p \in Proc : cur[p] = asleep[q] /\ Works(p)
    BY <1>1, <1>2 DEF Inv, LockHasWorker
  <1> QED  BY <1>1, <1>2, <1>3, WorkIsCounted

\* prele wakes all who sleep for the slot.
LEMMA PreleIs ==
    ASSUME Inv, system' = system, NEW s \in Slot, NEW g \in SUBSET {"ICHG"}, Prele(s, flag[s], g)
    PROVE  /\ asleep' \in [Proc -> Slot \cup {0}]
           /\ flag' \in [Slot -> SUBSET {"ILOCK", "IWANT", "ICHG"}]
           /\ flag'[s] = g /\ \A t \in Slot : t # s => flag'[t] = flag[t]
           /\ ~ Locked(s)' /\ \A t \in Slot : t # s => (Locked(t)' <=> Locked(t))
           /\ \A q \in Proc : asleep'[q] = asleep[q] \/ asleep'[q] = 0
           /\ \A q \in Proc : asleep[q] = 0 => asleep'[q] = 0
           /\ SleepersKnown'
  <1>0. TypeOK
    BY DEF Inv, Typed
  <1>1. /\ flag' = Set(flag, s, g)
        /\ asleep' = [p \in Proc |-> IF "IWANT" \in flag[s] /\ p \in Wakes(s) THEN 0 ELSE asleep[p]]
    BY DEF Prele
  <1>2. /\ flag' \in [Slot -> SUBSET {"ILOCK", "IWANT", "ICHG"}]
        /\ flag'[s] = g /\ \A t \in Slot : t # s => flag'[t] = flag[t]
    BY <1>0, <1>1 DEF TypeOK, Set
  <1>3. asleep' \in [Proc -> Slot \cup {0}]
    BY <1>0, <1>1 DEF TypeOK
  <1>4. \A q \in Proc : asleep'[q] = asleep[q] \/ asleep'[q] = 0
    BY <1>1
  <1>5. ASSUME NEW q \in Proc, asleep'[q] # 0
        PROVE  asleep'[q] \in Slot /\ asleep'[q] # s /\ asleep'[q] = asleep[q]
    <2>1. asleep'[q] = asleep[q] /\ asleep[q] # 0
      BY <1>4, <1>5
    <2>2. asleep[q] \in Slot /\ {"ILOCK", "IWANT"} \subseteq flag[asleep[q]]
      BY <2>1, SleepersCounted
    <2>3. asleep[q] # s
      BY <1>1, <1>5, <2>1, <2>2 DEF Wakes
    <2> QED  BY <2>1, <2>2, <2>3
  <1>6. SleepersKnown'
    BY <1>2, <1>5, SleepersCounted DEF SleepersKnown
  <1> QED  BY <1>2, <1>3, <1>4, <1>6 DEF Locked

\* iput locks the inode that it frees or writes.
LEMMA IputLocks ==
    ASSUME Inv, NEW p \in Proc, UNCHANGED <<system, search>>,
           pc[p] = "iput", asleep[p] = 0, count[cur[p]] = 1,
           NEW place \in {"itrunc", "iupdat"}, Goto(p, place), flag' = Add(flag, cur[p], {"ILOCK"}),
           UNCHANGED <<number, count, core, fs, args, cur, files, asleep>>
    PROVE  StepOf(p)
  <1>0. /\ Typed /\ PlaceOf(p) /\ SearchOn /\ OneCopy
    BY DEF Inv, Places, CountsReferences
  <1>c. Slot' = Slot /\ NOFILE' = NOFILE /\ Calls' = Calls
    BY SameSizes
  <1>w. cur[p] \in Slot
    BY WorkIsCounted DEF Works, Refers
  <1>a. /\ flag' \in [Slot -> SUBSET {"ILOCK", "IWANT", "ICHG"}]
        /\ flag'[cur[p]] = flag[cur[p]] \cup {"ILOCK"}
        /\ \A s \in Slot : s # cur[p] => flag'[s] = flag[s]
    BY <1>0, <1>w DEF Typed, TypeOK, Add
  <1>b. pc' \in [Proc -> Place] /\ pc'[p] = place /\ \A q \in Proc \ {p} : pc'[q] = pc[q]
    BY <1>0 DEF Goto, Typed, TypeOK, Place
  <1>d. /\ UNCHANGED <<number, count, core, volume, spare, entry, dlock, ilock, seen>>
        /\ UNCHANGED <<call, name, want, linked, after, cur, files, asleep>>
    BY DEF fs, args, search
  <1>1. Others(p)
    BY <1>b, <1>d DEF Others, Keeps
  <1>2. Typed'
    BY <1>0, <1>c, <1>a, <1>b, <1>d DEF Typed, TypeOK, Place
  <1>3. PlaceOf(p)'
    BY <1>0, <1>b, <1>d DEF PlaceOf, Linking, Putting, Works, Refers
  <1>4. SearchOn'
    BY <1>1, <1>b, SearchStays DEF search
  <1>5. OneCopy'
    BY <1>0, <1>2, <1>c, <1>d DEF OneCopy, Typed
  <1>6. (Refers(p) <=> Refers(p)') /\ Works(p) /\ Works(p)' /\ cur'[p] = cur[p] /\ linked' = linked
    BY <1>b, <1>d DEF Works, Refers
  <1>7. CountsOwn(p)
    <2> SUFFICES ASSUME NEW s \in Slot
                 PROVE  count'[s] = count[s] - One(RefersTo(p, s)) + One(RefersTo(p, s)')
                                             - One(linked[p] = s) + One(linked'[p] = s)
      BY <1>d DEF CountsOwn
    <2>1. (RefersTo(p, s)' <=> RefersTo(p, s)) /\ count'[s] = count[s] /\ count[s] \in Nat
      BY <1>0, <1>6, <1>d DEF RefersTo, Typed, TypeOK
    <2> HIDE DEF RefersTo
    <2> QED  BY <2>1, <1>6 DEF One
  <1>8. /\ Locked(cur[p])' /\ \A s \in Slot : s # cur[p] => (Locked(s)' <=> Locked(s))
    BY <1>a, <1>d DEF Locked
  <1>9. SlotsOf(p) /\ LockOf(p) /\ LastOf(p)
    BY <1>6, <1>8, <1>d DEF SlotsOf, LockOf, LastOf
  <1>10. SleepersKnown'
    BY <1>a, <1>d, <1>w, SleepersCounted DEF SleepersKnown
  <1> QED  BY <1>1, <1>2, <1>3, <1>4, <1>5, <1>7, <1>9, <1>10 DEF StepOf

\* The last reference to a file without links.
LEMMA IputTruncatesStep ==
    ASSUME Inv, NEW p \in Proc, IputTruncates(p), UNCHANGED <<system, search>>
    PROVE  StepOf(p)
  BY IputLocks DEF IputTruncates, At

\* The last reference to a file that has changed.
LEMMA IputUpdatesStep ==
    ASSUME Inv, NEW p \in Proc, IputUpdates(p), UNCHANGED <<system, search>>
    PROVE  StepOf(p)
  BY IputLocks DEF IputUpdates, At

\* Where p goes on after iput.
LEMMA ContinueIs ==
    ASSUME Inv, NEW p \in Proc, system' = system, pc[p] \in Putting, Continue(p),
           asleep'[p] = 0, files'[p] = files[p], seen'[p] = seen[p]
    PROVE  /\ pc' \in [Proc -> Place] /\ cur' \in [Proc -> Slot \cup {0}]
           /\ linked' \in [Proc -> Slot \cup {0}] /\ call' \in [Proc -> Calls \cup {"none"}]
           /\ name' \in [Proc -> Name \cup {NoName}] /\ want' \in [Proc -> Ino \cup {NoIno}]
           /\ after' \in [Proc -> {"return", "ialloc", "linked", "update"}]
           /\ dlock' \in Proc \cup {NoProc}
           /\ \A q \in Proc \ {p} :
                /\ pc'[q] = pc[q] /\ call'[q] = call[q] /\ cur'[q] = cur[q]
                /\ linked'[q] = linked[q] /\ after'[q] = after[q] /\ want'[q] = want[q]
                /\ dlock' = q => dlock = q
           /\ PlaceOf(p)'
           /\ Refers(p)' => cur'[p] = linked[p] /\ linked[p] # 0 /\ linked'[p] = 0
           /\ ~ Refers(p)' => linked[p] = 0 /\ linked'[p] = 0
           /\ pc'[p] \in {"user", "loop", "iput", "update"}
  <1>0. Typed /\ PlaceOf(p) /\ pc[p] \in Putting
    BY DEF Inv, Places
  <1>t. /\ pc \in [Proc -> Place] /\ cur \in [Proc -> Slot \cup {0}]
        /\ linked \in [Proc -> Slot \cup {0}] /\ call \in [Proc -> Calls \cup {"none"}]
        /\ name \in [Proc -> Name \cup {NoName}] /\ want \in [Proc -> Ino \cup {NoIno}]
        /\ after \in [Proc -> {"return", "ialloc", "linked", "update"}]
        /\ dlock \in Proc \cup {NoProc}
    BY <1>0 DEF Typed, TypeOK, Place
  <1>p. /\ linked[p] # 0 <=> after[p] = "linked"
        /\ linked[p] # 0 => call[p] = "link"
        /\ after[p] = "update" => call[p] = "update"
        /\ dlock = p => call[p] \in {"creat", "unlink"} \/ (call[p] = "link" /\ pc[p] = "wdir")
        /\ seen[p] = 0
    BY <1>0 DEF PlaceOf, Putting
  <1>1. CASE after[p] = "return"
    <2>1. LeaveDir(p) /\ Return(p)
      BY <1>1 DEF Continue
    <2>2. /\ pc' = [pc EXCEPT ![p] = "user"] /\ call' = [call EXCEPT ![p] = "none"]
          /\ name' = [name EXCEPT ![p] = NoName] /\ want' = [want EXCEPT ![p] = NoIno]
          /\ cur' = [cur EXCEPT ![p] = 0] /\ linked' = [linked EXCEPT ![p] = 0]
          /\ after' = [after EXCEPT ![p] = "return"]
          /\ dlock' = IF dlock = p THEN NoProc ELSE dlock
      BY <2>1 DEF LeaveDir, Return, Goto, Set
    <2>3. dlock' # p /\ dlock' \in Proc \cup {NoProc} /\ \A q \in Proc : dlock' = q => dlock = q
      BY <1>t, <2>2, InodeAssumption
    <2>4. pc'[p] = "user" /\ call'[p] = "none" /\ cur'[p] = 0 /\ linked'[p] = 0 /\ after'[p] = "return"
      BY <1>t, <2>2
    <2>5. PlaceOf(p)'
      BY <1>p, <2>3, <2>4 DEF PlaceOf, Putting, Works, Refers
    <2>6. ~ Refers(p)'
      BY <2>4 DEF Refers
    <2>7. pc' \in [Proc -> Place]
      BY <1>t, <2>2 DEF Place
    <2> QED  BY <1>1, <1>t, <1>p, <2>2, <2>3, <2>4, <2>5, <2>6, <2>7
  <1>2. CASE after[p] = "ialloc"
    <2>2. /\ pc' = [pc EXCEPT ![p] = "loop"] /\ cur' = [cur EXCEPT ![p] = 0]
          /\ after' = [after EXCEPT ![p] = "return"]
          /\ UNCHANGED <<dlock, call, name, want, linked>>
      BY <1>2 DEF Continue, Goto, Set
    <2>4. pc'[p] = "loop" /\ cur'[p] = 0 /\ linked'[p] = 0 /\ after'[p] = "return"
      BY <1>t, <1>p, <1>2, <2>2
    <2>5. PlaceOf(p)'
      BY <1>p, <2>2, <2>4, <1>0 DEF PlaceOf, Putting, Works, Refers
    <2>6. ~ Refers(p)'
      BY <2>4 DEF Refers
    <2>7. pc' \in [Proc -> Place]
      BY <1>t, <2>2 DEF Place
    <2> QED  BY <1>2, <1>t, <1>p, <2>2, <2>4, <2>5, <2>6, <2>7
  <1>3. CASE after[p] = "linked"
    <2>2. /\ pc' = [pc EXCEPT ![p] = "iput"] /\ cur' = [cur EXCEPT ![p] = linked[p]]
          /\ linked' = [linked EXCEPT ![p] = 0] /\ after' = [after EXCEPT ![p] = "return"]
          /\ UNCHANGED <<dlock, call, name, want>>
      BY <1>3 DEF Continue, Goto, Set
    <2>4. pc'[p] = "iput" /\ cur'[p] = linked[p] /\ linked'[p] = 0 /\ after'[p] = "return"
      BY <1>t, <2>2
    <2>5. PlaceOf(p)'
      BY <1>p, <1>3, <2>2, <2>4, <1>0 DEF PlaceOf, Putting, Works, Refers
    <2>6. Refers(p)'
      BY <2>4 DEF Refers
    <2>7. pc' \in [Proc -> Place]
      BY <1>t, <2>2 DEF Place
    <2> QED  BY <1>3, <1>t, <1>p, <2>2, <2>4, <2>5, <2>6, <2>7
  <1>4. CASE after[p] = "update"
    <2>2. /\ pc' = [pc EXCEPT ![p] = "update"]
          /\ UNCHANGED <<dlock, call, name, want, linked, after, cur>>
      BY <1>4 DEF Continue, Goto, args
    <2>4. pc'[p] = "update" /\ linked'[p] = 0
      BY <1>t, <1>p, <1>4, <2>2
    <2>5. PlaceOf(p)'
      BY <1>p, <1>4, <2>2, <2>4, <1>0 DEF PlaceOf, Putting, Works, Refers
    <2>6. ~ Refers(p)'
      BY <2>4 DEF Refers
    <2>7. pc' \in [Proc -> Place]
      BY <1>t, <2>2 DEF Place
    <2> QED  BY <1>4, <1>t, <1>p, <2>2, <2>4, <2>5, <2>6, <2>7
  <1> QED  BY <1>1, <1>2, <1>3, <1>4, <1>t

\* iput gives the reference and the lock back.
LEMMA PutStep ==
    ASSUME Inv, NEW p \in Proc, UNCHANGED <<system, search>>,
           pc[p] \in {"iput", "iupdat"}, asleep[p] = 0,
           count' = Set(count, cur[p], count[cur[p]] - 1),
           number' = IF count[cur[p]] = 1 THEN Set(number, cur[p], NoIno) ELSE number,
           NEW g \in SUBSET {"ICHG"}, Prele(cur[p], flag[cur[p]], g), Continue(p),
           volume' \in [Ino -> [mode : BOOLEAN, nlink : Int]],
           UNCHANGED <<core, spare, entry, files>>
    PROVE  StepOf(p)
  <1>0. /\ Typed /\ PlaceOf(p) /\ SearchOn /\ OneCopy
    BY DEF Inv, Places, CountsReferences
  <1>c. Slot' = Slot /\ NOFILE' = NOFILE /\ Calls' = Calls /\ system' = system
    BY SameSizes
  <1>w. /\ cur[p] \in Slot /\ count[cur[p]] \in Nat /\ count[cur[p]] >= 1
        /\ Works(p) /\ Refers(p)
    BY <1>0, WorkIsCounted DEF Works, Refers, Typed, TypeOK
  <1>l. /\ asleep' \in [Proc -> Slot \cup {0}]
        /\ flag' \in [Slot -> SUBSET {"ILOCK", "IWANT", "ICHG"}]
        /\ \A t \in Slot : t # cur[p] => (Locked(t)' <=> Locked(t))
        /\ \A q \in Proc : asleep'[q] = asleep[q] \/ asleep'[q] = 0
        /\ asleep'[p] = 0 /\ SleepersKnown'
    <2> DEFINE s == cur[p]
    <2>1. s \in Slot /\ Prele(s, flag[s], g)
      BY <1>w
    <2> HIDE DEF s
    <2>2. /\ asleep' \in [Proc -> Slot \cup {0}]
          /\ flag' \in [Slot -> SUBSET {"ILOCK", "IWANT", "ICHG"}]
          /\ flag'[s] = g /\ \A t \in Slot : t # s => (Locked(t)' <=> Locked(t))
          /\ \A q \in Proc : asleep'[q] = asleep[q] \/ asleep'[q] = 0
          /\ asleep'[p] = 0 /\ SleepersKnown'
      BY <2>1, <1>c, PreleIs
    <2> QED  BY <2>2 DEF s
  <1>n. LET s == cur[p]
        IN  /\ ~ ("ILOCK" \in flag'[s])
            /\ count'[s] = count[s] - 1 /\ \A t \in Slot : t # s => count'[t] = count[t]
            /\ count' \in [Slot -> Nat] /\ number' \in [Slot -> Ino \cup {NoIno}]
            /\ number'[s] = NoIno <=> count'[s] = 0
            /\ \A t \in Slot : t # s => number'[t] = number[t]
            /\ number'[s] = number[s] \/ number'[s] = NoIno
    <2>1. count \in [Slot -> Nat] /\ number \in [Slot -> Ino \cup {NoIno}]
      BY <1>0 DEF Typed, TypeOK
    <2>2. number[cur[p]] # NoIno
      BY <1>0, <1>w DEF OneCopy
    <2>3. "ILOCK" \notin flag'[cur[p]]
      <3>1. flag' = Set(flag, cur[p], g)
        BY DEF Prele
      <3>2. flag \in [Slot -> SUBSET {"ILOCK", "IWANT", "ICHG"}]
        BY <1>0 DEF Typed, TypeOK
      <3> QED  BY <3>1, <3>2, <1>w DEF Set
    <2>4. /\ count' \in [Slot -> Nat] /\ count'[cur[p]] = count[cur[p]] - 1
          /\ \A t \in Slot : t # cur[p] => count'[t] = count[t]
      BY <2>1, <1>w DEF Set
    <2>5. CASE count[cur[p]] = 1
      <3>1. number' = Set(number, cur[p], NoIno) /\ count'[cur[p]] = 0
        BY <2>4, <2>5
      <3> QED  BY <3>1, <2>1, <2>3, <2>4, <2>5, <1>w DEF Set
    <2>6. CASE count[cur[p]] # 1
      <3>1. number' = number /\ count'[cur[p]] # 0
        BY <2>4, <2>6, <1>w
      <3> QED  BY <3>1, <2>1, <2>2, <2>3, <2>4, <2>6, <1>w
    <2> QED  BY <2>5, <2>6
  <1>k. /\ pc' \in [Proc -> Place] /\ cur' \in [Proc -> Slot \cup {0}]
        /\ linked' \in [Proc -> Slot \cup {0}] /\ call' \in [Proc -> Calls \cup {"none"}]
        /\ name' \in [Proc -> Name \cup {NoName}] /\ want' \in [Proc -> Ino \cup {NoIno}]
        /\ after' \in [Proc -> {"return", "ialloc", "linked", "update"}]
        /\ dlock' \in Proc \cup {NoProc}
        /\ \A q \in Proc \ {p} :
             /\ pc'[q] = pc[q] /\ call'[q] = call[q] /\ cur'[q] = cur[q]
             /\ linked'[q] = linked[q] /\ after'[q] = after[q] /\ want'[q] = want[q]
             /\ dlock' = q => dlock = q
        /\ PlaceOf(p)'
        /\ Refers(p)' => cur'[p] = linked[p] /\ linked[p] # 0 /\ linked'[p] = 0
        /\ ~ Refers(p)' => linked[p] = 0 /\ linked'[p] = 0
        /\ pc'[p] \in {"user", "loop", "iput", "update"}
    <2>1. pc[p] \in Putting /\ seen'[p] = seen[p] /\ files'[p] = files[p]
      BY DEF Putting, search
    <2> QED  BY <2>1, <1>l, <1>c, ContinueIs
  <1>d. UNCHANGED <<core, spare, entry, files, ilock, seen>>
    BY DEF search
  <1>1. Others(p)
    BY <1>c, <1>k, <1>l, <1>d DEF Others, Keeps
  <1>m. count' \in [Slot -> Nat] /\ number' \in [Slot -> Ino \cup {NoIno}]
    BY <1>n
  <1>2. Typed'
    <2>1. /\ system \in Systems /\ ilock \in BOOLEAN /\ seen \in [Proc -> 0 .. Len(Ilist)]
          /\ core \in [Slot -> [mode : BOOLEAN, nlink : Int]] /\ spare \in Seq(Ino)
          /\ entry \in [Name -> Ino \cup {NoIno}]
          /\ files \in [Proc -> Seq(Slot)] /\ \A q \in Proc : Len(files[q]) <= NOFILE
      BY <1>0 DEF Typed, TypeOK
    <2>2. TypeOK'
      BY <2>1, <1>c, <1>k, <1>l, <1>m, <1>d, SMTT(30) DEF TypeOK, Place
    <2> QED  BY <2>1, <2>2, <1>c, <1>d DEF Typed
  <1>4. SearchOn'
    BY <1>1, <1>k, SearchStays
  <1>5. OneCopy'
    <2>1. TypeOK'
      BY <1>2 DEF Typed
    <2>2. \A r, s \in Slot : number'[r] = number'[s] /\ number'[r] # NoIno => r = s
      BY <1>0, <1>n DEF OneCopy
    <2>3. \A s \in Slot : number'[s] = NoIno <=> count'[s] = 0
      BY <1>0, <1>n DEF OneCopy
    <2> QED  BY <2>1, <2>2, <2>3, <1>c DEF OneCopy
  <1>7. CountsOwn(p)
    <2> SUFFICES ASSUME NEW s \in Slot
                 PROVE  count'[s] = count[s] - One(RefersTo(p, s)) + One(RefersTo(p, s)')
                                             - One(linked[p] = s) + One(linked'[p] = s)
      BY <1>d DEF CountsOwn
    <2>0. count[s] \in Nat /\ 0 \notin Slot
      BY <1>0 DEF Typed, TypeOK, Slot
    <2>1. RefersTo(p, s) <=> s = cur[p]
      BY <1>w DEF RefersTo
    <2>2. RefersTo(p, s)' <=> linked[p] = s
      BY <1>k, <2>0 DEF RefersTo
    <2>3. linked'[p] # s
      BY <1>k, <2>0
    <2>4. count'[s] = IF s = cur[p] THEN count[s] - 1 ELSE count[s]
      BY <1>n
    <2> HIDE DEF RefersTo
    <2> QED  BY <2>0, <2>1, <2>2, <2>3, <2>4 DEF One
  <1>8. SlotsOf(p)
    BY <1>w, <1>l, <1>n DEF SlotsOf, Locked
  <1>9. LockOf(p)
    <2>1. Works(p)' => linked[p] # 0
      BY <1>k DEF Works
    <2>2. linked[p] # 0 => "link" \in Calls
      BY <1>0 DEF PlaceOf, Typed, TypeOK
    <2> QED  BY <2>1, <2>2 DEF LockOf
  <1>10. LastOf(p)
    BY <1>k DEF LastOf
  <1> QED  BY <1>1, <1>2, <1>k, <1>4, <1>5, <1>7, <1>8, <1>9, <1>10, <1>l DEF StepOf

\* iput of an inode that others refer to.
LEMMA IputSharedStep ==
    ASSUME Inv, NEW p \in Proc, IputShared(p), UNCHANGED <<system, search>>
    PROVE  StepOf(p)
  <1>1. cur[p] \in Slot /\ flag[cur[p]] \subseteq {"ILOCK", "IWANT", "ICHG"} /\ pc[p] = "iput"
    BY WorksOnInode DEF IputShared, At, Works, Refers
  <1>2. Unlocked(cur[p]) \in SUBSET {"ICHG"}
    BY <1>1 DEF Unlocked
  <1>3. volume' \in [Ino -> [mode : BOOLEAN, nlink : Int]]
    BY DEF Inv, Typed, TypeOK, IputShared
  <1> QED  BY <1>1, <1>2, <1>3, PutStep DEF IputShared, At

\* iput of the last reference, when there is nothing to write.
LEMMA IputVacatesStep ==
    ASSUME Inv, NEW p \in Proc, IputVacates(p), UNCHANGED <<system, search>>
    PROVE  StepOf(p)
  <1>1. volume' \in [Ino -> [mode : BOOLEAN, nlink : Int]]
    BY DEF Inv, Typed, TypeOK, IputVacates
  <1>2. /\ pc[p] = "iput" /\ asleep[p] = 0 /\ count[cur[p]] = 1
        /\ number' = Set(number, cur[p], NoIno) /\ count' = Set(count, cur[p], count[cur[p]] - 1)
        /\ Prele(cur[p], flag[cur[p]], {}) /\ Continue(p)
        /\ UNCHANGED <<core, spare, entry, files>>
    BY DEF IputVacates, Vacate, At
  <1>3. {} \in SUBSET {"ICHG"}
    OBVIOUS
  <1> QED  BY <1>1, <1>2, <1>3, PutStep

\* iput of the last reference, when the inode has been written.
LEMMA IputWritesStep ==
    ASSUME Inv, NEW p \in Proc, IputWrites(p), UNCHANGED <<system, search>>
    PROVE  StepOf(p)
  <1>2. /\ pc[p] = "iupdat" /\ asleep[p] = 0
        /\ volume' = Set(volume, number[cur[p]], Copies(cur[p])) \/ volume' = volume
        /\ number' = Set(number, cur[p], NoIno) /\ count' = Set(count, cur[p], count[cur[p]] - 1)
        /\ Prele(cur[p], flag[cur[p]], {}) /\ Continue(p)
        /\ UNCHANGED <<core, spare, entry, files>>
    BY DEF IputWrites, Vacate, At
  <1>3. count[cur[p]] = 1
    BY <1>2 DEF Inv, LastOne
  <1>1. volume' \in [Ino -> [mode : BOOLEAN, nlink : Int]]
    <2>1. /\ core[cur[p]] \in [mode : BOOLEAN, nlink : Int]
          /\ volume \in [Ino -> [mode : BOOLEAN, nlink : Int]]
      BY <1>2, WorksOnInode DEF Works, Refers, Inv, Typed, TypeOK
    <2> QED  BY <2>1, <1>2 DEF Set, Copies
  <1>4. {} \in SUBSET {"ICHG"}
    OBVIOUS
  <1> QED  BY <1>1, <1>2, <1>3, <1>4, PutStep

\* link unlocks the file before it looks for the new name.
LEMMA GotLinkStep ==
    ASSUME Inv, NEW p \in Proc, GotLink(p), UNCHANGED <<system, search>>
    PROVE  StepOf(p)
  <1>0. /\ Typed /\ PlaceOf(p) /\ SearchOn /\ OneCopy
    BY DEF Inv, Places, CountsReferences
  <1>c. Slot' = Slot /\ NOFILE' = NOFILE /\ Calls' = Calls /\ system' = system
    BY SameSizes
  <1>a. /\ pc[p] = "got" /\ asleep[p] = 0 /\ call[p] = "link" /\ linked[p] = 0
        /\ linked' = [linked EXCEPT ![p] = cur[p]] /\ cur' = [cur EXCEPT ![p] = 0]
        /\ pc' = [pc EXCEPT ![p] = "namei"]
        /\ UNCHANGED <<number, count, core, volume, spare, entry, dlock, ilock, seen>>
        /\ UNCHANGED <<call, name, want, after, files>>
    BY DEF GotLink, At, Goto, Set, fs, search
  <1>z. asleep[p] = 0
    BY <1>a
  <1>w. cur[p] \in Slot /\ Works(p) /\ Refers(p) /\ ForNamei(cur[p]) \in SUBSET {"ICHG"}
    BY <1>a, WorksOnInode DEF Works, Refers, ForNamei, Unlocked
  <1>l. /\ asleep' \in [Proc -> Slot \cup {0}]
        /\ flag' \in [Slot -> SUBSET {"ILOCK", "IWANT", "ICHG"}]
        /\ "ILOCK" \notin flag'[cur[p]]
        /\ \A t \in Slot : t # cur[p] => (Locked(t)' <=> Locked(t))
        /\ \A q \in Proc : asleep'[q] = asleep[q] \/ asleep'[q] = 0
        /\ asleep'[p] = 0 /\ SleepersKnown'
    <2> DEFINE s == cur[p]
               g == ForNamei(cur[p])
    <2>1. s \in Slot /\ Prele(s, flag[s], g) /\ g \in SUBSET {"ICHG"}
      BY <1>w DEF GotLink
    <2> HIDE DEF s, g
    <2>2. /\ asleep' \in [Proc -> Slot \cup {0}]
          /\ flag' \in [Slot -> SUBSET {"ILOCK", "IWANT", "ICHG"}]
          /\ flag'[s] = g /\ \A t \in Slot : t # s => (Locked(t)' <=> Locked(t))
          /\ \A q \in Proc : asleep'[q] = asleep[q] \/ asleep'[q] = 0
          /\ \A q \in Proc : asleep[q] = 0 => asleep'[q] = 0
          /\ SleepersKnown'
      BY <2>1, <1>c, PreleIs
    <2>3. "ILOCK" \notin flag'[s]
      BY <2>1, <2>2
    <2>4. asleep'[p] = 0
      BY <2>2, <1>z
    <2> QED  BY <2>2, <2>3, <2>4 DEF s
  <1>b. /\ pc'[p] = "namei" /\ pc' \in [Proc -> Place] /\ cur'[p] = 0 /\ linked'[p] = cur[p]
        /\ \A q \in Proc \ {p} : pc'[q] = pc[q] /\ cur'[q] = cur[q] /\ linked'[q] = linked[q]
    BY <1>0, <1>a DEF Typed, TypeOK, Place
  <1>1. Others(p)
    BY <1>c, <1>a, <1>b, <1>l DEF Others, Keeps
  <1>2. Typed'
    BY <1>0, <1>c, <1>a, <1>b, <1>l, <1>w DEF Typed, TypeOK, Place
  <1>3. PlaceOf(p)'
    BY <1>0, <1>a, <1>b, <1>l, <1>w DEF PlaceOf, Linking, Putting, Works, Refers, Slot
  <1>4. SearchOn'
    BY <1>1, <1>a, <1>b, SearchStays DEF search
  <1>5. OneCopy'
    BY <1>0, <1>2, <1>c, <1>a DEF OneCopy, Typed
  <1>6. ~ Refers(p)' /\ ~ Works(p)'
    BY <1>b DEF Refers, Works
  <1>7. CountsOwn(p)
    <2> SUFFICES ASSUME NEW s \in Slot
                 PROVE  count'[s] = count[s] - One(RefersTo(p, s)) + One(RefersTo(p, s)')
                                             - One(linked[p] = s) + One(linked'[p] = s)
      BY <1>a DEF CountsOwn
    <2>0. count[s] \in Nat /\ 0 \notin Slot /\ count'[s] = count[s]
      BY <1>0, <1>a DEF Typed, TypeOK, Slot
    <2>1. (RefersTo(p, s) <=> s = cur[p]) /\ ~ RefersTo(p, s)' /\ linked[p] # s
      BY <1>w, <1>6, <1>a, <2>0 DEF RefersTo
    <2> HIDE DEF RefersTo
    <2> QED  BY <2>0, <2>1, <1>b DEF One
  <1>8. SlotsOf(p) /\ LockOf(p) /\ LastOf(p)
    BY <1>w, <1>l, <1>a, <1>b, <1>6 DEF SlotsOf, LockOf, LastOf, Locked
  <1> QED  BY <1>1, <1>2, <1>3, <1>4, <1>5, <1>7, <1>8, <1>l DEF StepOf

\* open1 unlocks the inode; its reference is the file's.
LEMMA GotOpenStep ==
    ASSUME Inv, NEW p \in Proc, GotOpen(p), UNCHANGED <<system, search>>
    PROVE  StepOf(p)
  <1>0. /\ Typed /\ PlaceOf(p) /\ SearchOn /\ OneCopy
    BY DEF Inv, Places, CountsReferences
  <1>c. Slot' = Slot /\ NOFILE' = NOFILE /\ Calls' = Calls /\ system' = system
    BY SameSizes
  <1>a. /\ pc[p] = "got" /\ asleep[p] = 0 /\ call[p] \in {"open", "creat"}
        /\ ~ Allocating(p) /\ Len(files[p]) + 1 <= NOFILE
        /\ files' = [files EXCEPT ![p] = Append(files[p], cur[p])]
        /\ pc' = [pc EXCEPT ![p] = "user"] /\ call' = [call EXCEPT ![p] = "none"]
        /\ name' = [name EXCEPT ![p] = NoName] /\ want' = [want EXCEPT ![p] = NoIno]
        /\ cur' = [cur EXCEPT ![p] = 0] /\ linked' = [linked EXCEPT ![p] = 0]
        /\ after' = [after EXCEPT ![p] = "return"]
        /\ UNCHANGED <<number, count, core, volume, spare, entry, dlock, ilock, seen>>
    BY DEF GotOpen, MayOpen, Return, At, Goto, Set, fs, search
  <1>z. asleep[p] = 0
    BY <1>a
  <1>w. cur[p] \in Slot /\ Works(p) /\ Refers(p) /\ Unlocked(cur[p]) \in SUBSET {"ICHG"}
    BY <1>a, WorksOnInode DEF Works, Refers, Unlocked
  <1>l. /\ asleep' \in [Proc -> Slot \cup {0}]
        /\ flag' \in [Slot -> SUBSET {"ILOCK", "IWANT", "ICHG"}]
        /\ "ILOCK" \notin flag'[cur[p]]
        /\ \A t \in Slot : t # cur[p] => (Locked(t)' <=> Locked(t))
        /\ \A q \in Proc : asleep'[q] = asleep[q] \/ asleep'[q] = 0
        /\ asleep'[p] = 0 /\ SleepersKnown'
    <2> DEFINE s == cur[p]
               g == Unlocked(cur[p])
    <2>1. s \in Slot /\ Prele(s, flag[s], g) /\ g \in SUBSET {"ICHG"}
      BY <1>w DEF GotOpen
    <2> HIDE DEF s, g
    <2>2. /\ asleep' \in [Proc -> Slot \cup {0}]
          /\ flag' \in [Slot -> SUBSET {"ILOCK", "IWANT", "ICHG"}]
          /\ flag'[s] = g /\ \A t \in Slot : t # s => (Locked(t)' <=> Locked(t))
          /\ \A q \in Proc : asleep'[q] = asleep[q] \/ asleep'[q] = 0
          /\ \A q \in Proc : asleep[q] = 0 => asleep'[q] = 0
          /\ SleepersKnown'
      BY <2>1, <1>c, PreleIs
    <2>3. "ILOCK" \notin flag'[s]
      BY <2>1, <2>2
    <2>4. asleep'[p] = 0
      BY <2>2, <1>z
    <2> QED  BY <2>2, <2>3, <2>4 DEF s
  <1>b. /\ pc'[p] = "user" /\ pc' \in [Proc -> Place] /\ cur'[p] = 0 /\ linked'[p] = 0
        /\ call'[p] = "none" /\ after'[p] = "return"
        /\ files'[p] = Append(files[p], cur[p])
        /\ \A q \in Proc \ {p} : /\ pc'[q] = pc[q] /\ cur'[q] = cur[q] /\ linked'[q] = linked[q]
                                 /\ call'[q] = call[q] /\ after'[q] = after[q]
                                 /\ want'[q] = want[q] /\ files'[q] = files[q]
    BY <1>0, <1>a DEF Typed, TypeOK, Place
  <1>f. /\ files' \in [Proc -> Seq(Slot)]
        /\ \A q \in Proc : Len(files'[q]) <= NOFILE
    <2>1. files \in [Proc -> Seq(Slot)] /\ \A q \in Proc : Len(files[q]) <= NOFILE
      BY <1>0 DEF Typed, TypeOK
    <2>2. Append(files[p], cur[p]) \in Seq(Slot) /\ Len(files'[p]) = Len(files[p]) + 1
      BY <2>1, <1>w, <1>b
    <2>3. files' \in [Proc -> Seq(Slot)]
      BY <2>1, <2>2, <1>a
    <2> QED  BY <2>1, <2>2, <2>3, <1>a, <1>b
  <1>1. Others(p)
    BY <1>c, <1>a, <1>b, <1>l DEF Others, Keeps
  <1>2. Typed'
    <2>1. /\ system \in Systems /\ ilock \in BOOLEAN /\ seen \in [Proc -> 0 .. Len(Ilist)]
          /\ number \in [Slot -> Ino \cup {NoIno}] /\ count \in [Slot -> Nat]
          /\ volume \in [Ino -> [mode : BOOLEAN, nlink : Int]] /\ dlock \in Proc \cup {NoProc}
          /\ core \in [Slot -> [mode : BOOLEAN, nlink : Int]] /\ spare \in Seq(Ino)
          /\ entry \in [Name -> Ino \cup {NoIno}]
          /\ call \in [Proc -> Calls \cup {"none"}] /\ name \in [Proc -> Name \cup {NoName}]
          /\ want \in [Proc -> Ino \cup {NoIno}] /\ {cur, linked} \subseteq [Proc -> Slot \cup {0}]
          /\ after \in [Proc -> {"return", "ialloc", "linked", "update"}]
      BY <1>0 DEF Typed, TypeOK
    <2>2. TypeOK'
      BY <2>1, <1>c, <1>a, <1>b, <1>f, <1>l DEF TypeOK, Place
    <2> QED  BY <2>1, <2>2, <1>c, <1>f DEF Typed
  <1>d. dlock # p /\ linked[p] = 0
    BY <1>0, <1>a DEF PlaceOf, Allocating
  <1>3. PlaceOf(p)'
    BY <1>0, <1>a, <1>b, <1>d, <1>l DEF PlaceOf, Linking, Putting, Works, Refers
  <1>4. SearchOn'
    BY <1>1, <1>a, <1>b, SearchStays DEF search
  <1>5. OneCopy'
    BY <1>0, <1>2, <1>c, <1>a DEF OneCopy, Typed
  <1>6. ~ Refers(p)' /\ ~ Works(p)'
    BY <1>b DEF Refers, Works
  <1>7. Opens(p)
    <2>1. Len(files[p]) \in Nat /\ NOFILE \in Nat
      BY <1>0, Sizes DEF Typed, TypeOK
    <2> QED  BY <2>1, <1>6, <1>w, <1>a, <1>b, <1>d DEF Opens
  <1>8. SlotsOf(p) /\ LockOf(p) /\ LastOf(p)
    BY <1>w, <1>l, <1>a, <1>b, <1>6 DEF SlotsOf, LockOf, LastOf, Locked
  <1> QED  BY <1>1, <1>2, <1>3, <1>4, <1>5, <1>7, <1>8, <1>l DEF StepOf

\* A read or write of an open file ends.
LEMMA RdwrEndsStep ==
    ASSUME Inv, NEW p \in Proc, RdwrEnds(p), UNCHANGED <<system, search>>
    PROVE  StepOf(p)
  <1>0. /\ Typed /\ PlaceOf(p) /\ SearchOn /\ OneCopy
    BY DEF Inv, Places, CountsReferences
  <1>c. Slot' = Slot /\ NOFILE' = NOFILE /\ Calls' = Calls /\ system' = system
    BY SameSizes
  <1>a. /\ pc[p] = "rdwr" /\ asleep[p] = 0
        /\ pc' = [pc EXCEPT ![p] = "user"] /\ call' = [call EXCEPT ![p] = "none"]
        /\ name' = [name EXCEPT ![p] = NoName] /\ want' = [want EXCEPT ![p] = NoIno]
        /\ cur' = [cur EXCEPT ![p] = 0] /\ linked' = [linked EXCEPT ![p] = 0]
        /\ after' = [after EXCEPT ![p] = "return"]
        /\ UNCHANGED <<number, count, core, volume, spare, entry, dlock, ilock, seen, files>>
    BY DEF RdwrEnds, Return, At, Goto, Set, fs, search
  <1>z. asleep[p] = 0
    BY <1>a
  <1>w. cur[p] \in Slot /\ Works(p) /\ ~ Refers(p) /\ Unlocked(cur[p]) \cup {"ICHG"} \in SUBSET {"ICHG"}
    BY <1>a, WorksOnInode DEF Works, Refers, Unlocked
  <1>l. /\ asleep' \in [Proc -> Slot \cup {0}]
        /\ flag' \in [Slot -> SUBSET {"ILOCK", "IWANT", "ICHG"}]
        /\ "ILOCK" \notin flag'[cur[p]]
        /\ \A t \in Slot : t # cur[p] => (Locked(t)' <=> Locked(t))
        /\ \A q \in Proc : asleep'[q] = asleep[q] \/ asleep'[q] = 0
        /\ asleep'[p] = 0 /\ SleepersKnown'
    <2> DEFINE s == cur[p]
               g == Unlocked(cur[p]) \cup {"ICHG"}
    <2>1. s \in Slot /\ Prele(s, flag[s], g) /\ g \in SUBSET {"ICHG"}
      BY <1>w DEF RdwrEnds
    <2> HIDE DEF s, g
    <2>2. /\ asleep' \in [Proc -> Slot \cup {0}]
          /\ flag' \in [Slot -> SUBSET {"ILOCK", "IWANT", "ICHG"}]
          /\ flag'[s] = g /\ \A t \in Slot : t # s => (Locked(t)' <=> Locked(t))
          /\ \A q \in Proc : asleep'[q] = asleep[q] \/ asleep'[q] = 0
          /\ \A q \in Proc : asleep[q] = 0 => asleep'[q] = 0
          /\ SleepersKnown'
      BY <2>1, <1>c, PreleIs
    <2>3. "ILOCK" \notin flag'[s]
      BY <2>1, <2>2
    <2>4. asleep'[p] = 0
      BY <2>2, <1>z
    <2> QED  BY <2>2, <2>3, <2>4 DEF s
  <1>b. /\ pc'[p] = "user" /\ pc' \in [Proc -> Place] /\ cur'[p] = 0 /\ linked'[p] = 0
        /\ call'[p] = "none" /\ after'[p] = "return"
        /\ \A q \in Proc \ {p} : /\ pc'[q] = pc[q] /\ cur'[q] = cur[q] /\ linked'[q] = linked[q]
                                 /\ call'[q] = call[q] /\ after'[q] = after[q]
                                 /\ want'[q] = want[q]
    BY <1>0, <1>a DEF Typed, TypeOK, Place
  <1>1. Others(p)
    BY <1>c, <1>a, <1>b, <1>l DEF Others, Keeps
  <1>2. Typed'
    BY <1>0, <1>c, <1>a, <1>b, <1>l, <1>w DEF Typed, TypeOK, Place
  <1>d. dlock # p /\ linked[p] = 0
    BY <1>0, <1>a DEF PlaceOf, Linking, Putting
  <1>3. PlaceOf(p)'
    BY <1>0, <1>a, <1>b, <1>d, <1>l DEF PlaceOf, Linking, Putting, Works, Refers
  <1>4. SearchOn'
    BY <1>1, <1>a, <1>b, SearchStays DEF search
  <1>5. OneCopy'
    BY <1>0, <1>2, <1>c, <1>a DEF OneCopy, Typed
  <1>6. ~ Refers(p)' /\ ~ Works(p)'
    BY <1>b DEF Refers, Works
  <1>7. CountsOwn(p)
    <2> SUFFICES ASSUME NEW s \in Slot
                 PROVE  count'[s] = count[s] - One(RefersTo(p, s)) + One(RefersTo(p, s)')
                                             - One(linked[p] = s) + One(linked'[p] = s)
      BY <1>a DEF CountsOwn
    <2>0. count[s] \in Nat /\ count'[s] = count[s] /\ linked'[p] = linked[p]
      BY <1>0, <1>a, <1>b, <1>d DEF Typed, TypeOK
    <2>1. ~ RefersTo(p, s) /\ ~ RefersTo(p, s)'
      BY <1>w, <1>6 DEF RefersTo
    <2> HIDE DEF RefersTo
    <2> QED  BY <2>0, <2>1 DEF One
  <1>8. SlotsOf(p) /\ LockOf(p) /\ LastOf(p)
    BY <1>w, <1>l, <1>a, <1>b, <1>6 DEF SlotsOf, LockOf, LastOf, Locked
  <1> QED  BY <1>1, <1>2, <1>3, <1>4, <1>5, <1>7, <1>8, <1>l DEF StepOf

\* plock sleeps.
LEMMA PlockWaitsStep ==
    ASSUME Inv, NEW p \in Proc, PlockWaits(p), UNCHANGED <<system, search>>
    PROVE  StepOf(p)
  <1>0. /\ Typed /\ PlaceOf(p) /\ SearchOn /\ OneCopy
    BY DEF Inv, Places, CountsReferences
  <1>c. Slot' = Slot /\ NOFILE' = NOFILE /\ Calls' = Calls /\ system' = system
    BY SameSizes
  <1>a. /\ pc[p] = "plock" /\ asleep[p] = 0 /\ "ILOCK" \in flag[cur[p]]
        /\ flag' = [flag EXCEPT ![cur[p]] = @ \cup {"IWANT"}]
        /\ asleep' = [asleep EXCEPT ![p] = cur[p]]
        /\ UNCHANGED <<number, count, core, volume, spare, entry, dlock, ilock, seen>>
        /\ UNCHANGED <<call, name, want, linked, after, pc, cur, files>>
    BY DEF PlockWaits, SleepsFor, Add, Set, Locked, At, fs, args, search
  <1>w. cur[p] \in Slot
    BY <1>a, WorkIsCounted
  <1>b. /\ asleep' \in [Proc -> Slot \cup {0}] /\ asleep'[p] = cur[p]
        /\ \A q \in Proc \ {p} : asleep'[q] = asleep[q]
    BY <1>0, <1>a, <1>w DEF Typed, TypeOK
  <1>f. /\ flag' \in [Slot -> SUBSET {"ILOCK", "IWANT", "ICHG"}]
        /\ flag'[cur[p]] = flag[cur[p]] \cup {"IWANT"}
        /\ \A t \in Slot : t # cur[p] => flag'[t] = flag[t]
    BY <1>0, <1>a, <1>w DEF Typed, TypeOK
  <1>1. Others(p)
    BY <1>c, <1>a, <1>b DEF Others, Keeps
  <1>2. Typed'
    BY <1>0, <1>c, <1>a, <1>b, <1>f DEF Typed, TypeOK
  <1>3. PlaceOf(p)'
    BY <1>0, <1>a, <1>b DEF PlaceOf, Linking, Putting, Works, Refers
  <1>4. SearchOn'
    BY <1>1, <1>a, SearchStays DEF search
  <1>5. OneCopy'
    BY <1>0, <1>2, <1>c, <1>a DEF OneCopy, Typed
  <1>6. ~ Refers(p) /\ ~ Works(p) /\ ~ Refers(p)' /\ ~ Works(p)'
    BY <1>a DEF Refers, Works
  <1>7. CountsOwn(p)
    <2> SUFFICES ASSUME NEW s \in Slot
                 PROVE  count'[s] = count[s] - One(RefersTo(p, s)) + One(RefersTo(p, s)')
                                             - One(linked[p] = s) + One(linked'[p] = s)
      BY <1>a DEF CountsOwn
    <2>0. count[s] \in Nat /\ count'[s] = count[s] /\ linked'[p] = linked[p]
      BY <1>0, <1>a DEF Typed, TypeOK
    <2>1. ~ RefersTo(p, s) /\ ~ RefersTo(p, s)'
      BY <1>6 DEF RefersTo
    <2> HIDE DEF RefersTo
    <2> QED  BY <2>0, <2>1 DEF One
  <1>8. \A t \in Slot : Locked(t)' <=> Locked(t)
    BY <1>f DEF Locked
  <1>9. SlotsOf(p) /\ LockOf(p) /\ LastOf(p)
    BY <1>8, <1>a, <1>6 DEF SlotsOf, LockOf, LastOf
  <1>10. SleepersKnown'
    <2> SUFFICES ASSUME NEW q \in Proc, asleep'[q] # 0
                 PROVE  {"ILOCK", "IWANT"} \subseteq flag'[asleep'[q]]
      BY DEF SleepersKnown
    <2>1. CASE q = p
      BY <2>1, <1>a, <1>b, <1>f
    <2>2. CASE q # p
      <3>1. asleep'[q] = asleep[q] /\ asleep[q] \in Slot /\ {"ILOCK", "IWANT"} \subseteq flag[asleep[q]]
        BY <2>2, <1>b, SleepersCounted
      <3> QED  BY <3>1, <1>f
    <2> QED  BY <2>1, <2>2
  <1> QED  BY <1>1, <1>2, <1>3, <1>4, <1>5, <1>7, <1>9, <1>10 DEF StepOf

\* Who locks a slot that is not locked: nobody sleeps for it.
LEMMA LocksSlot ==
    ASSUME Inv, NEW s \in Slot, NEW p \in Proc, ~ Locked(s) \/ count[s] = 0, system' = system,
           flag' = Add(flag, s, {"ILOCK"}) \/ flag' = Set(flag, s, {"ILOCK"}), asleep' = asleep
    PROVE  /\ flag' \in [Slot -> SUBSET {"ILOCK", "IWANT", "ICHG"}]
           /\ "ILOCK" \in flag'[s] /\ \A t \in Slot : t # s => (Locked(t)' <=> Locked(t))
           /\ ~ Locked(s)
           /\ SleepersKnown'
  <1>0. flag \in [Slot -> SUBSET {"ILOCK", "IWANT", "ICHG"}]
    BY DEF Inv, Typed, TypeOK
  <1>1. /\ flag' \in [Slot -> SUBSET {"ILOCK", "IWANT", "ICHG"}]
        /\ "ILOCK" \in flag'[s] /\ \A t \in Slot : t # s => flag'[t] = flag[t]
    BY <1>0 DEF Add, Set
  <1>2. ~ Locked(s)
    <2> SUFFICES ASSUME count[s] = 0, Locked(s) PROVE FALSE
      OBVIOUS
    <2>1. PICK q \in Proc : cur[q] = s /\ Works(q)
      BY DEF Inv, LockHasWorker
    <2> QED  BY <2>1, WorkIsCounted
  <1>3. SleepersKnown'
    <2> SUFFICES ASSUME NEW q \in Proc, asleep[q] # 0
                 PROVE  {"ILOCK", "IWANT"} \subseteq flag'[asleep[q]]
      BY DEF SleepersKnown
    <2>1. /\ asleep[q] \in Slot /\ Locked(asleep[q]) /\ {"ILOCK", "IWANT"} \subseteq flag[asleep[q]]
      BY SleepersCounted
    <2> QED  BY <2>1, <1>1, <1>2
  <1> QED  BY <1>1, <1>2, <1>3 DEF Locked

\* plock gets the lock: rdwr goes on, and close takes the reference of the file.
LEMMA PlockStep ==
    ASSUME Inv, NEW p \in Proc, Plock(p), UNCHANGED <<system, search>>
    PROVE  StepOf(p)
  <1>0. /\ Typed /\ PlaceOf(p) /\ SearchOn /\ OneCopy
    BY DEF Inv, Places, CountsReferences
  <1>c. Slot' = Slot /\ NOFILE' = NOFILE /\ Calls' = Calls /\ system' = system
    BY SameSizes
  <1>a. /\ pc[p] = "plock" /\ asleep[p] = 0 /\ ~ Locked(cur[p])
        /\ flag' = Add(flag, cur[p], {"ILOCK"})
        /\ IF call[p] = "rdwr"
           THEN pc' = [pc EXCEPT ![p] = "rdwr"] /\ files' = files
           ELSE pc' = [pc EXCEPT ![p] = "iput"] /\ files' = [files EXCEPT ![p] = Tail(files[p])]
        /\ UNCHANGED <<number, count, core, volume, spare, entry, dlock, ilock, seen>>
        /\ UNCHANGED <<call, name, want, linked, after, cur, asleep>>
    BY DEF Plock, Goto, Set, At, fs, args, search
  <1>w. cur[p] \in Slot
    BY <1>a, WorkIsCounted
  <1>l. /\ flag' \in [Slot -> SUBSET {"ILOCK", "IWANT", "ICHG"}]
        /\ "ILOCK" \in flag'[cur[p]] /\ SleepersKnown'
        /\ \A t \in Slot : t # cur[p] => (Locked(t)' <=> Locked(t))
    <2>1. asleep' = asleep /\ ~ Locked(cur[p]) /\ flag' = Add(flag, cur[p], {"ILOCK"})
      BY <1>a
    <2> QED  BY <2>1, <1>c, <1>w, LocksSlot
  <1>p. /\ call[p] \in {"rdwr", "close"} /\ files[p] # <<>> /\ cur[p] = Head(files[p])
        /\ linked[p] = 0 /\ after[p] # "linked"
    BY <1>0, <1>a DEF PlaceOf, Linking, Putting
  <1>b. /\ pc' \in [Proc -> Place] /\ pc'[p] = (IF call[p] = "rdwr" THEN "rdwr" ELSE "iput")
        /\ \A q \in Proc \ {p} : pc'[q] = pc[q]
    <2>1. pc \in [Proc -> Place]
      BY <1>0 DEF Typed, TypeOK, Place
    <2> QED  BY <2>1, <1>a DEF Place
  <1>f. /\ files' \in [Proc -> Seq(Slot)] /\ \A q \in Proc : Len(files'[q]) <= NOFILE
        /\ files'[p] = (IF call[p] = "rdwr" THEN files[p] ELSE Tail(files[p]))
        /\ \A q \in Proc \ {p} : files'[q] = files[q]
    <2>1. files \in [Proc -> Seq(Slot)] /\ \A q \in Proc : Len(files[q]) <= NOFILE
      BY <1>0 DEF Typed, TypeOK
    <2>2. NOFILE \in Nat
      BY <1>0, Sizes DEF Typed, TypeOK
    <2>3. Tail(files[p]) \in Seq(Slot) /\ Len(Tail(files[p])) <= NOFILE
      <3>1. files[p] \in Seq(Slot) /\ files[p] # <<>> /\ Len(files[p]) <= NOFILE
        BY <2>1, <1>p
      <3> QED  BY <3>1, <2>2
    <2>4. files' = files \/ files' = [files EXCEPT ![p] = Tail(files[p])]
      BY <1>a
    <2>5. files'[p] = IF call[p] = "rdwr" THEN files[p] ELSE Tail(files[p])
      BY <1>a, <2>1
    <2>6. files' \in [Proc -> Seq(Slot)]
      BY <2>1, <2>3, <2>4
    <2> QED  BY <2>1, <2>3, <2>4, <2>5, <2>6
  <1>d. UNCHANGED <<number, count, core, volume, spare, entry, dlock, ilock, seen>>
        /\ UNCHANGED <<call, name, want, linked, after, cur, asleep>>
    BY <1>a
  <1>1. Others(p)
    BY <1>c, <1>d, <1>b, <1>f DEF Others, Keeps
  <1>2. Typed'
    BY <1>0, <1>c, <1>d, <1>b, <1>f, <1>l DEF Typed, TypeOK, Place
  <1>e. asleep[p] = 0 /\ pc[p] = "plock"
    BY <1>a
  <1>3. PlaceOf(p)'
    <2>1. CASE call[p] = "rdwr"
      BY <2>1, <1>0, <1>p, <1>b, <1>d, <1>e, <1>f, <1>w DEF PlaceOf, Linking, Putting, Works,
         Refers
    <2>2. CASE call[p] # "rdwr"
      BY <2>2, <1>0, <1>p, <1>b, <1>d, <1>e, <1>f, <1>w DEF PlaceOf, Linking, Putting, Works,
         Refers
    <2> QED  BY <2>1, <2>2
  <1>4. SearchOn'
    BY <1>1, <1>b, <1>e, SearchStays
  <1>5. OneCopy'
    BY <1>0, <1>2, <1>c, <1>d DEF OneCopy, Typed
  <1>6. /\ ~ Refers(p) /\ ~ Works(p) /\ Works(p)'
        /\ Refers(p)' <=> call[p] # "rdwr"
    BY <1>b, <1>e DEF Refers, Works
  <1>7. CountsOwn(p) \/ Closes(p)
    <2>1. CASE call[p] = "rdwr"
      <3> SUFFICES ASSUME NEW s \in Slot
                   PROVE  count'[s] = count[s] - One(RefersTo(p, s)) + One(RefersTo(p, s)')
                                               - One(linked[p] = s) + One(linked'[p] = s)
        BY <2>1, <1>f DEF CountsOwn
      <3>0. count[s] \in Nat /\ count'[s] = count[s] /\ linked'[p] = linked[p]
        BY <1>0, <1>d DEF Typed, TypeOK
      <3>1. ~ RefersTo(p, s) /\ ~ RefersTo(p, s)'
        BY <1>6, <2>1 DEF RefersTo
      <3> HIDE DEF RefersTo
      <3> QED  BY <3>0, <3>1 DEF One
    <2>2. CASE call[p] # "rdwr"
      BY <2>2, <1>6, <1>p, <1>f, <1>d DEF Closes
    <2> QED  BY <2>1, <2>2
  <1>8. SlotsOf(p) /\ LockOf(p) /\ LastOf(p)
    BY <1>w, <1>l, <1>d, <1>b, <1>6, <1>a DEF SlotsOf, LockOf, LastOf, Locked
  <1> QED  BY <1>1, <1>2, <1>3, <1>4, <1>5, <1>7, <1>8, <1>l DEF StepOf

\* update takes a reference and the lock of the next inode in use.
LEMMA UpdateTakesStep ==
    ASSUME Inv, NEW p \in Proc, UpdateTakes(p), UNCHANGED <<system, search>>
    PROVE  StepOf(p)
  <1>0. /\ Typed /\ PlaceOf(p) /\ SearchOn /\ OneCopy
    BY DEF Inv, Places, CountsReferences
  <1>c. Slot' = Slot /\ NOFILE' = NOFILE /\ Calls' = Calls /\ system' = system
    BY SameSizes
  <1>s. PICK s \in Slot :
        /\ pc[p] = "update" /\ asleep[p] = 0 /\ ~ Locked(s) /\ count[s] # 0
        /\ flag' = Add(flag, s, {"ILOCK"}) /\ count' = [count EXCEPT ![s] = count[s] + 1]
        /\ cur' = [cur EXCEPT ![p] = s]
        /\ pc' = [pc EXCEPT ![p] = IF "ICHG" \in flag[s] THEN "updateWrite" ELSE "iput"]
        /\ UNCHANGED <<number, core, volume, spare, entry, dlock, ilock, seen>>
        /\ UNCHANGED <<call, name, want, linked, after, files, asleep>>
    BY DEF UpdateTakes, Updatable, Goto, Set, At, fs, args, search
  <1>l. /\ flag' \in [Slot -> SUBSET {"ILOCK", "IWANT", "ICHG"}]
        /\ "ILOCK" \in flag'[s] /\ SleepersKnown'
        /\ \A t \in Slot : t # s => (Locked(t)' <=> Locked(t))
    <2>1. asleep' = asleep /\ ~ Locked(s) /\ flag' = Add(flag, s, {"ILOCK"})
      BY <1>s
    <2> QED  BY <2>1, <1>c, LocksSlot
  <1>p. linked[p] = 0 /\ after[p] # "linked" /\ call[p] = "update" /\ dlock # p
    BY <1>0, <1>s DEF PlaceOf, Linking, Putting
  <1>b. /\ pc' \in [Proc -> Place] /\ pc'[p] \in {"updateWrite", "iput"}
        /\ cur' \in [Proc -> Slot \cup {0}] /\ cur'[p] = s
        /\ \A q \in Proc \ {p} : pc'[q] = pc[q] /\ cur'[q] = cur[q]
    BY <1>0, <1>s DEF Typed, TypeOK, Place
  <1>n. /\ count' \in [Slot -> Nat] /\ count'[s] = count[s] + 1
        /\ \A t \in Slot : t # s => count'[t] = count[t]
    BY <1>0, <1>s DEF Typed, TypeOK
  <1>d. /\ UNCHANGED <<number, core, volume, spare, entry, dlock, ilock, seen>>
        /\ UNCHANGED <<call, name, want, linked, after, files, asleep>>
        /\ asleep[p] = 0 /\ pc[p] = "update" /\ s # 0
    BY <1>s DEF Slot
  <1>1. Others(p)
    BY <1>c, <1>d, <1>b DEF Others, Keeps
  <1>2. Typed'
    <2>1. /\ system \in Systems /\ ilock \in BOOLEAN /\ seen \in [Proc -> 0 .. Len(Ilist)]
          /\ number \in [Slot -> Ino \cup {NoIno}]
          /\ volume \in [Ino -> [mode : BOOLEAN, nlink : Int]] /\ dlock \in Proc \cup {NoProc}
          /\ core \in [Slot -> [mode : BOOLEAN, nlink : Int]] /\ spare \in Seq(Ino)
          /\ entry \in [Name -> Ino \cup {NoIno}]
          /\ files \in [Proc -> Seq(Slot)] /\ \A q \in Proc : Len(files[q]) <= NOFILE
          /\ call \in [Proc -> Calls \cup {"none"}] /\ name \in [Proc -> Name \cup {NoName}]
          /\ want \in [Proc -> Ino \cup {NoIno}]
          /\ {linked, asleep} \subseteq [Proc -> Slot \cup {0}]
          /\ after \in [Proc -> {"return", "ialloc", "linked", "update"}]
      BY <1>0 DEF Typed, TypeOK
    <2>2. TypeOK'
      BY <2>1, <1>c, <1>d, <1>b, <1>n, <1>l DEF TypeOK, Place
    <2> QED  BY <2>1, <2>2, <1>c, <1>d DEF Typed
  <1>3. PlaceOf(p)'
    BY <1>0, <1>p, <1>b, <1>d DEF PlaceOf, Linking, Putting, Works, Refers
  <1>4. SearchOn'
    BY <1>1, <1>b, <1>d, SearchStays DEF search
  <1>5. OneCopy'
    <2>1. TypeOK'
      BY <1>2 DEF Typed
    <2>2. number[s] # NoIno /\ count[s] \in Nat
      BY <1>0, <1>s DEF OneCopy, Typed, TypeOK
    <2>3. \A t \in Slot : number'[t] = NoIno <=> count'[t] = 0
      BY <1>0, <1>d, <1>n, <2>2 DEF OneCopy
    <2> QED  BY <1>0, <2>1, <2>3, <1>c, <1>d DEF OneCopy
  <1>6. ~ Refers(p) /\ ~ Works(p) /\ Works(p)' /\ Refers(p)'
    BY <1>b, <1>d DEF Refers, Works
  <1>7. CountsOwn(p)
    <2> SUFFICES ASSUME NEW t \in Slot
                 PROVE  count'[t] = count[t] - One(RefersTo(p, t)) + One(RefersTo(p, t)')
                                             - One(linked[p] = t) + One(linked'[p] = t)
      BY <1>d DEF CountsOwn
    <2>0. count[t] \in Nat /\ linked'[p] = linked[p]
      BY <1>0, <1>d DEF Typed, TypeOK
    <2>1. ~ RefersTo(p, t) /\ (RefersTo(p, t)' <=> t = s)
      BY <1>6, <1>b DEF RefersTo
    <2>2. count'[t] = IF t = s THEN count[t] + 1 ELSE count[t]
      BY <1>n
    <2> HIDE DEF RefersTo
    <2> QED  BY <2>0, <2>1, <2>2 DEF One
  <1>8. SlotsOf(p) /\ LockOf(p) /\ LastOf(p)
    BY <1>l, <1>n, <1>b, <1>6, <1>s DEF SlotsOf, LockOf, LastOf, Locked
  <1> QED  BY <1>1, <1>2, <1>3, <1>4, <1>5, <1>7, <1>8, <1>l DEF StepOf


-----------------------------------------------------------------------------
(* iget, in whatever call.                                                 *)

\* What a call that calls iget(i) does besides, and where p is.
CallsIget(p, i) ==
    /\ i \in Ino /\ ~ Works(p) /\ asleep[p] = 0 /\ pc[p] \notin {"ilist", "iend"}
    /\ UNCHANGED <<system, volume, entry, search, linked, after, files>>
    /\ call' \in [Proc -> Calls \cup {"none"}] /\ name' \in [Proc -> Name \cup {NoName}]
    /\ spare' \in Seq(Ino) /\ dlock' \in Proc \cup {NoProc}
    /\ \A q \in Proc \ {p} : call'[q] = call[q] /\ (dlock' = q => dlock = q)
    /\ linked[p] # 0 => call'[p] = "link"
    /\ after[p] # "linked" /\ (after[p] = "update" => call'[p] = "update")
    /\ dlock' = p => call'[p] \in {"creat", "unlink"}

\* Where iget leaves p.
LEMMA IgetTo ==
    ASSUME Inv, NEW p \in Proc, NEW i, CallsIget(p, i),
           NEW place \in {"iget", "got", "igetRead", "enfile"}, Goto(p, place),
           want' = Set(want, p, IF pc'[p] = "iget" THEN i ELSE NoIno),
           cur' \in [Proc -> Slot \cup {0}], \A q \in Proc \ {p} : cur'[q] = cur[q],
           place \in {"got", "igetRead"} => cur'[p] # 0,
           asleep' \in [Proc -> Slot \cup {0}], \A q \in Proc \ {p} : asleep'[q] = asleep[q],
           asleep'[p] # 0 => place = "iget",
           number' \in [Slot -> Ino \cup {NoIno}], count' \in [Slot -> Nat],
           flag' \in [Slot -> SUBSET {"ILOCK", "IWANT", "ICHG"}], core' = core
    PROVE  /\ Others(p) /\ Typed' /\ PlaceOf(p)' /\ SearchOn'
           /\ pc'[p] = place /\ linked' = linked /\ files' = files /\ system' = system
  <1>0. /\ Typed /\ PlaceOf(p) /\ SearchOn
    BY DEF Inv, Places
  <1>a. /\ i \in Ino /\ ~ Works(p) /\ asleep[p] = 0 /\ pc[p] \notin {"ilist", "iend"}
        /\ UNCHANGED <<system, volume, entry, ilock, seen, linked, after, files>>
        /\ call' \in [Proc -> Calls \cup {"none"}] /\ name' \in [Proc -> Name \cup {NoName}]
        /\ spare' \in Seq(Ino) /\ dlock' \in Proc \cup {NoProc}
        /\ \A q \in Proc \ {p} : call'[q] = call[q] /\ (dlock' = q => dlock = q)
        /\ linked[p] # 0 => call'[p] = "link"
        /\ after[p] # "linked" /\ (after[p] = "update" => call'[p] = "update")
        /\ dlock' = p => call'[p] \in {"creat", "unlink"}
    BY DEF CallsIget, search
  <1>c. Slot' = Slot /\ NOFILE' = NOFILE /\ Calls' = Calls /\ system' = system
    BY <1>a, SameSizes
  <1>b. /\ pc' \in [Proc -> Place] /\ pc'[p] = place /\ \A q \in Proc \ {p} : pc'[q] = pc[q]
        /\ want' \in [Proc -> Ino \cup {NoIno}] /\ want'[p] = (IF place = "iget" THEN i ELSE NoIno)
        /\ \A q \in Proc \ {p} : want'[q] = want[q]
    <2>1. pc \in [Proc -> Place] /\ want \in [Proc -> Ino \cup {NoIno}]
      BY <1>0 DEF Typed, TypeOK, Place
    <2>2. pc' \in [Proc -> Place] /\ pc'[p] = place /\ \A q \in Proc \ {p} : pc'[q] = pc[q]
      BY <2>1 DEF Goto, Place
    <2> QED  BY <2>1, <2>2, <1>a DEF Set
  <1>1. Others(p)
    BY <1>c, <1>a, <1>b DEF Others, Keeps
  <1>2. Typed'
    <2>1. /\ system \in Systems /\ core \in [Slot -> [mode : BOOLEAN, nlink : Int]]
          /\ volume \in [Ino -> [mode : BOOLEAN, nlink : Int]] /\ ilock \in BOOLEAN
          /\ seen \in [Proc -> 0 .. Len(Ilist)] /\ entry \in [Name -> Ino \cup {NoIno}]
          /\ linked \in [Proc -> Slot \cup {0}] /\ files \in [Proc -> Seq(Slot)]
          /\ after \in [Proc -> {"return", "ialloc", "linked", "update"}]
          /\ \A q \in Proc : Len(files[q]) <= NOFILE
      BY <1>0 DEF Typed, TypeOK
    <2>2. TypeOK'
      BY <2>1, <1>c, <1>a, <1>b, SMTT(30) DEF TypeOK, Place
    <2> QED  BY <2>1, <2>2, <1>c, <1>a DEF Typed
  <1>3. PlaceOf(p)'
    <2>1. seen[p] = 0
      BY <1>0, <1>a DEF PlaceOf
    <2> QED  BY <2>1, <1>a, <1>b DEF PlaceOf, Linking, Putting, Works, Refers
  <1>4. SearchOn'
    BY <1>1, <1>a, <1>b, SearchStays DEF search
  <1> QED  BY <1>1, <1>2, <1>3, <1>4, <1>a, <1>b

\* The inode is locked: p sleeps.
LEMMA IgetWaits ==
    ASSUME Inv, NEW p \in Proc, NEW i, CallsIget(p, i), NEW s \in Slot, Locked(s),
           SleepsFor(p, s), Goto(p, "iget"), UNCHANGED <<number, count, cur, core>>,
           want' = Set(want, p, IF pc'[p] = "iget" THEN i ELSE NoIno)
    PROVE  StepOf(p)
  <1>0. /\ Typed /\ PlaceOf(p) /\ OneCopy
    BY DEF Inv, Places, CountsReferences
  <1>a. /\ "ILOCK" \in flag[s] /\ flag' = [flag EXCEPT ![s] = @ \cup {"IWANT"}]
        /\ asleep' = [asleep EXCEPT ![p] = s] /\ ~ Works(p) /\ ~ Refers(p) /\ s # 0
    BY DEF SleepsFor, Add, Set, Locked, CallsIget, Works, Slot
  <1>b. /\ asleep' \in [Proc -> Slot \cup {0}] /\ asleep'[p] = s
        /\ \A q \in Proc \ {p} : asleep'[q] = asleep[q]
    BY <1>0, <1>a DEF Typed, TypeOK
  <1>f. /\ flag' \in [Slot -> SUBSET {"ILOCK", "IWANT", "ICHG"}]
        /\ flag'[s] = flag[s] \cup {"IWANT"}
        /\ \A t \in Slot : t # s => flag'[t] = flag[t]
    BY <1>0, <1>a DEF Typed, TypeOK
  <1>t. /\ Others(p) /\ Typed' /\ PlaceOf(p)' /\ SearchOn'
        /\ pc'[p] = "iget" /\ linked' = linked /\ files' = files /\ system' = system
    <2>1. /\ number' \in [Slot -> Ino \cup {NoIno}] /\ count' \in [Slot -> Nat]
          /\ cur' \in [Proc -> Slot \cup {0}] /\ cur' = cur /\ core' = core
      BY <1>0 DEF Typed, TypeOK
    <2> QED  BY <2>1, <1>b, <1>f, IgetTo
  <1>c. Slot' = Slot
    BY <1>t, SameSizes
  <1>5. OneCopy'
    BY <1>0, <1>t, <1>c DEF OneCopy, Typed
  <1>6. ~ Refers(p)' /\ ~ Works(p)'
    BY <1>t DEF Refers, Works
  <1>7. CountsOwn(p)
    <2> SUFFICES ASSUME NEW t \in Slot
                 PROVE  count'[t] = count[t] - One(RefersTo(p, t)) + One(RefersTo(p, t)')
                                             - One(linked[p] = t) + One(linked'[p] = t)
      BY <1>t DEF CountsOwn
    <2>0. count[t] \in Nat /\ count'[t] = count[t] /\ linked'[p] = linked[p]
      BY <1>0, <1>t DEF Typed, TypeOK
    <2>1. ~ RefersTo(p, t) /\ ~ RefersTo(p, t)'
      BY <1>a, <1>6 DEF RefersTo
    <2> HIDE DEF RefersTo
    <2> QED  BY <2>0, <2>1 DEF One
  <1>8. \A t \in Slot : Locked(t)' <=> Locked(t)
    BY <1>f DEF Locked
  <1>9. SlotsOf(p) /\ LockOf(p) /\ LastOf(p)
    BY <1>8, <1>a, <1>t, <1>6 DEF SlotsOf, LockOf, LastOf
  <1>10. SleepersKnown'
    <2> SUFFICES ASSUME NEW q \in Proc, asleep'[q] # 0
                 PROVE  {"ILOCK", "IWANT"} \subseteq flag'[asleep'[q]]
      BY DEF SleepersKnown
    <2>1. CASE q = p
      BY <2>1, <1>a, <1>b, <1>f
    <2>2. CASE q # p
      <3>1. asleep'[q] = asleep[q] /\ asleep[q] \in Slot
            /\ {"ILOCK", "IWANT"} \subseteq flag[asleep[q]]
        BY <2>2, <1>b, SleepersCounted
      <3> QED  BY <3>1, <1>f
    <2> QED  BY <2>1, <2>2
  <1> QED  BY <1>t, <1>5, <1>7, <1>9, <1>10 DEF StepOf

\* p gets a slot, locked, and a reference to it: it is the inode's already, or
\* becomes it.
LEMMA IgetGets ==
    ASSUME Inv, NEW p \in Proc, NEW i, CallsIget(p, i), NEW s \in Slot,
           NEW place \in {"got", "igetRead"}, Goto(p, place),
           ~ Locked(s) \/ count[s] = 0,
           flag' = Add(flag, s, {"ILOCK"}) \/ flag' = Set(flag, s, {"ILOCK"}),
           count' = Set(count, s, Referred(s)), cur' = Set(cur, p, s),
           \/ number' = number /\ number[s] = i
           \/ number' = Set(number, s, i) /\ \A t \in Slot : number[t] # i,
           UNCHANGED <<asleep, core>>,
           want' = Set(want, p, IF pc'[p] = "iget" THEN i ELSE NoIno)
    PROVE  StepOf(p)
  <1>0. /\ Typed /\ PlaceOf(p) /\ OneCopy
    BY DEF Inv, Places, CountsReferences
  <1>a. i \in Ino /\ ~ Works(p) /\ ~ Refers(p) /\ asleep[p] = 0 /\ system' = system /\ s # 0
    BY DEF CallsIget, Works, Slot
  <1>l. /\ flag' \in [Slot -> SUBSET {"ILOCK", "IWANT", "ICHG"}]
        /\ "ILOCK" \in flag'[s] /\ \A t \in Slot : t # s => (Locked(t)' <=> Locked(t))
        /\ ~ Locked(s)
        /\ SleepersKnown'
    <2>1. asleep' = asleep
      OBVIOUS
    <2> QED  BY <2>1, <1>a, LocksSlot
  <1>b. cur' \in [Proc -> Slot \cup {0}] /\ cur'[p] = s /\ \A q \in Proc \ {p} : cur'[q] = cur[q]
    BY <1>0 DEF Typed, TypeOK, Set
  <1>n. /\ count' \in [Slot -> Nat] /\ count'[s] = count[s] + 1
        /\ \A t \in Slot : t # s => count'[t] = count[t]
    BY <1>0 DEF Typed, TypeOK, Set, Referred
  <1>m. /\ number' \in [Slot -> Ino \cup {NoIno}] /\ number'[s] = i
        /\ \A t \in Slot : t # s => number'[t] = number[t]
    <2>1. number \in [Slot -> Ino \cup {NoIno}]
      BY <1>0 DEF Typed, TypeOK
    <2>2. CASE number' = number /\ number[s] = i
      BY <2>1, <2>2
    <2>3. CASE number' = Set(number, s, i)
      BY <2>1, <2>3, <1>a DEF Set
    <2> QED  BY <2>2, <2>3
  <1>t. /\ Others(p) /\ Typed' /\ PlaceOf(p)' /\ SearchOn'
        /\ pc'[p] = place /\ linked' = linked /\ files' = files /\ system' = system
    <2>1. asleep' \in [Proc -> Slot \cup {0}] /\ asleep' = asleep /\ core' = core
      BY <1>0 DEF Typed, TypeOK
    <2> QED  BY <2>1, <1>a, <1>b, <1>l, <1>n, <1>m, IgetTo
  <1>c. Slot' = Slot
    BY <1>t, SameSizes
  <1>5. OneCopy'
    <2>1. TypeOK'
      BY <1>t DEF Typed
    <2>2. i # NoIno /\ count[s] \in Nat
      BY <1>0, <1>a, InodeAssumption DEF Typed, TypeOK
    <2>3. \A t \in Slot : number'[t] = NoIno <=> count'[t] = 0
      BY <1>0, <1>m, <1>n, <2>2 DEF OneCopy
    <2>4. \A t \in Slot : t # s => number[t] # i
      BY <1>0, <2>2 DEF OneCopy
    <2>5. \A r, t \in Slot : number'[r] = number'[t] /\ number'[r] # NoIno => r = t
      BY <1>0, <1>m, <2>4 DEF OneCopy
    <2> QED  BY <2>1, <2>3, <2>5, <1>c DEF OneCopy
  <1>6. Refers(p)' /\ Works(p)'
    BY <1>t DEF Refers, Works
  <1>7. CountsOwn(p)
    <2> SUFFICES ASSUME NEW t \in Slot
                 PROVE  count'[t] = count[t] - One(RefersTo(p, t)) + One(RefersTo(p, t)')
                                             - One(linked[p] = t) + One(linked'[p] = t)
      BY <1>t DEF CountsOwn
    <2>0. count[t] \in Nat /\ linked'[p] = linked[p]
      BY <1>0, <1>t DEF Typed, TypeOK
    <2>1. ~ RefersTo(p, t) /\ (RefersTo(p, t)' <=> t = s)
      BY <1>a, <1>6, <1>b DEF RefersTo
    <2>2. count'[t] = IF t = s THEN count[t] + 1 ELSE count[t]
      BY <1>n
    <2> HIDE DEF RefersTo
    <2> QED  BY <2>0, <2>1, <2>2 DEF One
  <1>8. SlotsOf(p) /\ LockOf(p) /\ LastOf(p)
    <2>1. pc'[p] \notin {"itrunc", "iupdat"}
      BY <1>t
    <2> QED  BY <2>1, <1>l, <1>n, <1>b, <1>6, <1>a DEF SlotsOf, LockOf, LastOf, Locked
  <1> QED  BY <1>t, <1>5, <1>7, <1>8, <1>l DEF StepOf

\* There is no slot to be had.
LEMMA IgetNone ==
    ASSUME Inv, NEW p \in Proc, NEW i, CallsIget(p, i), Goto(p, "enfile"),
           UNCHANGED <<number, flag, count, cur, asleep, core>>,
           want' = Set(want, p, IF pc'[p] = "iget" THEN i ELSE NoIno)
    PROVE  StepOf(p)
  <1>0. /\ Typed /\ PlaceOf(p)
    BY DEF Inv, Places
  <1>a. ~ Works(p) /\ ~ Refers(p) /\ asleep[p] = 0
    BY DEF CallsIget, Works
  <1>t. /\ Others(p) /\ Typed' /\ PlaceOf(p)' /\ SearchOn'
        /\ pc'[p] = "enfile" /\ linked' = linked /\ files' = files /\ system' = system
    <2>1. /\ number' \in [Slot -> Ino \cup {NoIno}] /\ count' \in [Slot -> Nat]
          /\ flag' \in [Slot -> SUBSET {"ILOCK", "IWANT", "ICHG"}]
          /\ cur' \in [Proc -> Slot \cup {0}] /\ cur' = cur /\ core' = core
          /\ asleep' \in [Proc -> Slot \cup {0}] /\ asleep' = asleep
      BY <1>0 DEF Typed, TypeOK
    <2> QED  BY <2>1, <1>a, IgetTo
  <1>6. ~ Refers(p)' /\ ~ Works(p)' /\ pc'[p] \notin {"itrunc", "iupdat"}
    BY <1>t DEF Refers, Works
  <1>7. /\ linked'[p] = linked[p]
        /\ \A s \in Slot : /\ "ILOCK" \in flag'[s] <=> "ILOCK" \in flag[s]
                           /\ "IWANT" \in flag'[s] <=> "IWANT" \in flag[s]
    BY <1>t
  <1> QED  BY <1>t, <1>a, <1>6, <1>7, Quiet

\* iget, up to its first sleep, or till it has the inode locked.
LEMMA IgetStep ==
    ASSUME Inv, NEW p \in Proc, NEW i, CallsIget(p, i), Iget(p, i)
    PROVE  StepOf(p)
  <1>1. /\ core' = core
        /\ want' = Set(want, p, IF pc'[p] = "iget" THEN i ELSE NoIno)
    BY DEF Iget
  <1>2. CASE \E s \in Cached(i) : Locked(s) /\ SleepsFor(p, s) /\ Goto(p, "iget")
                                  /\ UNCHANGED <<number, count, cur>>
    BY <1>1, <1>2, IgetWaits DEF Cached
  <1>3. CASE \E s \in Cached(i) : ~ Locked(s)
               /\ count' = Set(count, s, Referred(s)) /\ flag' = Add(flag, s, {"ILOCK"})
               /\ cur' = Set(cur, p, s) /\ Goto(p, "got") /\ UNCHANGED <<number, asleep>>
    <2>1. PICK s \in Cached(i) : ~ Locked(s)
               /\ count' = Set(count, s, Referred(s)) /\ flag' = Add(flag, s, {"ILOCK"})
               /\ cur' = Set(cur, p, s) /\ Goto(p, "got") /\ UNCHANGED <<number, asleep>>
      BY <1>3
    <2>2. s \in Slot /\ number[s] = i
      BY DEF Cached
    <2> QED  BY <2>1, <2>2, <1>1, IgetGets
  <1>4. CASE Cached(i) = {} /\ \E s \in Unused : (\A r \in Unused : s <= r)
               /\ number' = Set(number, s, i) /\ flag' = Set(flag, s, {"ILOCK"})
               /\ count' = Set(count, s, Referred(s)) /\ cur' = Set(cur, p, s)
               /\ Goto(p, "igetRead") /\ UNCHANGED asleep
    <2>1. PICK s \in Unused :
               /\ number' = Set(number, s, i) /\ flag' = Set(flag, s, {"ILOCK"})
               /\ count' = Set(count, s, Referred(s)) /\ cur' = Set(cur, p, s)
               /\ Goto(p, "igetRead") /\ UNCHANGED asleep
      BY <1>4
    <2>2. s \in Slot /\ count[s] = 0 /\ \A t \in Slot : number[t] # i
      BY <1>4 DEF Unused, Cached
    <2> QED  BY <2>1, <2>2, <1>1, IgetGets
  <1>5. CASE Goto(p, "enfile") /\ UNCHANGED <<number, flag, count, cur, asleep>>
    BY <1>1, <1>5, IgetNone
  <1> QED  BY <1>2, <1>3, <1>4, <1>5 DEF Iget

\* p wakes up in iget.
LEMMA IgetAgainStep ==
    ASSUME Inv, NEW p \in Proc, IgetAgain(p), UNCHANGED <<system, search>>
    PROVE  StepOf(p)
  <1>0. /\ Typed /\ PlaceOf(p)
    BY DEF Inv, Places
  <1>a. /\ pc[p] = "iget" /\ asleep[p] = 0 /\ Iget(p, want[p])
        /\ UNCHANGED <<volume, spare, entry, dlock, call, name, linked, after, files>>
    BY DEF IgetAgain, At, fs
  <1>b. ~ Works(p) /\ want[p] \in Ino
    BY <1>0, <1>a DEF PlaceOf, Works, Refers
  <1>1. CallsIget(p, want[p])
    BY <1>0, <1>a, <1>b DEF CallsIget, PlaceOf, Typed, TypeOK, Linking, Putting
  <1> QED  BY <1>1, <1>a, IgetStep

\* namei finds the name.
LEMMA LookupStep ==
    ASSUME Inv, NEW p \in Proc, Lookup(p), UNCHANGED <<system, search>>
    PROVE  StepOf(p)
  <1>0. /\ Typed /\ PlaceOf(p)
    BY DEF Inv, Places
  <1>a. PICK c \in {"stat", "open", "creat", "link"}, n \in Name :
        /\ pc[p] = "user" /\ asleep[p] = 0 /\ c \in Calls /\ call' = [call EXCEPT ![p] = c]
        /\ entry[n] # NoIno /\ dlock = NoProc /\ Iget(p, entry[n])
        /\ UNCHANGED <<volume, spare, entry, dlock, name, linked, after, files>>
    BY DEF Lookup, Begins, Finds, Set, At, fs
  <1>b. /\ ~ Works(p) /\ entry[n] \in Ino /\ call[p] = "none" /\ p # NoProc
        /\ call' \in [Proc -> Calls \cup {"none"}] /\ \A q \in Proc \ {p} : call'[q] = call[q]
    BY <1>0, <1>a, InodeAssumption DEF PlaceOf, Works, Refers, Typed, TypeOK
  <1>1. CallsIget(p, entry[n])
    BY <1>0, <1>a, <1>b DEF CallsIget, PlaceOf, Typed, TypeOK, Linking, Putting
  <1> QED  BY <1>1, <1>a, IgetStep

\* unlink finds the name, and keeps the directory locked.
LEMMA UnlinkStep ==
    ASSUME Inv, NEW p \in Proc, Unlink(p), UNCHANGED <<system, search>>
    PROVE  StepOf(p)
  <1>0. /\ Typed /\ PlaceOf(p)
    BY DEF Inv, Places
  <1>a. PICK n \in Name :
        /\ pc[p] = "user" /\ asleep[p] = 0 /\ "unlink" \in Calls
        /\ call' = [call EXCEPT ![p] = "unlink"] /\ name' = [name EXCEPT ![p] = n]
        /\ entry[n] # NoIno /\ dlock' = p /\ Iget(p, entry[n])
        /\ UNCHANGED <<volume, spare, entry, linked, after, files>>
    BY DEF Unlink, Begins, Finds, Set, At
  <1>b. /\ ~ Works(p) /\ entry[n] \in Ino /\ call[p] = "none"
        /\ call' \in [Proc -> Calls \cup {"none"}] /\ \A q \in Proc \ {p} : call'[q] = call[q]
        /\ call'[p] = "unlink" /\ name' \in [Proc -> Name \cup {NoName}]
    BY <1>0, <1>a DEF PlaceOf, Works, Refers, Typed, TypeOK
  <1>1. CallsIget(p, entry[n])
    BY <1>0, <1>a, <1>b DEF CallsIget, PlaceOf, Typed, TypeOK, Linking, Putting
  <1> QED  BY <1>1, <1>a, IgetStep

\* link finds the new name.
LEMMA LinkFindsStep ==
    ASSUME Inv, NEW p \in Proc, LinkFinds(p), UNCHANGED <<system, search>>
    PROVE  StepOf(p)
  <1>0. /\ Typed /\ PlaceOf(p)
    BY DEF Inv, Places
  <1>a. PICK n \in Name :
        /\ pc[p] = "namei" /\ asleep[p] = 0 /\ entry[n] # NoIno /\ Iget(p, entry[n])
        /\ UNCHANGED <<volume, spare, entry, dlock, call, name, linked, after, files>>
    BY DEF LinkFinds, Finds, At, fs
  <1>b. ~ Works(p) /\ entry[n] \in Ino
    BY <1>0, <1>a DEF Works, Refers, Typed, TypeOK
  <1>1. CallsIget(p, entry[n])
    BY <1>0, <1>a, <1>b DEF CallsIget, PlaceOf, Typed, TypeOK, Linking, Putting
  <1> QED  BY <1>1, <1>a, IgetStep

\* ialloc takes a spare inode.
LEMMA IallocTakesStep ==
    ASSUME Inv, NEW p \in Proc, IallocTakes(p), system' = system
    PROVE  StepOf(p)
  <1>0. /\ Typed /\ PlaceOf(p)
    BY DEF Inv, Places
  <1>a. /\ pc[p] \in {"loop", "ialloc"} /\ asleep[p] = 0
        /\ spare # <<>> /\ spare' = Front(spare) /\ Iget(p, Last(spare))
        /\ UNCHANGED <<volume, entry, dlock, search, call, name, linked, after, files>>
    BY DEF IallocTakes, InLoop, At
  <1>b. ~ Works(p)
    BY <1>a DEF Works, Refers
  <1>c. Last(spare) \in Ino /\ Front(spare) \in Seq(Ino)
    <2>1. spare \in Seq(Ino) /\ spare # <<>>
      BY <1>0, <1>a DEF Typed, TypeOK
    <2>2. Len(spare) \in Nat \ {0}
      BY <2>1
    <2>3. Last(spare) \in Ino
      BY <2>1, <2>2 DEF Last
    <2>4. SubSeq(spare, 1, Len(spare) - 1) \in Seq(Ino)
      BY <2>1, <2>2
    <2> QED  BY <2>3, <2>4 DEF Front
  <1>1. CallsIget(p, Last(spare))
    BY <1>0, <1>a, <1>b, <1>c DEF CallsIget, PlaceOf, Typed, TypeOK, Linking, Putting
  <1> QED  BY <1>1, <1>a, IgetStep

\* link goes on with the file that it looked up first.
LEMMA MoveStep ==
    ASSUME Inv, NEW p \in Proc, ~ Works(p), linked[p] # 0, asleep[p] = 0,
           pc[p] \notin {"ilist", "iend"}, NEW place \in {"iput", "wdir"}, Goto(p, place),
           cur' = Set(cur, p, linked[p]), linked' = Set(linked, p, 0),
           name' \in [Proc -> Name \cup {NoName}],
           dlock' = dlock \/ (dlock' = p /\ place = "wdir"),
           UNCHANGED <<system, table, volume, spare, entry, search>>,
           UNCHANGED <<call, want, after, files, asleep>>
    PROVE  StepOf(p)
  <1>0. /\ Typed /\ PlaceOf(p) /\ SearchOn /\ OneCopy
    BY DEF Inv, Places, CountsReferences
  <1>a. UNCHANGED <<number, flag, count, core, ilock, seen>>
    BY DEF table, search
  <1>c. Slot' = Slot /\ NOFILE' = NOFILE /\ Calls' = Calls
    BY SameSizes
  <1>w. linked[p] \in Slot /\ call[p] = "link" /\ ~ Refers(p) /\ linked[p] # 0
        /\ after[p] \notin {"linked", "update"} /\ dlock # p /\ seen[p] = 0 /\ "link" \in Calls
    <2>1. linked[p] \in Slot /\ call[p] = "link" /\ ~ Refers(p) /\ pc[p] \in Linking
      BY <1>0, WorkIsCounted DEF PlaceOf, Works
    <2>2. "link" \in Calls
      BY <2>1, <1>0 DEF Typed, TypeOK
    <2>3. pc[p] \notin Putting /\ pc[p] # "wdir"
      BY <2>1 DEF Refers, Putting
    <2>4. after[p] \notin {"linked", "update"} /\ dlock # p /\ seen[p] = 0
      BY <2>1, <2>3, <1>0 DEF PlaceOf
    <2> QED  BY <2>1, <2>2, <2>4
  <1>b. /\ pc' \in [Proc -> Place] /\ pc'[p] = place
        /\ cur' \in [Proc -> Slot \cup {0}] /\ cur'[p] = linked[p]
        /\ linked' \in [Proc -> Slot \cup {0}] /\ linked'[p] = 0
        /\ \A q \in Proc \ {p} : pc'[q] = pc[q] /\ cur'[q] = cur[q] /\ linked'[q] = linked[q]
    BY <1>0, <1>w DEF Typed, TypeOK, Place, Goto, Set
  <1>d. dlock' \in Proc \cup {NoProc} /\ \A q \in Proc \ {p} : dlock' = q => dlock = q
    BY <1>0 DEF Typed, TypeOK
  <1>1. Others(p)
    BY <1>a, <1>b, <1>d DEF Others, Keeps
  <1>2. Typed'
    BY <1>0, <1>c, <1>a, <1>b, <1>d DEF Typed, TypeOK, Place
  <1>3. PlaceOf(p)'
    BY <1>0, <1>w, <1>a, <1>b DEF PlaceOf, Linking, Putting, Works, Refers
  <1>4. SearchOn'
    BY <1>1, <1>b, SearchStays
  <1>5. OneCopy'
    BY <1>0, <1>2, <1>c, <1>a DEF OneCopy, Typed
  <1>6. Refers(p)' /\ Works(p)'
    BY <1>b DEF Refers, Works
  <1>7. CountsOwn(p)
    <2> SUFFICES ASSUME NEW s \in Slot
                 PROVE  count'[s] = count[s] - One(RefersTo(p, s)) + One(RefersTo(p, s)')
                                             - One(linked[p] = s) + One(linked'[p] = s)
      BY DEF CountsOwn
    <2>0. count[s] \in Nat /\ count'[s] = count[s] /\ linked'[p] # s
      BY <1>0, <1>a, <1>b DEF Typed, TypeOK, Slot
    <2>1. ~ RefersTo(p, s) /\ (RefersTo(p, s)' <=> linked[p] = s)
      BY <1>w, <1>6, <1>b DEF RefersTo
    <2> HIDE DEF RefersTo
    <2> QED  BY <2>0, <2>1 DEF One
  <1>8. SlotsOf(p) /\ LockOf(p) /\ LastOf(p)
    BY <1>w, <1>a, <1>b DEF SlotsOf, LockOf, LastOf, Locked
  <1>9. SleepersKnown'
    BY <1>a DEF Inv, SleepersKnown
  <1> QED  BY <1>1, <1>2, <1>3, <1>4, <1>5, <1>7, <1>8, <1>9 DEF StepOf

\* The inode table is full.
LEMMA IgetFullStep ==
    ASSUME Inv, NEW p \in Proc, IgetFull(p), UNCHANGED <<system, search>>
    PROVE  StepOf(p)
  <1>0. /\ Typed /\ PlaceOf(p)
    BY DEF Inv, Places
  <1>a. /\ pc[p] = "enfile" /\ asleep[p] = 0
        /\ UNCHANGED <<table, volume, spare, entry, files, asleep>>
    BY DEF IgetFull, At
  <1>b. ~ Works(p) /\ pc[p] \notin {"ilist", "iend"}
    BY <1>a DEF Works, Refers
  <1>1. CASE linked[p] # 0
    <2>1. /\ Goto(p, "iput") /\ cur' = Set(cur, p, linked[p])
          /\ linked' = Set(linked, p, 0)
          /\ UNCHANGED <<dlock, call, name, want, after>>
      BY <1>1 DEF IgetFull
    <2>2. name' \in [Proc -> Name \cup {NoName}]
      BY <1>0, <2>1 DEF Typed, TypeOK
    <2>3. "iput" \in {"iput", "wdir"} /\ UNCHANGED <<call, want, after, files, asleep>>
      BY <1>a, <2>1
    <2>4. /\ dlock' = dlock
          /\ UNCHANGED <<system, table, volume, spare, entry, search>>
      BY <1>a, <2>1
    <2> QED  BY <1>1, <1>a, <1>b, <2>1, <2>2, <2>3, <2>4, MoveStep
  <1>2. CASE linked[p] = 0
    <2>1. LeaveDir(p) /\ Return(p)
      BY <1>2 DEF IgetFull
    <2> QED  BY <1>2, <1>a, <1>b, <2>1, ReturnStep
  <1> QED  BY <1>1, <1>2

\* link does not find the new name, and locks the directory.
LEMMA LinkFindsNotStep ==
    ASSUME Inv, NEW p \in Proc, LinkFindsNot(p), UNCHANGED <<system, search>>
    PROVE  StepOf(p)
  <1>0. /\ Typed /\ PlaceOf(p)
    BY DEF Inv, Places
  <1>a. PICK n \in Name :
        /\ pc[p] = "namei" /\ asleep[p] = 0 /\ dlock' = p /\ name' = Set(name, p, n)
        /\ cur' = Set(cur, p, linked[p]) /\ linked' = Set(linked, p, 0) /\ Goto(p, "wdir")
        /\ UNCHANGED <<table, volume, spare, entry, call, want, after, files, asleep>>
    BY DEF LinkFindsNot, At
  <1>b. ~ Works(p) /\ pc[p] \notin {"ilist", "iend"} /\ linked[p] # 0
    BY <1>0, <1>a DEF Works, Refers, PlaceOf
  <1>c. name' \in [Proc -> Name \cup {NoName}]
    BY <1>0, <1>a DEF Typed, TypeOK, Set
  <1> QED  BY <1>a, <1>b, <1>c, MoveStep

-----------------------------------------------------------------------------
(* The invariant holds at all times.                                       *)

\* Every step of a process, with pipe not among the calls.
LEMMA ProcessStep ==
    ASSUME Inv, "pipe" \notin Calls, NEW p \in Proc, system' = system,
           Searches(p) \/ ((Enters(p) \/ Proceeds(p)) /\ UNCHANGED search)
    PROVE  StepOf(p)
  <1>1. CASE Searches(p)
    BY <1>1, IallocWaitsStep, IallocTakesStep, IallocLocksStep, IallocReadsStep, IallocEndsStep,
       IallocFailsStep DEF Searches
  <1>2. CASE Enters(p) /\ UNCHANGED search
    <2>1. ~ Pipe(p)
      BY DEF Pipe, Begins
    <2> QED  BY <1>2, <2>1, LookupStep, CreatStep, UnlinkStep, UseFileStep, UpdateStep
                DEF Enters
  <1>3. CASE Proceeds(p) /\ UNCHANGED search
    <2>1. ~ GotPipe(p)
      BY DEF GotPipe, Inv, Typed, TypeOK
    <2>2. CASE IgetAgain(p) \/ IgetRead(p) \/ IgetReadFails(p) \/ IgetFull(p)
      BY <1>3, <2>2, IgetAgainStep, IgetReadStep, IgetReadFailsStep, IgetFullStep
    <2>3. CASE \/ IputShared(p) \/ IputTruncates(p) \/ IputFrees(p) \/ IputUpdates(p)
               \/ IputVacates(p) \/ IputWrites(p)
      BY <1>3, <2>3, IputSharedStep, IputTruncatesStep, IputFreesStep, IputUpdatesStep,
         IputVacatesStep, IputWritesStep
    <2>4. CASE LinkFinds(p) \/ LinkFindsNot(p) \/ GotLink(p)
      BY <1>3, <2>4, LinkFindsStep, LinkFindsNotStep, GotLinkStep
    <2>5. CASE GotTaken(p) \/ GotNew(p) \/ GotOpen(p) \/ GotPut(p) \/ GotUnlink(p)
      BY <1>3, <2>5, GotTakenStep, GotNewStep, GotOpenStep, GotPutStep, GotUnlinkStep
    <2>6. CASE WdirCreat(p) \/ WdirUnlink(p) \/ WdirLink(p)
      BY <1>3, <2>6, WdirCreatStep, WdirUnlinkStep, WdirLinkStep
    <2>7. CASE PlockWaits(p) \/ Plock(p) \/ RdwrEnds(p)
      BY <1>3, <2>7, PlockWaitsStep, PlockStep, RdwrEndsStep
    <2>8. CASE UpdateTakes(p) \/ UpdateWrites(p) \/ UpdateEnds(p)
      BY <1>3, <2>8, UpdateTakesStep, UpdateWritesStep, UpdateEndsStep
    <2> QED  BY <1>3, <2>1, <2>2, <2>3, <2>4, <2>5, <2>6, <2>7, <2>8 DEF Proceeds
  <1> QED  BY <1>1, <1>2, <1>3

\* When the system comes up nothing is in core.
LEMMA Begin == Init => Inv
  <1> SUFFICES ASSUME Init PROVE Inv
    OBVIOUS
  <1>0. /\ system \in Systems
        /\ number = [s \in Slot |-> NoIno] /\ flag = [s \in Slot |-> {}]
        /\ count = [s \in Slot |-> 0] /\ core = [s \in Slot |-> Free]
        /\ entry \in [Name -> Ino \cup {NoIno}] /\ dlock = NoProc
        /\ ilock = FALSE /\ seen = [p \in Proc |-> 0]
        /\ pc = [p \in Proc |-> "user"] /\ call = [p \in Proc |-> "none"]
        /\ name = [p \in Proc |-> NoName] /\ want = [p \in Proc |-> NoIno]
        /\ cur = [p \in Proc |-> 0] /\ linked = [p \in Proc |-> 0]
        /\ after = [p \in Proc |-> "return"]
        /\ files = [p \in Proc |-> <<>>] /\ asleep = [p \in Proc |-> 0]
    BY DEF Init
  <1>s. NOFILE \in Nat \ {0} /\ 0 \notin Slot
    BY <1>0, Sizes DEF Slot
  <1>1. volume \in [Ino -> [mode : BOOLEAN, nlink : Int]]
    <2>1. ASSUME NEW i \in Ino
          PROVE  Cardinality({m \in Name : entry[m] = i}) \in Int
      BY FS_Subset, FS_CardinalityType, InodeAssumption
    <2>2. ASSUME NEW n \in Int
          PROVE  [mode |-> n > 0, nlink |-> n] \in [mode : BOOLEAN, nlink : Int]
      OBVIOUS
    <2>3. volume = [i \in Ino |-> LET n == Cardinality({m \in Name : entry[m] = i})
                                  IN  [mode |-> n > 0, nlink |-> n]]
      BY DEF Init
    <2> QED  BY <2>1, <2>2, <2>3
  <1>2. spare \in Seq(Ino)
    BY SparesAre DEF Init
  <1>3. Typed
    <2>1. seen \in [Proc -> 0 .. Len(Ilist)]
      BY <1>0, IlistIs
    <2>2. core \in [Slot -> [mode : BOOLEAN, nlink : Int]]
      BY <1>0 DEF Free
    <2>3. files \in [Proc -> Seq(Slot)] /\ \A p \in Proc : Len(files[p]) <= NOFILE
      BY <1>0, <1>s
    <2>4. TypeOK
      BY <1>0, <1>1, <1>2, <2>1, <2>2, <2>3 DEF TypeOK
    <2> QED  BY <2>3, <2>4 DEF Typed
  <1>4. Places
    <2> SUFFICES ASSUME NEW p \in Proc PROVE PlaceOf(p)
      BY DEF Places
    <2> QED  BY <1>0, InodeAssumption DEF PlaceOf, Works, Refers, Linking, Putting
  <1>5. CountsReferences
    <2>1. OneCopy
      BY <1>0, <1>3 DEF OneCopy, Typed
    <2> SUFFICES ASSUME NEW s \in Slot PROVE References(s) = 0
      BY <2>1, <1>0 DEF CountsReferences
    <2>2. Workers(s) = {}
      BY <1>0 DEF Workers, RefersTo, Refers
    <2>3. Linkers(s) = {}
      BY <1>0, <1>s DEF Linkers
    <2>4. Opened(s) = {}
      BY <1>0 DEF Opened
    <2> QED  BY <2>2, <2>3, <2>4, <1>0, Finite, FS_EmptySet
  <1>6. LastOne /\ LockHasWorker /\ SleepersKnown /\ SearchOn /\ WorkersLock
    BY <1>0 DEF LastOne, LockHasWorker, SleepersKnown, SearchOn, WorkersLock, Locked, Works,
       Refers
  <1> QED  BY <1>3, <1>4, <1>5, <1>6 DEF Inv

\* Nothing happens.
LEMMA Stutter ==
    ASSUME Inv, UNCHANGED vars
    PROVE  Inv'
  <1>0. /\ Typed /\ Places /\ CountsReferences /\ LastOne /\ LockHasWorker
        /\ SleepersKnown /\ SearchOn /\ WorkersLock
    BY DEF Inv
  <1>a. /\ UNCHANGED <<system, number, flag, count, core, volume, spare, entry, dlock>>
        /\ UNCHANGED <<ilock, seen, call, name, want, linked, after, pc, cur, files, asleep>>
    BY DEF vars, table, fs, search, args
  <1>c. Slot' = Slot /\ NOFILE' = NOFILE /\ Calls' = Calls /\ Fails' = Fails
    BY <1>a, SameSizes
  <1>1. Typed'
    BY <1>0, <1>a, <1>c DEF Typed, TypeOK
  <1>2. Places'
    BY <1>0, <1>a DEF Places, PlaceOf, Works, Refers
  <1>3. CountsReferences'
    <2>1. PICK p \in Proc : TRUE
      BY InodeAssumption
    <2>2. Others(p)
      BY <1>a DEF Others, Keeps
    <2>3. OneCopy'
      BY <1>0, <1>1, <1>a, <1>c DEF CountsReferences, OneCopy, Typed
    <2>4. CountsOwn(p)
      <3> SUFFICES ASSUME NEW s \in Slot
                   PROVE  count'[s] = count[s] - One(RefersTo(p, s)) + One(RefersTo(p, s)')
                                               - One(linked[p] = s) + One(linked'[p] = s)
        BY <1>a DEF CountsOwn
      <3>1. count[s] \in Nat /\ count'[s] = count[s] /\ linked'[p] = linked[p]
        BY <1>0, <1>a DEF Typed, TypeOK
      <3>2. RefersTo(p, s)' <=> RefersTo(p, s)
        BY <1>a DEF RefersTo, Refers
      <3> HIDE DEF RefersTo
      <3> QED  BY <3>1, <3>2 DEF One
    <2> QED  BY <1>0, <2>2, <2>3, <2>4, Recounted
  <1>4. LastOne' /\ LockHasWorker' /\ SleepersKnown' /\ SearchOn' /\ WorkersLock'
    BY <1>0, <1>a, <1>c DEF LastOne, LockHasWorker, SleepersKnown, SearchOn, WorkersLock,
       Locked, Works, Refers
  <1> QED  BY <1>1, <1>2, <1>3, <1>4 DEF Inv

\* The invariant is inductive.
LEMMA Inductive == IInv /\ [Next]_vars => IInv'
  <1> SUFFICES ASSUME IInv, [Next]_vars, ("pipe" \notin Calls)' PROVE Inv'
    BY DEF IInv
  <1>1. system' = system
    BY DEF Next, vars
  <1>2. "pipe" \notin Calls /\ Inv
    BY <1>1 DEF Calls, IInv
  <1>3. CASE Next
    <2>1. PICK p \in Proc : Searches(p) \/ ((Enters(p) \/ Proceeds(p)) /\ UNCHANGED search)
      BY <1>3 DEF Next
    <2>2. StepOf(p)
      BY <1>1, <1>2, <2>1, ProcessStep
    <2> QED  BY <1>2, <2>2, StepKeeps
  <1>4. CASE UNCHANGED vars
    BY <1>2, <1>4, Stutter
  <1> QED  BY <1>3, <1>4

\* The invariant holds at all times, in every system without pipe.
THEOREM Invariance == Spec => []IInv
  <1>1. Init => IInv
    BY Begin DEF IInv
  <1> QED  BY <1>1, Inductive, PTL DEF Spec

\* i_count is the number of references, files and processes in the middle of a
\* call, and no inode is twice in core, in every system without pipe.
THEOREM CountsStayExact == Spec => []("pipe" \notin Calls => CountsReferences)
  <1>1. IInv => ("pipe" \notin Calls => CountsReferences)
    BY DEF IInv, Inv
  <1> QED  BY <1>1, Invariance, PTL

\* Who works on an inode does not wait.
LEMMA WorkersGoOn ==
    ASSUME Inv, NEW q \in Proc, Works(q) \/ pc[q] \in {"ilist", "iend"}
    PROVE  ~ Waits(q)
  <1>1. PlaceOf(q)
    BY DEF Inv, Places
  <1> QED  BY <1>1 DEF PlaceOf, Waits, Works, Refers

\* Somebody can go on: who sleeps for an inode waits for one that works on it,
\* and who waits for the directory for one that does not.
LEMMA SomebodyGoesOn ==
    ASSUME Inv
    PROVE  NoEmbrace
  <1>0. /\ Typed /\ LockHasWorker /\ SearchOn /\ \A q \in Proc : PlaceOf(q)
    BY DEF Inv, Places
  <1>1. ASSUME NEW q \in Proc, asleep[q] # 0 \/ pc[q] = "iwait"
        PROVE  NoEmbrace
    <2>1. CASE asleep[q] # 0
      <3>1. \E r \in Proc : cur[r] = asleep[q] /\ Works(r)
        BY <2>1, <1>0, SleepersCounted DEF LockHasWorker
      <3> QED  BY <3>1, WorkersGoOn DEF NoEmbrace
    <2>2. CASE pc[q] = "iwait"
      <3>1. \E r \in Proc : pc[r] \in {"ilist", "iend"}
        BY <2>2, <1>0 DEF SearchOn
      <3> QED  BY <3>1, WorkersGoOn DEF NoEmbrace
    <2> QED  BY <1>1, <2>1, <2>2
  <1>2. ASSUME NEW q \in Proc, pc[q] = "namei", dlock # NoProc
        PROVE  NoEmbrace
    <2>1. dlock \in Proc
      BY <1>0, <1>2 DEF Typed, TypeOK
    <2>2. call[dlock] \in {"creat", "unlink"} \/ pc[dlock] = "wdir"
      BY <1>0, <2>1 DEF PlaceOf
    <2>3. pc[dlock] # "namei"
      BY <1>0, <2>1, <2>2 DEF PlaceOf
    <2> QED  BY <2>1, <2>3, <1>1 DEF NoEmbrace, Waits
  <1>3. PICK p \in Proc : TRUE
    BY InodeAssumption
  <1> QED  BY <1>1, <1>2, <1>3 DEF NoEmbrace, Waits

\* Who works on an inode has it locked, alone, but for link.
LEMMA OwnersOfLocks ==
    ASSUME Inv
    PROVE  LockKept
  <1> SUFFICES ASSUME "link" \notin Calls, NEW s \in Slot
               PROVE  Cardinality(Holders(s)) = IF Locked(s) THEN 1 ELSE 0
    BY DEF LockKept, LockHasOneOwner
  <1>0. /\ \A p \in Proc : Works(p) => Locked(cur[p])
        /\ \A p, q \in Proc : Works(p) /\ Works(q) /\ cur[p] = cur[q] => p = q
        /\ LockHasWorker
    BY DEF Inv, WorkersLock
  <1>1. \A p \in Proc : Holds(p) <=> Works(p)
    <2> SUFFICES ASSUME NEW p \in Proc PROVE Holds(p) <=> Works(p)
      OBVIOUS
    <2>1. call[p] # "link"
      BY DEF Inv, Typed, TypeOK
    <2> QED  BY <2>1 DEF Holds, Works, Refers
  <1>2. CASE Locked(s)
    <2>1. PICK p \in Proc : cur[p] = s /\ Works(p)
      BY <1>0, <1>2 DEF LockHasWorker
    <2>2. Holders(s) = {p}
      BY <1>0, <1>1, <2>1 DEF Holders
    <2> QED  BY <1>2, <2>2, FS_Singleton
  <1>3. CASE ~ Locked(s)
    <2>1. Holders(s) = {}
      BY <1>0, <1>1, <1>3 DEF Holders
    <2> QED  BY <1>3, <2>1, FS_EmptySet
  <1> QED  BY <1>2, <1>3

\* The lock of an inode has one owner, who waits for it or for a search will be
\* woken, and never does everybody wait, in every system without pipe.
THEOREM LocksAlwaysWork == Spec => []("pipe" \notin Calls => LocksWork)
  <1>1. IInv => ("pipe" \notin Calls => LocksWork)
    <2> SUFFICES ASSUME Inv PROVE LocksWork
      BY DEF IInv
    <2>1. NoLostWakeup
      BY DEF Inv, SleepersKnown, SearchOn, NoLostWakeup
    <2> QED  BY <2>1, SomebodyGoesOn, OwnersOfLocks DEF LocksWork
  <1> QED  BY <1>1, Invariance, PTL
=============================================================================
