------------------------ MODULE BufferCache_proofs ------------------------
(***************************************************************************)
(* Proofs about BufferCache: the inductive invariant BInv, what follows    *)
(* from it (CacheAccounted, CacheWakesSleepers), and the refinement of     *)
(* BlockStore (CacheImplementsStore).  Actions that do the same to the     *)
(* buffers share a lemma; every action of Next then has one of its own.    *)
(***************************************************************************)
EXTENDS BufferCache, SequenceTheorems, FiniteSetTheorems, TLAPS

-----------------------------------------------------------------------------
(* The available list, as a sequence.                                      *)

Elems(s) == {s[i] : i \in DOMAIN s}
NoDup(s) == \A i, j \in DOMAIN s : s[i] = s[j] => i = j

\* Taking the element at i out of a list leaves the others, in order.
LEMMA RemoveAtElems ==
    ASSUME NEW s \in Seq(Buf), NoDup(s), NEW i \in DOMAIN s
    PROVE  /\ RemoveAt(s, i) \in Seq(Buf) /\ NoDup(RemoveAt(s, i))
           /\ Elems(RemoveAt(s, i)) = Elems(s) \ {s[i]}
  <1> DEFINE a == SubSeq(s, 1, i - 1)
             b == SubSeq(s, i + 1, Len(s))
             t == a \o b
  <1>0. Len(s) \in Nat /\ DOMAIN s = 1 .. Len(s) /\ i \in 1 .. Len(s)
    OBVIOUS
  <1>1. a \in Seq(Buf) /\ Len(a) = i - 1 /\ \A j \in 1 .. i - 1 : a[j] = s[j]
    BY <1>0
  <1>2. /\ b \in Seq(Buf) /\ Len(b) = Len(s) - i
        /\ \A j \in 1 .. Len(s) - i : b[j] = s[i + j]
    BY <1>0
  <1> HIDE DEF a, b
  <1>c. /\ t \in Seq(Buf) /\ Len(t) = Len(a) + Len(b)
        /\ \A j \in 1 .. Len(a) + Len(b) : t[j] = IF j <= Len(a) THEN a[j] ELSE b[j - Len(a)]
    BY <1>1, <1>2, ConcatProperties
  <1> HIDE DEF t
  <1>3. t \in Seq(Buf) /\ Len(t) = Len(s) - 1
    BY <1>0, <1>1, <1>2, <1>c
  <1>4. \A j \in 1 .. Len(s) - 1 : t[j] = IF j < i THEN s[j] ELSE s[j + 1]
    <2> TAKE j \in 1 .. Len(s) - 1
    <2>1. Len(a) + Len(b) = Len(s) - 1
      BY <1>0, <1>1, <1>2
    <2>2. t[j] = IF j <= Len(a) THEN a[j] ELSE b[j - Len(a)]
      BY <2>1, <1>c
    <2>3. CASE j < i
      BY <1>1, <2>2, <2>3
    <2>4. CASE ~ (j < i)
      <3>1. j - (i - 1) \in 1 .. Len(s) - i /\ i + (j - (i - 1)) = j + 1
        BY <1>0, <2>4
      <3> QED  BY <1>1, <1>2, <2>2, <2>4, <3>1
    <2> QED  BY <2>3, <2>4
  <1>5. DOMAIN t = 1 .. Len(s) - 1
    BY <1>3
  <1>6. NoDup(t)
    <2>1. ASSUME NEW j \in 1 .. Len(s) - 1
          PROVE  \E m \in DOMAIN s : /\ t[j] = s[m]
                                     /\ (j < i /\ m = j) \/ (j >= i /\ m = j + 1)
      <3>1. CASE j < i
        BY <1>0, <1>4, <3>1
      <3>2. CASE j >= i
        <4>1. j + 1 \in DOMAIN s /\ ~ (j < i)
          BY <1>0, <3>2
        <4> QED  BY <1>4, <3>2, <4>1
      <3> QED  BY <1>0, <3>1, <3>2
    <2>2. ASSUME NEW j \in 1 .. Len(s) - 1, NEW k \in 1 .. Len(s) - 1, t[j] = t[k]
          PROVE  j = k
      <3>1. PICK m \in DOMAIN s : /\ t[j] = s[m]
                                  /\ (j < i /\ m = j) \/ (j >= i /\ m = j + 1)
        BY <2>1
      <3>2. PICK n \in DOMAIN s : /\ t[k] = s[n]
                                  /\ (k < i /\ n = k) \/ (k >= i /\ n = k + 1)
        BY <2>1
      <3>3. s[m] = s[n]
        BY <2>2, <3>1, <3>2
      <3>4. m = n
        BY <3>3 DEF NoDup
      <3> QED  BY <1>0, <3>1, <3>2, <3>4
    <2> QED  BY <1>5, <2>2 DEF NoDup
  <1>7. Elems(t) = Elems(s) \ {s[i]}
    <2>1. ASSUME NEW x \in Elems(t) PROVE x \in Elems(s) \ {s[i]}
      <3>1. PICK j \in 1 .. Len(s) - 1 : x = t[j]
        BY <1>5 DEF Elems
      <3>2. CASE j < i
        <4>1. j \in DOMAIN s /\ x = s[j] /\ j # i
          BY <1>0, <1>4, <3>1, <3>2
        <4> QED  BY <1>0, <4>1 DEF NoDup, Elems
      <3>3. CASE ~ (j < i)
        <4>1. j + 1 \in DOMAIN s /\ x = s[j + 1] /\ j + 1 # i
          BY <1>0, <1>4, <3>1, <3>3
        <4> QED  BY <1>0, <4>1 DEF NoDup, Elems
      <3> QED  BY <3>2, <3>3
    <2>2. ASSUME NEW x \in Elems(s) \ {s[i]} PROVE x \in Elems(t)
      <3>1. PICK k \in 1 .. Len(s) : s[k] = x /\ k # i
        BY <1>0 DEF Elems
      <3>2. CASE k < i
        <4>1. k \in 1 .. Len(s) - 1 /\ t[k] = x
          BY <1>0, <1>4, <3>1, <3>2
        <4> QED  BY <1>5, <4>1 DEF Elems
      <3>3. CASE k > i
        <4>1. k - 1 \in 1 .. Len(s) - 1 /\ t[k - 1] = x
          BY <1>0, <1>4, <3>1, <3>3
        <4> QED  BY <1>5, <4>1 DEF Elems
      <3> QED  BY <1>0, <3>1, <3>2, <3>3
    <2> QED  BY <2>1, <2>2
  <1> QED  BY <1>3, <1>6, <1>7 DEF RemoveAt, t, a, b

\* A new element goes to either end.
LEMMA AddElems ==
    ASSUME NEW s \in Seq(Buf), NoDup(s), NEW b \in Buf, b \notin Elems(s),
           NEW t, t \in {Append(s, b), <<b>> \o s}
    PROVE  /\ t \in Seq(Buf) /\ NoDup(t) /\ Elems(t) = Elems(s) \cup {b}
           /\ t # <<>>
  <1>0. Len(s) \in Nat /\ DOMAIN s = 1 .. Len(s)
    OBVIOUS
  <1>1. CASE t = Append(s, b)
    <2>1. /\ t \in Seq(Buf) /\ DOMAIN t = 1 .. Len(s) + 1 /\ t # <<>>
          /\ t[Len(s) + 1] = b /\ \A j \in 1 .. Len(s) : t[j] = s[j]
      BY <1>1
    <2>2. NoDup(t)
      BY <1>0, <2>1 DEF NoDup, Elems
    <2>3. Elems(t) = Elems(s) \cup {b}
      <3>1. ASSUME NEW x \in Elems(t) PROVE x \in Elems(s) \cup {b}
        BY <1>0, <2>1 DEF Elems
      <3>2. Len(s) + 1 \in DOMAIN t /\ \A j \in DOMAIN s : j \in DOMAIN t /\ t[j] = s[j]
        BY <1>0, <2>1
      <3> QED  BY <2>1, <3>1, <3>2 DEF Elems
    <2> QED  BY <2>1, <2>2, <2>3
  <1>2. CASE t = <<b>> \o s
    <2>0. <<b>> \in Seq(Buf) /\ Len(<<b>>) = 1 /\ <<b>>[1] = b
      OBVIOUS
    <2>1. t \in Seq(Buf) /\ Len(t) = Len(s) + 1
      BY <1>0, <1>2, <2>0, ConcatProperties
    <2>c. \A j \in 1 .. 1 + Len(s) : t[j] = IF j <= 1 THEN b ELSE s[j - 1]
      BY <1>0, <1>2, <2>0, ConcatProperties
    <2>2. t[1] = b /\ \A j \in 1 .. Len(s) : t[j + 1] = s[j]
      <3>1. t[1] = b
        BY <1>0, <2>c
      <3>2. ASSUME NEW j \in 1 .. Len(s) PROVE t[j + 1] = s[j]
        <4>1. j + 1 \in 1 .. 1 + Len(s) /\ ~ (j + 1 <= 1) /\ j + 1 - 1 = j
          BY <1>0
        <4> QED  BY <2>c, <4>1
      <3> QED  BY <3>1, <3>2
    <2>3. DOMAIN t = 1 .. Len(s) + 1 /\ t # <<>>
      BY <1>0, <2>1
    <2>i. \A i \in DOMAIN t : i = 1 \/ (i - 1 \in DOMAIN s /\ t[i] = s[i - 1])
      <3> TAKE i \in DOMAIN t
      <3>1. i = 1 \/ (i - 1 \in 1 .. Len(s) /\ (i - 1) + 1 = i)
        BY <1>0, <2>3
      <3> QED  BY <1>0, <2>2, <3>1
    <2>4. NoDup(t)
      BY <1>0, <2>2, <2>3, <2>i DEF NoDup, Elems
    <2>5. Elems(t) = Elems(s) \cup {b}
      <3>1. ASSUME NEW x \in Elems(t) PROVE x \in Elems(s) \cup {b}
        <4>1. PICK i \in DOMAIN t : x = t[i]
          BY DEF Elems
        <4>2. x = b \/ \E j \in DOMAIN s : x = s[j]
          BY <2>2, <2>i, <4>1
        <4> QED  BY <4>2 DEF Elems
      <3>2. b \in Elems(t)
        BY <1>0, <2>2, <2>3 DEF Elems
      <3>3. ASSUME NEW x \in Elems(s) PROVE x \in Elems(t)
        <4>1. PICK j \in 1 .. Len(s) : x = s[j]
          BY <1>0 DEF Elems
        <4>2. j + 1 \in DOMAIN t /\ x = t[j + 1]
          BY <1>0, <2>2, <2>3, <4>1
        <4> QED  BY <4>2 DEF Elems
      <3> QED  BY <3>1, <3>2, <3>3
    <2> QED  BY <2>1, <2>3, <2>4, <2>5
  <1> QED  BY <1>1, <1>2

-----------------------------------------------------------------------------
(* The inductive invariant.                                                *)

\* The places of a process that asks for no block and has none.
Outside == {"idle", "bflush", "ageBflush", "ageCaller"}

\* A process is inside getblk, for the block or for the one after it.
Searching == {"getblk", "found", "ageGetblk", "got"}

\* Where a process stands, what it asks for and which buffers it points to.
Places == \A p \in Proc :
    /\ IF pc[p] \in Outside THEN ret[p] = "getblk" /\ bp[p] = NoBuf
                            ELSE want[p] = NoBlock <=> ret[p] = "geteblk"
    /\ ret[p] = "ahead" /\ pc[p] \in Searching => ahead[p] \in Block
    /\ pc[p] \in {"ahead", "finish"} => ret[p] \in {"breada", "ahead"}
    /\ bp[p] # NoBuf /\ pc[p] \in {"getblk", "found", "ageGetblk"} => ret[p] = "ahead"
    /\ pc[p] = "found" => ret[p] # "geteblk"
    /\ pc[p] = "got" /\ ret[p] # "ahead" => bp[p] # NoBuf
    /\ pc[p] \in {"iowait", "held", "bwrite", "trap"} => bp[p] # NoBuf
    /\ pc[p] \in {"found", "ageGetblk", "ageBflush", "ageCaller"} => bq[p] # NoBuf
    /\ pc[p] = "got" => (bq[p] # NoBuf <=> ret[p] = "ahead")
    /\ pc[p] \notin {"found", "ageGetblk", "ageBflush", "ageCaller", "got"} => bq[p] = NoBuf

\* p has b, or is about to begin the read-ahead into it.
Owns(p, b) == bp[p] = b \/ (pc[p] = "got" /\ bq[p] = b)

\* A buffer has one owner, who has it once.
OneOwner ==
    /\ \A p, q \in Proc : \A b \in Buf : Owns(p, b) /\ Owns(q, b) => p = q
    /\ \A p \in Proc : pc[p] = "got" /\ bp[p] # NoBuf => bp[p] # bq[p]

\* b is for block k, or for none after a transfer that failed.
For(b, k) == blk[b] = k \/ (blk[b] = NoBlock /\ "ERROR" \in flags[b])

\* What is owned stays busy and for the block that was asked for.
OwnedIsBusy ==
    /\ \A p \in Proc : \A b \in Buf : Owns(p, b) => "BUSY" \in flags[b] /\ "ASYNC" \notin flags[b]
    /\ \A p \in Proc : bp[p] # NoBuf => For(bp[p], want[p])
    /\ \A p \in Proc : pc[p] = "got" /\ ret[p] = "ahead" => For(bq[p], ahead[p])

\* What the search of getblk has found, nobody but an interrupt has touched.
SearchSound == \A p \in Proc : pc[p] = "found" => cpu = p /\ For(bq[p], Target(p))

\* The available list has the buffers that are not busy, each once.
ListSound ==
    /\ NoDup(free)
    /\ \A b \in Buf : "BUSY" \in flags[b] <=> b \notin Elems(free)

\* A busy buffer is in transfer or somebody's.
NoLeak == \A b \in Buf : "BUSY" \in flags[b] => b \in io \/ \E p \in Proc : Owns(p, b)

\* Nobody has asked for a buffer's contents, or changed them, before its
\* transfer is over.
Transfers == \A p \in Proc :
    /\ bp[p] # NoBuf =>
         IF pc[p] \in {"held", "trap"} \/ (pc[p] = "got" /\ ret[p] # "ahead")
         THEN bp[p] \notin io
         ELSE bp[p] \in io \/ "DONE" \in flags[bp[p]]
    /\ pc[p] = "got" => bq[p] \notin io
    /\ chan[p] # NoChan /\ pc[p] \in {"iowait", "bwrite"} => chan[p] = bp[p]

\* A buffer in transfer is busy, with its outcome cleared, and has a process
\* that waits for it unless the transfer is asynchronous.
InTransfer == \A b \in io :
    /\ "BUSY" \in flags[b]
    /\ "DONE" \notin flags[b] /\ "DELWRI" \notin flags[b] /\ "ERROR" \notin flags[b]
    /\ blk[b] \in Block
    /\ "READ" \notin flags[b] => data[b] \in Val
    /\ "ASYNC" \notin flags[b] => \E p \in Proc : bp[p] = b

\* What the flags of a buffer say of its contents.
Contents == \A b \in Buf :
    /\ "ASYNC" \in flags[b] => b \in io
    /\ "ERROR" \in flags[b] => "DONE" \in flags[b] /\ ("BUSY" \notin flags[b] => blk[b] = NoBlock)
    /\ "DELWRI" \in flags[b] => /\ "DONE" \in flags[b] /\ "ERROR" \notin flags[b]
                                /\ data[b] \in Val /\ blk[b] \in Block
    /\ /\ b \notin io /\ blk[b] # NoBlock
       /\ "DONE" \in flags[b] /\ "DELWRI" \notin flags[b] /\ "ERROR" \notin flags[b]
       => data[b] = disk[blk[b]]

\* A block has one buffer.
OneBuffer == \A b, c \in Buf : blk[b] = blk[c] /\ blk[b] # NoBlock => b = c

BInv == /\ TypeOK /\ ListSound /\ NoLeak /\ OneBuffer /\ OneOwner /\ OwnedIsBusy
        /\ NoLostWakeup /\ Places /\ Transfers /\ InTransfer /\ Contents

-----------------------------------------------------------------------------
(* What the routines do to the buffers.                                    *)

\* Where the places after an asynchronous write lead.
LEMMA AfterAgeIs ==
    /\ DOMAIN AfterAge = {"ageGetblk", "ageBflush", "ageCaller"}
    /\ AfterAge["ageGetblk"] = "getblk" /\ AfterAge["ageBflush"] = "bflush"
    /\ AfterAge["ageCaller"] = "idle"
  BY DEF AfterAge

\* A buffer that is not busy is taken off the list.
LEMMA TakenOff ==
    ASSUME BInv, NEW b \in Buf, "BUSY" \notin flags[b]
    PROVE  /\ Without(b) \in Seq(Buf) /\ NoDup(Without(b))
           /\ Elems(Without(b)) = Elems(free) \ {b} /\ free # <<>>
  <1> DEFINE k == CHOOSE i \in DOMAIN free : free[i] = b
  <1>1. free \in Seq(Buf) /\ NoDup(free) /\ b \in Elems(free)
    BY DEF BInv, TypeOK, ListSound
  <1>2. k \in DOMAIN free /\ free[k] = b
    BY <1>1 DEF Elems
  <1> HIDE DEF k
  <1>3. RemoveAt(free, k) \in Seq(Buf) /\ NoDup(RemoveAt(free, k))
        /\ Elems(RemoveAt(free, k)) = Elems(free) \ {b}
    BY <1>1, <1>2, RemoveAtElems
  <1>4. free # <<>>
    BY <1>1, <1>2
  <1> QED  BY <1>3, <1>4 DEF Without, k

\* The oldest buffer is one that is not busy.
LEMMA OldestIsFree ==
    ASSUME BInv, free # <<>>
    PROVE  Oldest \in Buf /\ "BUSY" \notin flags[Oldest]
  <1>1. free \in Seq(Buf) /\ Oldest = free[1] /\ 1 \in DOMAIN free
    BY DEF BInv, TypeOK, Oldest
  <1>2. Oldest \in Elems(free) /\ Oldest \in Buf
    BY <1>1 DEF Elems
  <1> QED  BY <1>2 DEF BInv, ListSound

\* brelse puts a busy buffer on the list and wakes those who wait for it or
\* for any.
LEMMA BrelseEffect ==
    ASSUME BInv, NEW b \in Buf, "BUSY" \in flags[b],
           NEW f \in SUBSET Flag, "WANTED" \in f <=> "WANTED" \in flags[b],
           Brelse(b, f)
    PROVE  /\ free' \in Seq(Buf) /\ NoDup(free') /\ Elems(free') = Elems(free) \cup {b}
           /\ flags' \in [Buf -> SUBSET Flag] /\ blk' \in [Buf -> Block \cup {NoBlock}]
           /\ \A c \in Buf : c # b => flags'[c] = flags[c] /\ blk'[c] = blk[c]
           /\ flags'[b] = f \ {"WANTED", "BUSY", "ASYNC", "AGE"}
           /\ blk'[b] = IF "ERROR" \in f THEN NoBlock ELSE blk[b]
           /\ freeWanted' = FALSE
           /\ chan' \in [Proc -> Buf \cup {NoChan, FreeList}]
           /\ \A q \in Proc : chan'[q] # NoChan =>
                /\ chan'[q] = chan[q] /\ chan[q] # FreeList
                /\ chan[q] = b => pc[q] # "getblk"
  <1> USE DEF BInv
  <1>1. free \in Seq(Buf) /\ NoDup(free) /\ b \notin Elems(free)
    BY DEF TypeOK, ListSound
  <1>2. free' \in Seq(Buf) /\ NoDup(free') /\ Elems(free') = Elems(free) \cup {b}
    <2>1. free' \in {Append(free, b), <<b>> \o free}
      BY DEF Brelse
    <2> QED  BY <1>1, <2>1, AddElems
  <1>3. /\ flags' \in [Buf -> SUBSET Flag]
        /\ \A c \in Buf : c # b => flags'[c] = flags[c]
        /\ flags'[b] = f \ {"WANTED", "BUSY", "ASYNC", "AGE"}
    <2>1. flags' = [flags EXCEPT ![b] = f \ {"WANTED", "BUSY", "ASYNC", "AGE"}]
      BY DEF Brelse, Released
    <2> QED  BY <2>1 DEF TypeOK
  <1>4. /\ blk' \in [Buf -> Block \cup {NoBlock}]
        /\ \A c \in Buf : c # b => blk'[c] = blk[c]
        /\ blk'[b] = IF "ERROR" \in f THEN NoBlock ELSE blk[b]
    BY DEF Brelse, KnownBlock, TypeOK
  <1>5. freeWanted' = FALSE /\ chan' \in [Proc -> Buf \cup {NoChan, FreeList}]
    BY DEF Brelse, Awakened, TypeOK
  <1>6. ASSUME NEW q \in Proc, chan'[q] # NoChan
        PROVE  chan'[q] = chan[q] /\ chan[q] # FreeList /\ (chan[q] = b => pc[q] # "getblk")
    <2>1. chan'[q] = chan[q] /\ chan[q] \notin Wakes(b, f)
      BY <1>6 DEF Brelse, Awakened
    <2>2. chan[q] # FreeList
      <3>1. freeWanted => FreeList \in Wakes(b, f)
        BY BufferCacheAssumption DEF Wakes
      <3>2. chan[q] = FreeList => freeWanted
        BY <1>6, <2>1, BufferCacheAssumption DEF NoLostWakeup, TypeOK
      <3> QED  BY <2>1, <3>1, <3>2
    <2>3. chan[q] = b => pc[q] # "getblk"
      BY <1>6, <2>1, BufferCacheAssumption DEF Wakes, NoLostWakeup
    <2> QED  BY <2>1, <2>2, <2>3
  <1> QED  BY <1>2, <1>3, <1>4, <1>5, <1>6

-----------------------------------------------------------------------------
(* Steps that leave the buffers alone.                                     *)

\* What such a step keeps without more ado.
LEMMA BuffersAlone ==
    ASSUME BInv, UNCHANGED <<flags, blk, data, free, io, disk, bp, bq>>,
           \A q \in Proc :
              /\ pc'[q] = "got" => pc[q] = "got"
              /\ pc[q] = "got" /\ pc'[q] # "got" => bq[q] = NoBuf
              /\ bp[q] # NoBuf => want'[q] = want[q]
              /\ pc'[q] = "got" => ret'[q] = ret[q] /\ ahead'[q] = ahead[q]
    PROVE  /\ ListSound' /\ NoLeak' /\ OneBuffer' /\ OneOwner' /\ OwnedIsBusy'
           /\ InTransfer' /\ Contents'
  <1> USE BufferCacheAssumption DEF BInv
  <1>1. ASSUME NEW q \in Proc, NEW b \in Buf PROVE Owns(q, b)' <=> Owns(q, b)
    <2>1. pc[q] = "got" /\ pc'[q] # "got" => bq[q] # b
      OBVIOUS
    <2>2. pc'[q] = "got" => pc[q] = "got"
      OBVIOUS
    <2>3. bp' = bp /\ bq' = bq
      OBVIOUS
    <2> HIDE DEF BInv
    <2> QED  BY <2>1, <2>2, <2>3 DEF Owns
  <1>2. ListSound' /\ OneBuffer'
    BY DEF ListSound, OneBuffer
  <1>3. NoLeak'
    BY <1>1 DEF NoLeak
  <1>4. OneOwner'
    <2>1. \A q \in Proc : pc'[q] = "got" => pc[q] = "got"
      OBVIOUS
    <2> QED  BY <1>1, <2>1 DEF OneOwner
  <1>5. OwnedIsBusy'
    <2>1. ASSUME NEW q \in Proc, bp'[q] # NoBuf PROVE For(bp[q], want[q])'
      BY <2>1 DEF For, OwnedIsBusy
    <2>2. ASSUME NEW q \in Proc, pc'[q] = "got", ret'[q] = "ahead"
          PROVE  For(bq[q], ahead[q])'
      BY <2>2 DEF For, OwnedIsBusy
    <2> QED  BY <1>1, <2>1, <2>2 DEF For, OwnedIsBusy
  <1>6. InTransfer' /\ Contents'
    BY DEF InTransfer, Contents
  <1> QED  BY <1>2, <1>3, <1>4, <1>5, <1>6

\* getblk, bread and geteblk are called.
LEMMA CallGetblkInv ==
    ASSUME BInv, NEW p \in Proc, NEW r \in {"getblk", "bread", "geteblk"},
           NEW k \in Block \cup {NoBlock}, r = "geteblk" <=> k = NoBlock, CallGetblk(p, r, k)
    PROVE  BInv'
  <1> USE BufferCacheAssumption DEF BInv
  <1>f. /\ ListSound' /\ NoLeak' /\ OneBuffer' /\ OneOwner' /\ OwnedIsBusy'
        /\ InTransfer' /\ Contents'
    BY BuffersAlone DEF At, CallGetblk, Goto, Outside, Places, Runs, TypeOK, bufVars
  <1>1. TypeOK'
    BY DEF At, CallGetblk, Goto, Place, Runs, TypeOK, bufVars
  <1>2. NoLostWakeup'
    BY DEF At, CallGetblk, Goto, NoLostWakeup, Runs, Transfers, TypeOK, bufVars
  <1>3. Places'
    BY DEF At, CallGetblk, Goto, Outside, Places, Runs, Searching, TypeOK, bufVars
  <1>4. Transfers'
    BY DEF At, CallGetblk, Goto, OneOwner, Owns, Places, Runs, Transfers, TypeOK, bufVars
  <1> QED  BY <1>f, <1>1, <1>2, <1>3, <1>4

\* breada is called.
LEMMA BreadaInv ==
    ASSUME BInv, NEW p \in Proc, Breada(p)
    PROVE  BInv'
  <1> USE BufferCacheAssumption DEF BInv
  <1>f. /\ ListSound' /\ NoLeak' /\ OneBuffer' /\ OneOwner' /\ OwnedIsBusy'
        /\ InTransfer' /\ Contents'
    BY BuffersAlone DEF At, Breada, Goto, Outside, Places, Runs, TypeOK, bufVars
  <1>1. TypeOK'
    BY DEF At, Breada, Goto, Place, Runs, TypeOK, bufVars
  <1>2. NoLostWakeup'
    BY DEF At, Breada, Goto, NoLostWakeup, Runs, Transfers, TypeOK, bufVars
  <1>3. Places'
    BY DEF At, Breada, Goto, Outside, Places, Runs, Searching, TypeOK, bufVars
  <1>4. Transfers'
    BY DEF At, Breada, Goto, OneOwner, Owns, Places, Runs, Transfers, TypeOK, bufVars
  <1> QED  BY <1>f, <1>1, <1>2, <1>3, <1>4

\* getblk finds no buffer available and sleeps.
LEMMA GetblkNoneInv ==
    ASSUME BInv, NEW p \in Proc, GetblkNone(p)
    PROVE  BInv'
  <1> USE BufferCacheAssumption DEF BInv
  <1>f. /\ ListSound' /\ NoLeak' /\ OneBuffer' /\ OneOwner' /\ OwnedIsBusy'
        /\ InTransfer' /\ Contents'
    BY BuffersAlone DEF At, GetblkNone, Misses, Places, Runs, SleepOn, TypeOK, callVars
  <1>1. TypeOK'
    BY DEF At, GetblkNone, Misses, Place, Runs, SleepOn, TypeOK, callVars
  <1>2. NoLostWakeup'
    BY DEF At, GetblkNone, Misses, NoLostWakeup, Runs, SleepOn, Transfers, TypeOK, callVars
  <1>3. Places'
    BY DEF At, GetblkNone, Misses, Outside, Places, Runs, Searching, SleepOn, TypeOK, callVars
  <1>4. Transfers'
    BY DEF At, GetblkNone, Misses, OneOwner, Owns, Places, Runs, SleepOn, Transfers,
           TypeOK, callVars
  <1> QED  BY <1>f, <1>1, <1>2, <1>3, <1>4

\* getblk's search finds a buffer for the block.
LEMMA GetblkFindsInv ==
    ASSUME BInv, NEW p \in Proc, GetblkFinds(p)
    PROVE  BInv'
  <1> USE BufferCacheAssumption DEF BInv
  <1>a. PICK b \in Buf :
          /\ Runs(p) /\ pc[p] = "getblk" /\ ret[p] # "geteblk" /\ cpu' = p
          /\ bq' = [bq EXCEPT ![p] = b] /\ pc' = [pc EXCEPT ![p] = "found"]
          /\ UNCHANGED <<flags, blk, data, free, freeWanted, io, disk, ret, want, ahead,
                         bp, chan>>
    BY DEF GetblkFinds, At, Goto, bufVars, callVars
  <1>b. chan[p] = NoChan /\ b # NoBuf
    BY <1>a DEF Runs
  <1>i. \A q \in Proc : IF q = p THEN pc'[q] = "found" /\ bq'[q] = b
                                 ELSE pc'[q] = pc[q] /\ bq'[q] = bq[q]
    BY <1>a DEF TypeOK
  <1>h. \A q \in Proc, c \in Buf : Owns(q, c)' <=> Owns(q, c)
    BY <1>a, <1>i DEF Owns
  <1> HIDE DEF BInv
  <1>1. TypeOK'
    <2>1. pc' \in [Proc -> Place] /\ cpu' \in Proc \cup {NoProc}
      BY <1>a DEF BInv, TypeOK, Place
    <2> QED  BY <1>a, <2>1 DEF BInv, TypeOK
  <1>2. ListSound' /\ OneBuffer' /\ InTransfer' /\ Contents'
    BY <1>a DEF BInv, ListSound, OneBuffer, InTransfer, Contents
  <1>3. NoLeak'
    BY <1>a, <1>h DEF BInv, NoLeak
  <1>4. OneOwner'
    BY <1>a, <1>h, <1>i DEF BInv, OneOwner
  <1>5. OwnedIsBusy'
    BY <1>a, <1>h, <1>i DEF BInv, For, OwnedIsBusy
  <1>6. NoLostWakeup'
    BY <1>a, <1>b, <1>i DEF BInv, NoLostWakeup
  <1>7. Places'
    BY <1>a, <1>b, <1>i DEF BInv, Places, Outside, Searching
  <1>8. Transfers'
    BY <1>a, <1>b, <1>i DEF BInv, Transfers
  <1> QED  BY <1>1, <1>2, <1>3, <1>4, <1>5, <1>6, <1>7, <1>8 DEF BInv

\* An owner writes a buffer that is for no block.
LEMMA TrapInv ==
    ASSUME BInv, NEW p \in Proc, Trap(p)
    PROVE  BInv'
  <1> USE BufferCacheAssumption DEF BInv
  <1>f. /\ ListSound' /\ NoLeak' /\ OneBuffer' /\ OneOwner' /\ OwnedIsBusy'
        /\ InTransfer' /\ Contents'
    BY BuffersAlone DEF At, Goto, Places, Runs, Trap, TypeOK, bufVars, callVars
  <1>1. TypeOK'
    BY DEF At, Goto, Place, Runs, Trap, TypeOK, bufVars, callVars
  <1>2. NoLostWakeup'
    BY DEF At, Goto, NoLostWakeup, Runs, Transfers, Trap, TypeOK, bufVars, callVars
  <1>3. Places'
    BY DEF At, Goto, Outside, Places, Runs, Searching, Trap, TypeOK, bufVars, callVars
  <1>4. Transfers'
    BY DEF At, Goto, OneOwner, Owns, Places, Runs, Transfers, Trap, TypeOK, bufVars, callVars
  <1> QED  BY <1>f, <1>1, <1>2, <1>3, <1>4

\* The caller has its buffer.
LEMMA GotOwnInv ==
    ASSUME BInv, NEW p \in Proc, GotOwn(p)
    PROVE  BInv'
  <1> USE BufferCacheAssumption DEF BInv
  <1>f. /\ ListSound' /\ NoLeak' /\ OneBuffer' /\ OneOwner' /\ OwnedIsBusy'
        /\ InTransfer' /\ Contents'
    BY BuffersAlone DEF At, GotOwn, Own, Places, Runs, TypeOK, bufVars, callVars
  <1>1. TypeOK'
    BY DEF At, GotOwn, Own, Place, Runs, TypeOK, bufVars, callVars
  <1>2. NoLostWakeup'
    BY DEF At, GotOwn, NoLostWakeup, Own, Runs, Transfers, TypeOK, bufVars, callVars
  <1>3. Places'
    BY DEF At, GotOwn, Outside, Own, Places, Runs, Searching, TypeOK, bufVars, callVars
  <1>4. Transfers'
    BY DEF At, GotOwn, OneOwner, Own, Owns, Places, Runs, Transfers, TypeOK, bufVars, callVars
  <1> QED  BY <1>f, <1>1, <1>2, <1>3, <1>4

\* breada finds that the block was read meanwhile.
LEMMA GotCachedInv ==
    ASSUME BInv, NEW p \in Proc, GotCached(p)
    PROVE  BInv'
  <1> USE BufferCacheAssumption DEF BInv
  <1>f. /\ ListSound' /\ NoLeak' /\ OneBuffer' /\ OneOwner' /\ OwnedIsBusy'
        /\ InTransfer' /\ Contents'
    BY BuffersAlone DEF At, Cached, GotCached, Goto, Places, Runs, TypeOK, bufVars, callVars
  <1>1. TypeOK'
    BY DEF At, Cached, GotCached, Goto, Place, Runs, TypeOK, bufVars, callVars
  <1>2. NoLostWakeup'
    BY DEF At, Cached, GotCached, Goto, NoLostWakeup, Runs, Transfers, TypeOK, bufVars,
           callVars
  <1>3. Places'
    BY DEF At, Cached, GotCached, Goto, Outside, Places, Runs, Searching, TypeOK, bufVars,
           callVars
  <1>4. Transfers'
    BY DEF At, Cached, GotCached, Goto, OneOwner, Owns, Places, Runs, Transfers, TypeOK,
           bufVars, callVars
  <1> QED  BY <1>f, <1>1, <1>2, <1>3, <1>4

\* breada looks for the block after the one it was asked for.
LEMMA ReadAheadInv ==
    ASSUME BInv, NEW p \in Proc, ReadAhead(p)
    PROVE  BInv'
  <1> USE BufferCacheAssumption DEF BInv
  <1>f. /\ ListSound' /\ NoLeak' /\ OneBuffer' /\ OneOwner' /\ OwnedIsBusy'
        /\ InTransfer' /\ Contents'
    BY BuffersAlone DEF At, Goto, Places, ReadAhead, Runs, TypeOK, bufVars
  <1>1. TypeOK'
    BY DEF At, Goto, Place, ReadAhead, Runs, TypeOK, bufVars
  <1>2. NoLostWakeup'
    BY DEF At, Goto, NoLostWakeup, ReadAhead, Runs, Transfers, TypeOK, bufVars
  <1>3. Places'
    BY DEF At, Goto, Outside, Places, ReadAhead, Runs, Searching, TypeOK, bufVars
  <1>4. Transfers'
    BY DEF At, Goto, OneOwner, Owns, Places, ReadAhead, Runs, Transfers, TypeOK, bufVars
  <1> QED  BY <1>f, <1>1, <1>2, <1>3, <1>4

\* breada turns to the block it was asked for.
LEMMA BreadaEndInv ==
    ASSUME BInv, NEW p \in Proc, BreadaEnd(p)
    PROVE  BInv'
  <1> USE BufferCacheAssumption DEF BInv
  <1>f. /\ ListSound' /\ NoLeak' /\ OneBuffer' /\ OneOwner' /\ OwnedIsBusy'
        /\ InTransfer' /\ Contents'
    BY BuffersAlone DEF At, BreadaEnd, Goto, Places, Runs, TypeOK, bufVars
  <1>1. TypeOK'
    BY DEF At, BreadaEnd, Goto, Place, Runs, TypeOK, bufVars
  <1>2. NoLostWakeup'
    BY DEF At, BreadaEnd, Goto, NoLostWakeup, Runs, Transfers, TypeOK, bufVars
  <1>3. Places'
    BY DEF At, BreadaEnd, Goto, Outside, Places, Runs, Searching, TypeOK, bufVars
  <1>4. Transfers'
    BY DEF At, BreadaEnd, Goto, OneOwner, Owns, Places, Runs, Transfers, TypeOK, bufVars
  <1> QED  BY <1>f, <1>1, <1>2, <1>3, <1>4

\* iowait sleeps until the transfer is over.
LEMMA IowaitSleepInv ==
    ASSUME BInv, NEW p \in Proc, IowaitSleep(p)
    PROVE  BInv'
  <1> USE BufferCacheAssumption DEF BInv
  <1>f. /\ ListSound' /\ NoLeak' /\ OneBuffer' /\ OneOwner' /\ OwnedIsBusy'
        /\ InTransfer' /\ Contents'
    BY BuffersAlone DEF At, IowaitSleep, Places, Runs, SleepOn, TypeOK, bufVars, callVars
  <1>1. TypeOK'
    BY DEF At, IowaitSleep, Place, Places, Runs, SleepOn, TypeOK, bufVars, callVars
  <1>2. NoLostWakeup'
    BY DEF At, IowaitSleep, NoLostWakeup, Places, Runs, SleepOn, Transfers, TypeOK,
           bufVars, callVars
  <1>3. Places'
    BY DEF At, IowaitSleep, Outside, Places, Runs, Searching, SleepOn, TypeOK, bufVars,
           callVars
  <1>4. Transfers'
    BY DEF At, IowaitSleep, OneOwner, Owns, Places, Runs, SleepOn, Transfers, TypeOK,
           bufVars, callVars
  <1> QED  BY <1>f, <1>1, <1>2, <1>3, <1>4

\* iowait returns to a reader.
LEMMA IowaitReadInv ==
    ASSUME BInv, NEW p \in Proc, IowaitRead(p)
    PROVE  BInv'
  <1> USE BufferCacheAssumption DEF BInv
  <1>f. /\ ListSound' /\ NoLeak' /\ OneBuffer' /\ OneOwner' /\ OwnedIsBusy'
        /\ InTransfer' /\ Contents'
    BY BuffersAlone DEF At, IowaitRead, Own, Places, Runs, TypeOK, bufVars, callVars
  <1>1. TypeOK'
    BY DEF At, IowaitRead, Own, Place, Runs, TypeOK, bufVars, callVars
  <1>2. NoLostWakeup'
    BY DEF At, IowaitRead, NoLostWakeup, Own, Runs, Transfers, TypeOK, bufVars, callVars
  <1>3. Places'
    BY DEF At, IowaitRead, Outside, Own, Places, Runs, Searching, TypeOK, bufVars, callVars
  <1>4. Transfers'
    BY DEF At, InTransfer, IowaitRead, OneOwner, Own, Owns, Places, Runs, Transfers,
           TypeOK, bufVars, callVars
  <1> QED  BY <1>f, <1>1, <1>2, <1>3, <1>4

\* bflush is called.
LEMMA CallBflushInv ==
    ASSUME BInv, NEW p \in Proc, CallBflush(p)
    PROVE  BInv'
  <1> USE BufferCacheAssumption DEF BInv
  <1>f. /\ ListSound' /\ NoLeak' /\ OneBuffer' /\ OneOwner' /\ OwnedIsBusy'
        /\ InTransfer' /\ Contents'
    BY BuffersAlone DEF At, CallBflush, Goto, Places, Runs, TypeOK, bufVars, callVars
  <1>1. TypeOK'
    BY DEF At, CallBflush, Goto, Place, Runs, TypeOK, bufVars, callVars
  <1>2. NoLostWakeup'
    BY DEF At, CallBflush, Goto, NoLostWakeup, Runs, Transfers, TypeOK, bufVars, callVars
  <1>3. Places'
    BY DEF At, CallBflush, Goto, Outside, Places, Runs, Searching, TypeOK, bufVars, callVars
  <1>4. Transfers'
    BY DEF At, CallBflush, Goto, OneOwner, Owns, Places, Runs, Transfers, TypeOK, bufVars,
           callVars
  <1> QED  BY <1>f, <1>1, <1>2, <1>3, <1>4

\* bflush finds no delayed write.
LEMMA BflushEndInv ==
    ASSUME BInv, NEW p \in Proc, BflushEnd(p)
    PROVE  BInv'
  <1> USE BufferCacheAssumption DEF BInv
  <1>f. /\ ListSound' /\ NoLeak' /\ OneBuffer' /\ OneOwner' /\ OwnedIsBusy'
        /\ InTransfer' /\ Contents'
    BY BuffersAlone DEF At, BflushEnd, Delayed, Places, Runs, TypeOK, bufVars, callVars
  <1>1. TypeOK'
    BY DEF At, BflushEnd, Delayed, Place, Runs, TypeOK, bufVars, callVars
  <1>2. NoLostWakeup'
    BY DEF At, BflushEnd, Delayed, NoLostWakeup, Runs, Transfers, TypeOK, bufVars, callVars
  <1>3. Places'
    BY DEF At, BflushEnd, Delayed, Outside, Places, Runs, Searching, TypeOK, bufVars, callVars
  <1>4. Transfers'
    BY DEF At, BflushEnd, Delayed, OneOwner, Owns, Places, Runs, Transfers, TypeOK,
           bufVars, callVars
  <1> QED  BY <1>f, <1>1, <1>2, <1>3, <1>4

-----------------------------------------------------------------------------
(* Steps of getblk and bflush that change a buffer.                        *)

\* getblk finds the buffer busy, marks it wanted and sleeps.
LEMMA GetblkBusyInv ==
    ASSUME BInv, NEW p \in Proc, GetblkBusy(p)
    PROVE  BInv'
  <1> USE BufferCacheAssumption DEF BInv
  <1>p. bq[p] \in Buf
    BY DEF GetblkBusy, At, Places, TypeOK
  <1>a. PICK b \in Buf : b = bq[p]
    BY <1>p
  <1>c. /\ chan' = [chan EXCEPT ![p] = b] /\ chan[p] = NoChan /\ pc[p] = "found"
        /\ pc' = [pc EXCEPT ![p] = "getblk"] /\ bq' = [bq EXCEPT ![p] = NoBuf]
        /\ UNCHANGED <<ret, want, ahead, bp, io, free, freeWanted, blk, data, disk>>
        /\ cpu' = NoProc /\ "BUSY" \in flags[b]
    BY <1>a DEF At, Runs, GetblkBusy, callVars, Busy
  <1>b. /\ flags' \in [Buf -> SUBSET Flag]
        /\ \A c \in Buf, f \in Flag \ {"WANTED"} : f \in flags'[c] <=> f \in flags[c]
        /\ \A c \in Buf : flags[c] \subseteq flags'[c]
        /\ {"BUSY", "WANTED"} \subseteq flags'[b]
    <2>1. flags' = [flags EXCEPT ![b] = flags[b] \cup {"WANTED"}]
      BY <1>a DEF GetblkBusy
    <2> QED  BY <1>c, <2>1 DEF TypeOK, Flag
  <1>f. \A c \in Buf, f \in {"READ", "DONE", "ERROR", "BUSY", "ASYNC", "DELWRI"} :
           f \in flags'[c] <=> f \in flags[c]
    BY <1>b DEF Flag
  <1>i. \A q \in Proc :
           IF q = p THEN pc'[q] = "getblk" /\ bq'[q] = NoBuf /\ chan'[q] = b
                    ELSE pc'[q] = pc[q] /\ bq'[q] = bq[q] /\ chan'[q] = chan[q]
    BY <1>c DEF TypeOK
  <1>h. \A q \in Proc, c \in Buf : Owns(q, c)' <=> Owns(q, c)
    BY <1>c, <1>i DEF Owns
  <1> HIDE DEF BInv
  <1>1. TypeOK'
    <2>1. pc' \in [Proc -> Place] /\ cpu' \in Proc \cup {NoProc}
      BY <1>c DEF BInv, TypeOK, Place
    <2> QED  BY <1>b, <1>c, <2>1 DEF BInv, TypeOK
  <1>2. ListSound'
    BY <1>c, <1>f DEF BInv, ListSound
  <1>3. NoLeak'
    BY <1>c, <1>f, <1>h DEF BInv, NoLeak
  <1>4. OneBuffer'
    BY <1>c DEF BInv, OneBuffer
  <1>5. OneOwner'
    BY <1>c, <1>h, <1>i DEF BInv, OneOwner
  <1>6. OwnedIsBusy'
    <2>1. \A q \in Proc, c \in Buf :
             Owns(q, c)' => "BUSY" \in flags'[c] /\ "ASYNC" \notin flags'[c]
      BY <1>f, <1>h DEF BInv, OwnedIsBusy
    <2>2. \A q \in Proc : bp'[q] # NoBuf => For(bp[q], want[q])'
      BY <1>c, <1>f DEF BInv, For, OwnedIsBusy, TypeOK
    <2>3. \A q \in Proc : pc'[q] = "got" /\ ret'[q] = "ahead" => For(bq[q], ahead[q])'
      BY <1>c, <1>f, <1>i DEF BInv, For, OwnedIsBusy, TypeOK, Places
    <2> QED  BY <2>1, <2>2, <2>3 DEF OwnedIsBusy
  <1>7. NoLostWakeup'
    BY <1>b, <1>c, <1>i DEF BInv, NoLostWakeup
  <1>8. Places'
    BY <1>c, <1>i DEF BInv, Outside, Places, Searching
  <1>9. Transfers'
    <2>1. \A q \in Proc : bp[q] # NoBuf => ("DONE" \in flags'[bp[q]] <=> "DONE" \in flags[bp[q]])
      BY <1>f DEF BInv, TypeOK
    <2> QED  BY <1>c, <1>i, <2>1 DEF BInv, Transfers
  <1>10. InTransfer'
    <2>1. io \subseteq Buf
      BY DEF BInv, TypeOK
    <2> QED  BY <1>c, <1>f, <2>1 DEF BInv, InTransfer
  <1>11. Contents'
    BY <1>c, <1>f DEF BInv, Contents
  <1> QED  BY <1>1, <1>2, <1>3, <1>4, <1>5, <1>6, <1>7, <1>8, <1>9, <1>10, <1>11 DEF BInv

-----------------------------------------------------------------------------
(* Steps that change a buffer.                                             *)

\* getblk gives p the buffer b, which was on the available list: the one of
\* the block p asked for, or one taken from some other block.
LEMMA GiveInv ==
    ASSUME BInv, NEW p \in Proc, NEW b \in Buf, "BUSY" \notin flags[b],
           At(p, "getblk") \/ At(p, "found"), free' = Without(b), Give(p, b),
           UNCHANGED <<freeWanted, io, disk, callVars, chan>>,
           \/ /\ ret[p] # "geteblk" /\ For(b, Target(p))
              /\ flags' = [flags EXCEPT ![b] = @ \cup {"BUSY"}]
              /\ UNCHANGED <<blk, data>>
           \/ /\ ret[p] = "geteblk" \/ ~ Incore(Target(p))
              /\ flags' = [flags EXCEPT ![b] = {"BUSY"}]
              /\ blk' = [blk EXCEPT ![b] = Target(p)]
              /\ data' = [data EXCEPT ![b] = Stale]
    PROVE  BInv'
  <1> USE BufferCacheAssumption DEF BInv
  <1>a. /\ Target(p) \in Block \cup {NoBlock}
        /\ Target(p) = IF ret[p] = "ahead" THEN ahead[p] ELSE want[p]
        /\ ret[p] = "geteblk" => Target(p) = NoBlock
    BY DEF TypeOK, Target, Places, At, Outside
  <1>b. /\ free' \in Seq(Buf) /\ NoDup(free') /\ Elems(free') = Elems(free) \ {b}
        /\ free # <<>>
    BY TakenOff
  <1>c. /\ flags' \in [Buf -> SUBSET Flag]
        /\ \A c \in Buf : c # b => /\ flags'[c] = flags[c]
                                   /\ blk'[c] = blk[c] /\ data'[c] = data[c]
        /\ "BUSY" \in flags'[b] /\ flags'[b] \subseteq flags[b] \cup {"BUSY"}
        /\ blk'[b] = Target(p) \/ (blk'[b] = NoBlock /\ "ERROR" \in flags'[b])
        /\ blk' \in [Buf -> Block \cup {NoBlock}] /\ data' \in [Buf -> Val \cup {Stale}]
    <2>1. PICK g \in SUBSET Flag : /\ flags' = [flags EXCEPT ![b] = g]
                                   /\ "BUSY" \in g /\ g \subseteq flags[b] \cup {"BUSY"}
      <3>1. flags[b] \cup {"BUSY"} \in SUBSET Flag /\ {"BUSY"} \in SUBSET Flag
        BY DEF TypeOK, Flag
      <3> QED  BY <3>1
    <2>2. flags \in [Buf -> SUBSET Flag]
      BY DEF TypeOK
    <2>3. /\ flags' \in [Buf -> SUBSET Flag] /\ flags'[b] = g
          /\ \A c \in Buf : c # b => flags'[c] = flags[c]
      BY <2>1, <2>2
    <2>4. /\ \A c \in Buf : c # b => blk'[c] = blk[c] /\ data'[c] = data[c]
          /\ blk'[b] = Target(p) \/ (UNCHANGED blk /\ For(b, Target(p)) /\ flags[b] \subseteq flags'[b])
          /\ blk' \in [Buf -> Block \cup {NoBlock}] /\ data' \in [Buf -> Val \cup {Stale}]
      BY <1>a, <2>2 DEF TypeOK
    <2> QED  BY <2>1, <2>3, <2>4 DEF For
  <1>d. \/ blk'[b] = blk[b] /\ data'[b] = data[b] /\ flags'[b] = flags[b] \cup {"BUSY"}
        \/ flags'[b] = {"BUSY"} /\ \A c \in Buf : blk[c] # Target(p) \/ Target(p) = NoBlock
    BY <1>a DEF TypeOK, Incore
  <1>e. /\ pc' = [pc EXCEPT ![p] = "got"] /\ pc[p] \in {"getblk", "found"} /\ cpu' = p
        /\ chan[p] = NoChan
        /\ UNCHANGED <<freeWanted, io, disk, ret, want, ahead, chan>>
        /\ \/ ret[p] = "ahead" /\ bq' = [bq EXCEPT ![p] = b] /\ bp' = bp
           \/ ret[p] # "ahead" /\ bp' = [bp EXCEPT ![p] = b] /\ bp[p] = NoBuf
              /\ bq' = [bq EXCEPT ![p] = NoBuf]
    BY DEF Give, Goto, At, Runs, callVars, Places
  <1>g. b \notin io /\ "ASYNC" \notin flags[b] /\ \A q \in Proc : ~ Owns(q, b)
    BY DEF InTransfer, Contents, For, OwnedIsBusy
  <1>h. \A q \in Proc, c \in Buf : Owns(q, c)' <=> Owns(q, c) \/ (q = p /\ c = b)
    BY <1>e DEF TypeOK, Owns
  <1>i. \A q \in Proc : bp[q] # b /\ (q # p => bp'[q] = bp[q] /\ bq'[q] = bq[q] /\ pc'[q] = pc[q])
    BY <1>e, <1>g DEF TypeOK, Owns
  <1> HIDE DEF BInv
  <1>1. TypeOK'
    <2>1. pc' \in [Proc -> Place] /\ cpu' \in Proc \cup {NoProc}
      BY <1>e DEF BInv, TypeOK, Place
    <2>2. bp' \in [Proc -> Buf \cup {NoBuf}] /\ bq' \in [Proc -> Buf \cup {NoBuf}]
      <3>1. bp \in [Proc -> Buf \cup {NoBuf}] /\ bq \in [Proc -> Buf \cup {NoBuf}]
        BY DEF BInv, TypeOK
      <3>2. CASE bq' = [bq EXCEPT ![p] = b] /\ bp' = bp
        BY <3>1, <3>2
      <3>3. CASE bp' = [bp EXCEPT ![p] = b] /\ bq' = [bq EXCEPT ![p] = NoBuf]
        BY <3>1, <3>3
      <3> QED  BY <1>e, <3>2, <3>3
    <2> QED  BY <1>b, <1>c, <1>e, <2>1, <2>2 DEF BInv, TypeOK
  <1>2. ListSound'
    BY <1>b, <1>c DEF BInv, ListSound
  <1>3. NoLeak'
    BY <1>c, <1>e, <1>h DEF BInv, NoLeak
  <1>4. OneBuffer'
    BY <1>c, <1>d DEF BInv, OneBuffer
  <1>5. OneOwner'
    <2>1. \A q, r \in Proc : \A c \in Buf : Owns(q, c)' /\ Owns(r, c)' => q = r
      BY <1>g, <1>h DEF BInv, OneOwner
    <2>2. \A q \in Proc : pc'[q] = "got" /\ bp'[q] # NoBuf => bp'[q] # bq'[q]
      BY <1>e, <1>i DEF BInv, OneOwner, TypeOK
    <2> QED  BY <2>1, <2>2 DEF OneOwner
  <1>6. OwnedIsBusy'
    <2>1. \A q \in Proc, c \in Buf :
             Owns(q, c)' => "BUSY" \in flags'[c] /\ "ASYNC" \notin flags'[c]
      BY <1>c, <1>g, <1>h DEF BInv, For, OwnedIsBusy
    <2>2. \A q \in Proc : bp'[q] # NoBuf => For(bp[q], want[q])'
      BY <1>a, <1>c, <1>e, <1>i DEF BInv, For, OwnedIsBusy, TypeOK
    <2>3. \A q \in Proc : pc'[q] = "got" /\ ret'[q] = "ahead" => For(bq[q], ahead[q])'
      <3> TAKE q \in Proc
      <3>1. CASE q = p
        BY <1>a, <1>c, <1>e, <3>1 DEF BInv, TypeOK, For
      <3>2. CASE q # p
        <4>1. ASSUME pc[q] = "got", ret[q] = "ahead" PROVE bq[q] \in Buf /\ bq[q] # b
          BY <1>g, <4>1 DEF BInv, TypeOK, Places, Owns
        <4> QED  BY <1>c, <1>e, <1>i, <3>2, <4>1 DEF BInv, For, OwnedIsBusy
      <3> QED  BY <3>1, <3>2
    <2> QED  BY <2>1, <2>2, <2>3 DEF For, OwnedIsBusy
  <1>7. NoLostWakeup'
    <2> SUFFICES ASSUME NEW q \in Proc, chan[q] # NoChan
                 PROVE  \/ chan[q] \in io /\ pc'[q] \in {"iowait", "bwrite"}
                        \/ /\ chan[q] \in Buf /\ pc'[q] = "getblk"
                           /\ {"BUSY", "WANTED"} \subseteq flags'[chan[q]]
      BY <1>e DEF NoLostWakeup
    <2>1. q # p /\ pc'[q] = pc[q]
      BY <1>e, <1>i
    <2> QED  BY <1>b, <1>c, <2>1 DEF BInv, NoLostWakeup
  <1>8. Places'
    BY <1>e DEF BInv, Places, TypeOK, Outside, Searching
  <1>9. Transfers'
    BY <1>c, <1>e, <1>g, <1>i DEF BInv, Transfers, TypeOK, Places
  <1>10. InTransfer'
    BY <1>c, <1>e, <1>g, <1>i DEF BInv, InTransfer, TypeOK
  <1>11. Contents'
    BY <1>a, <1>c, <1>d, <1>e, <1>g DEF BInv, Contents
  <1> QED  BY <1>1, <1>2, <1>3, <1>4, <1>5, <1>6, <1>7, <1>8, <1>9, <1>10, <1>11 DEF BInv

\* The buffer that the search has found is on the available list.
LEMMA GetblkHitInv ==
    ASSUME BInv, SearchSound, NEW p \in Proc, GetblkHit(p)
    PROVE  BInv'
  <1>1. bq[p] \in Buf /\ ret[p] # "geteblk" /\ For(bq[p], Target(p))
    BY BufferCacheAssumption DEF GetblkHit, At, BInv, Places, TypeOK, SearchSound
  <1> QED  BY <1>1, GiveInv DEF GetblkHit, Busy

\* The oldest buffer of the list is reassigned.
LEMMA GetblkTakeInv ==
    ASSUME BInv, NEW p \in Proc, GetblkTake(p)
    PROVE  BInv'
  BY GiveInv, OldestIsFree DEF GetblkTake, Misses


\* p starts the write of b, a delayed write on the available list.
LEMMA FlushInv ==
    ASSUME BInv, NEW p \in Proc, NEW b \in Buf, "BUSY" \notin flags[b],
           "DELWRI" \in flags[b], NEW here, Runs(p), pc[p] = here,
           free' = Without(b), StartWrite(b, flags[b] \cup {"BUSY", "ASYNC"}),
           bq' = [bq EXCEPT ![p] = b], cpu' = p,
           \/ here = "getblk" /\ pc' = [pc EXCEPT ![p] = "ageGetblk"]
           \/ here = "bflush" /\ pc' = [pc EXCEPT ![p] = "ageBflush"],
           UNCHANGED <<blk, data, freeWanted, disk, callVars, bp, chan>>
    PROVE  BInv'
  <1> USE BufferCacheAssumption DEF BInv
  <1>b. /\ free' \in Seq(Buf) /\ NoDup(free') /\ Elems(free') = Elems(free) \ {b}
        /\ free # <<>>
    BY TakenOff
  <1>c. /\ flags' \in [Buf -> SUBSET Flag]
        /\ \A c \in Buf : c # b => flags'[c] = flags[c]
        /\ "BUSY" \in flags'[b] /\ "ASYNC" \in flags'[b]
        /\ flags'[b] \cap {"READ", "DONE", "ERROR", "DELWRI"} = {}
    <2> DEFINE g == (flags[b] \cup {"BUSY", "ASYNC"}) \ {"READ", "DONE", "ERROR", "DELWRI", "AGE"}
    <2>1. g \in SUBSET Flag /\ flags \in [Buf -> SUBSET Flag]
      BY DEF TypeOK, Flag
    <2>2. flags' = [flags EXCEPT ![b] = g]
      BY DEF StartWrite
    <2> QED  BY <2>1, <2>2
  <1>e. /\ pc[p] \in {"getblk", "bflush"} /\ chan[p] = NoChan /\ io' = io \cup {b}
        /\ \/ pc[p] = "getblk" /\ pc' = [pc EXCEPT ![p] = "ageGetblk"]
           \/ pc[p] = "bflush" /\ pc' = [pc EXCEPT ![p] = "ageBflush"]
        /\ UNCHANGED <<blk, data, freeWanted, disk, ret, want, ahead, bp, chan>>
        /\ bq' = [bq EXCEPT ![p] = b]
    BY DEF Runs, StartWrite, callVars
  <1>g. /\ b \notin io /\ "DONE" \in flags[b] /\ \A q \in Proc : ~ Owns(q, b)
        /\ data[b] \in Val /\ blk[b] \in Block
    BY DEF InTransfer, Contents, For, OwnedIsBusy
  <1>h. \A q \in Proc, c \in Buf : Owns(q, c)' <=> Owns(q, c)
    BY <1>e DEF TypeOK, Owns
  <1>i. \A q \in Proc : /\ bp[q] # b
                        /\ q # p => bq'[q] = bq[q] /\ pc'[q] = pc[q]
                        /\ pc'[q] # "got" \/ q # p
    BY <1>e, <1>g DEF TypeOK, Owns
  <1> HIDE DEF BInv
  <1>1. TypeOK'
    <2>1. pc' \in [Proc -> Place] /\ cpu' \in Proc \cup {NoProc}
      BY <1>e, AfterAgeIs DEF BInv, TypeOK, Place
    <2> QED  BY <1>b, <1>c, <1>e, <2>1 DEF BInv, TypeOK
  <1>2. ListSound'
    BY <1>b, <1>c DEF BInv, ListSound
  <1>3. NoLeak'
    BY <1>c, <1>e, <1>h DEF BInv, NoLeak
  <1>4. OneBuffer'
    BY <1>e DEF BInv, OneBuffer
  <1>5. OneOwner'
    BY <1>e, <1>h, <1>i DEF BInv, OneOwner
  <1>6. OwnedIsBusy'
    <2>1. \A q \in Proc, c \in Buf :
             Owns(q, c)' => "BUSY" \in flags'[c] /\ "ASYNC" \notin flags'[c]
      BY <1>c, <1>g, <1>h DEF BInv, For, OwnedIsBusy
    <2>2. \A q \in Proc : bp'[q] # NoBuf => For(bp[q], want[q])'
      BY <1>c, <1>e, <1>i DEF BInv, For, OwnedIsBusy, TypeOK
    <2>3. \A q \in Proc : pc'[q] = "got" /\ ret'[q] = "ahead" => For(bq[q], ahead[q])'
      BY <1>c, <1>e, <1>g, <1>i DEF BInv, For, OwnedIsBusy, Owns, Places, TypeOK
    <2> QED  BY <2>1, <2>2, <2>3 DEF For, OwnedIsBusy
  <1>7. NoLostWakeup'
    <2> SUFFICES ASSUME NEW q \in Proc, chan[q] # NoChan
                 PROVE  \/ chan[q] \in io' /\ pc'[q] \in {"iowait", "bwrite"}
                        \/ /\ chan[q] \in Buf /\ pc'[q] = "getblk"
                           /\ {"BUSY", "WANTED"} \subseteq flags'[chan[q]]
      BY <1>e DEF NoLostWakeup
    <2>1. q # p /\ pc'[q] = pc[q]
      BY <1>e, <1>i
    <2> QED  BY <1>b, <1>c, <1>e, <2>1 DEF BInv, NoLostWakeup
  <1>8. Places'
    BY <1>e DEF BInv, Places, TypeOK, Outside, Searching
  <1>9. Transfers'
    BY <1>c, <1>e, <1>g, <1>i DEF BInv, Transfers, TypeOK, Places, Owns
  <1>10. InTransfer'
    BY <1>c, <1>e, <1>g DEF BInv, InTransfer, TypeOK
  <1>11. Contents'
    BY <1>c, <1>e, <1>g DEF BInv, Contents
  <1> QED  BY <1>1, <1>2, <1>3, <1>4, <1>5, <1>6, <1>7, <1>8, <1>9, <1>10, <1>11 DEF BInv

\* getblk starts the delayed write of the oldest buffer.
LEMMA GetblkFlushInv ==
    ASSUME BInv, NEW p \in Proc, GetblkFlush(p)
    PROVE  BInv'
  BY FlushInv, OldestIsFree DEF GetblkFlush, Misses, At, Goto

\* bflush starts a delayed write of the list.
LEMMA BflushWriteInv ==
    ASSUME BInv, NEW p \in Proc, BflushWrite(p)
    PROVE  BInv'
  <1>1. PICK i \in DOMAIN free :
          /\ At(p, "bflush") /\ Delayed(i)
          /\ free' = Without(free[i])
          /\ StartWrite(free[i], flags[free[i]] \cup {"BUSY", "ASYNC"})
          /\ bq' = [bq EXCEPT ![p] = free[i]]
          /\ Goto(p, "ageBflush")
          /\ UNCHANGED <<blk, data, freeWanted, disk, callVars, bp, chan>>
    BY DEF BflushWrite
  <1>2. free[i] \in Buf /\ "BUSY" \notin flags[free[i]]
    BY DEF BInv, TypeOK, ListSound, Elems
  <1> QED  BY <1>1, <1>2, FlushInv DEF Delayed, At, Goto

\* B_AGE says nothing of a buffer but where brelse puts it.
LEMMA AgeInv ==
    ASSUME BInv, NEW p \in Proc, Age(p)
    PROVE  BInv'
  <1> USE BufferCacheAssumption DEF BInv
  <1>e. /\ \/ pc[p] = "ageGetblk" /\ pc' = [pc EXCEPT ![p] = "getblk"]
           \/ pc[p] = "ageBflush" /\ pc' = [pc EXCEPT ![p] = "bflush"]
           \/ pc[p] = "ageCaller" /\ pc' = [pc EXCEPT ![p] = "idle"]
        /\ chan[p] = NoChan /\ cpu' \in {NoProc, p}
        /\ bq' = [bq EXCEPT ![p] = NoBuf]
        /\ UNCHANGED <<blk, data, free, freeWanted, io, disk, ret, want, ahead, bp, chan>>
    BY AfterAgeIs DEF Age, At, Runs, callVars
  <1>b. bq[p] \in Buf
    BY <1>e DEF Places, TypeOK
  <1>c. /\ flags' \in [Buf -> SUBSET Flag]
        /\ \A c \in Buf, f \in Flag \ {"AGE"} : f \in flags'[c] <=> f \in flags[c]
    <2>1. flags' = [flags EXCEPT ![bq[p]] = flags[bq[p]] \cup {"AGE"}]
      BY DEF Age
    <2>2. flags \in [Buf -> SUBSET Flag] /\ {"AGE"} \in SUBSET Flag
      BY DEF TypeOK, Flag
    <2> QED  BY <1>b, <2>1, <2>2
  <1>f. \A c \in Buf, f \in {"READ", "DONE", "ERROR", "BUSY", "WANTED", "ASYNC", "DELWRI"} :
           f \in flags'[c] <=> f \in flags[c]
    BY <1>c DEF Flag
  <1>i. \A q \in Proc : /\ q # p => bq'[q] = bq[q] /\ pc'[q] = pc[q]
                        /\ pc'[q] # "got" \/ q # p
    BY <1>e DEF TypeOK
  <1>h. \A q \in Proc, c \in Buf : Owns(q, c)' <=> Owns(q, c)
    BY <1>e DEF TypeOK, Owns
  <1> HIDE DEF BInv
  <1>1. TypeOK'
    <2>1. pc' \in [Proc -> Place] /\ cpu' \in Proc \cup {NoProc}
      BY <1>e DEF BInv, TypeOK, Place
    <2> QED  BY <1>c, <1>e, <2>1 DEF BInv, TypeOK
  <1>2. ListSound'
    BY <1>e, <1>f DEF BInv, ListSound
  <1>3. NoLeak'
    BY <1>e, <1>f, <1>h DEF BInv, NoLeak
  <1>4. OneBuffer'
    BY <1>e DEF BInv, OneBuffer
  <1>5. OneOwner'
    BY <1>e, <1>h, <1>i DEF BInv, OneOwner
  <1>6. OwnedIsBusy'
    <2>1. \A q \in Proc, c \in Buf :
             Owns(q, c)' => "BUSY" \in flags'[c] /\ "ASYNC" \notin flags'[c]
      BY <1>f, <1>h DEF BInv, For, OwnedIsBusy
    <2>2. \A q \in Proc : bp'[q] # NoBuf => For(bp[q], want[q])'
      BY <1>e, <1>f DEF BInv, For, OwnedIsBusy, TypeOK
    <2>3. \A q \in Proc : pc'[q] = "got" /\ ret'[q] = "ahead" => For(bq[q], ahead[q])'
      BY <1>e, <1>f, <1>i DEF BInv, For, OwnedIsBusy, Places, TypeOK
    <2> QED  BY <2>1, <2>2, <2>3 DEF For, OwnedIsBusy
  <1>7. NoLostWakeup'
    BY <1>e, <1>f, <1>i DEF BInv, NoLostWakeup
  <1>8. Places'
    BY <1>e DEF BInv, Places, TypeOK, Outside, Searching
  <1>9. Transfers'
    <2>1. \A q \in Proc : bp[q] # NoBuf => bp[q] \in Buf
      BY DEF BInv, TypeOK
    <2>2. \A q \in Proc : bp[q] # NoBuf => ("DONE" \in flags'[bp[q]] <=> "DONE" \in flags[bp[q]])
      BY <1>f, <2>1
    <2>3. /\ pc[p] \in {"ageGetblk", "ageBflush", "ageCaller"} /\ chan[p] = NoChan
          /\ pc'[p] \in {"getblk", "bflush", "idle"}
      BY <1>e DEF BInv, TypeOK
    <2> QED  BY <1>e, <1>i, <2>2, <2>3 DEF BInv, Transfers
  <1>10. InTransfer'
    <2>1. io \subseteq Buf
      BY DEF BInv, TypeOK
    <2> QED  BY <1>e, <1>f, <2>1 DEF BInv, InTransfer
  <1>11. Contents'
    BY <1>e, <1>f DEF BInv, Contents
  <1> QED  BY <1>1, <1>2, <1>3, <1>4, <1>5, <1>6, <1>7, <1>8, <1>9, <1>10, <1>11 DEF BInv


\* A read starts in a buffer p owns and has not seen filled: the block p asked
\* for, or the one after it.
LEMMA StartReadInv ==
    ASSUME BInv, NEW p \in Proc, NEW b \in Buf, NEW extra \in SUBSET {"ASYNC"},
           Runs(p), pc[p] = "got", "DONE" \notin flags[b], StartRead(b, extra), cpu' = p,
           \/ /\ extra = {} /\ b = bp[p] /\ ret[p] \in {"bread", "breada"}
              /\ bq' = bq
              /\ pc' = [pc EXCEPT ![p] = IF ret[p] = "bread" THEN "iowait" ELSE "ahead"]
           \/ /\ extra = {"ASYNC"} /\ b = bq[p] /\ ret[p] = "ahead"
              /\ bq' = [bq EXCEPT ![p] = NoBuf]
              /\ pc' = [pc EXCEPT ![p] = "finish"],
           UNCHANGED <<blk, data, free, freeWanted, disk, callVars, bp, chan>>
    PROVE  BInv'
  <1> USE BufferCacheAssumption DEF BInv
  <1>a. /\ UNCHANGED <<blk, data, free, freeWanted, disk, ret, want, ahead, bp, chan>>
        /\ io' = io \cup {b} /\ chan[p] = NoChan
    BY DEF Runs, StartRead, callVars
  <1>c. /\ flags' \in [Buf -> SUBSET Flag]
        /\ \A c \in Buf : c # b => flags'[c] = flags[c]
        /\ flags'[b] = flags[b] \cup {"READ"} \cup extra
    <2>1. flags' = [flags EXCEPT ![b] = flags[b] \cup {"READ"} \cup extra]
      BY DEF StartRead
    <2>2. flags \in [Buf -> SUBSET Flag] /\ {"READ"} \cup extra \in SUBSET Flag
      BY DEF TypeOK, Flag
    <2> QED  BY <2>1, <2>2
  <1>d. Owns(p, b)
    BY DEF Owns
  <1>g. /\ b \notin io /\ {"DELWRI", "ERROR", "ASYNC"} \cap flags[b] = {} /\ "BUSY" \in flags[b]
        /\ blk[b] \in Block
    <2>1. b \notin io /\ "ASYNC" \notin flags[b] /\ "BUSY" \in flags[b]
      BY <1>d DEF Transfers, For, OwnedIsBusy
    <2>2. "DELWRI" \notin flags[b] /\ "ERROR" \notin flags[b]
      BY DEF Contents
    <2>3. blk[b] \in Block
      <3>1. CASE b = bp[p] /\ ret[p] \in {"bread", "breada"}
        BY <2>2, <3>1 DEF For, OwnedIsBusy, Places, TypeOK, Outside
      <3>2. CASE b = bq[p] /\ ret[p] = "ahead"
        BY <2>2, <3>2 DEF For, OwnedIsBusy, Places, Searching
      <3> QED  BY <3>1, <3>2
    <2> QED  BY <2>1, <2>2, <2>3
  <1>h. \A q \in Proc, c \in Buf : Owns(q, c)' => Owns(q, c) /\ (extra = {} \/ c # b)
    <2>1. \A q \in Proc, c \in Buf : Owns(q, c)' => Owns(q, c)
      BY <1>a DEF TypeOK, Owns
    <2>2. ~ Owns(p, b)' \/ extra = {}
      BY <1>a, <1>g DEF TypeOK, Owns, OneOwner
    <2> QED  BY <1>d, <2>1, <2>2 DEF OneOwner
  <1>j. \A q \in Proc, c \in Buf : Owns(q, c) => Owns(q, c)' \/ c = b
    <2> TAKE q \in Proc, c \in Buf
    <2>1. CASE q = p
      BY <1>a, <2>1 DEF TypeOK, Owns, Places
    <2>2. CASE q # p
      BY <1>a, <2>2 DEF TypeOK, Owns
    <2> QED  BY <2>1, <2>2
  <1>i. \A q \in Proc : /\ q # p => bq'[q] = bq[q] /\ pc'[q] = pc[q]
                        /\ pc'[q] # "got" \/ q # p
    BY DEF TypeOK
  <1>k. pc'[p] \in {"iowait", "ahead", "finish"}
    BY DEF TypeOK
  <1> HIDE DEF BInv
  <1>1. TypeOK'
    <2>1. pc' \in [Proc -> Place] /\ cpu' \in Proc \cup {NoProc}
      BY DEF BInv, TypeOK, Place
    <2>2. bq' \in [Proc -> Buf \cup {NoBuf}]
      BY DEF BInv, TypeOK
    <2> QED  BY <1>a, <1>c, <2>1, <2>2 DEF BInv, TypeOK
  <1>2. ListSound'
    BY <1>a, <1>c, <1>g DEF BInv, ListSound
  <1>3. NoLeak'
    BY <1>a, <1>c, <1>j DEF BInv, NoLeak
  <1>4. OneBuffer'
    BY <1>a DEF BInv, OneBuffer
  <1>5. OneOwner'
    BY <1>a, <1>h, <1>i DEF BInv, OneOwner
  <1>6. OwnedIsBusy'
    <2>1. \A q \in Proc, c \in Buf :
             Owns(q, c)' => "BUSY" \in flags'[c] /\ "ASYNC" \notin flags'[c]
      <3> TAKE q \in Proc, c \in Buf
      <3>1. CASE c = b
        BY <1>c, <1>g, <1>h, <3>1
      <3>2. CASE c # b
        BY <1>c, <1>h, <3>2 DEF BInv, For, OwnedIsBusy
      <3> QED  BY <3>1, <3>2
    <2>2. \A q \in Proc : bp'[q] # NoBuf => For(bp[q], want[q])'
      BY <1>a, <1>c DEF BInv, For, OwnedIsBusy, TypeOK
    <2>3. \A q \in Proc : pc'[q] = "got" /\ ret'[q] = "ahead" => For(bq[q], ahead[q])'
      BY <1>a, <1>c, <1>i DEF BInv, For, OwnedIsBusy, Places, TypeOK
    <2> QED  BY <2>1, <2>2, <2>3 DEF For, OwnedIsBusy
  <1>7. NoLostWakeup'
    <2> SUFFICES ASSUME NEW q \in Proc, chan[q] # NoChan
                 PROVE  \/ chan[q] = FreeList /\ pc'[q] = "getblk" /\ freeWanted /\ free = <<>>
                        \/ chan[q] \in io' /\ pc'[q] \in {"iowait", "bwrite"}
                        \/ /\ chan[q] \in Buf /\ pc'[q] = "getblk"
                           /\ {"BUSY", "WANTED"} \subseteq flags'[chan[q]]
      BY <1>a DEF NoLostWakeup
    <2>1. q # p /\ pc'[q] = pc[q]
      BY <1>a, <1>i
    <2> QED  BY <1>a, <1>c, <2>1 DEF BInv, NoLostWakeup
  <1>8. Places'
    BY <1>a DEF BInv, Places, TypeOK, Outside, Searching
  <1>9. Transfers'
    <2>1. \A q \in Proc : bp[q] # NoBuf => bp[q] \in Buf
      BY DEF BInv, TypeOK
    <2> SUFFICES ASSUME NEW q \in Proc
                 PROVE  /\ bp[q] # NoBuf =>
                             IF pc'[q] \in {"held", "trap"} \/ (pc'[q] = "got" /\ ret[q] # "ahead")
                             THEN bp[q] \notin io'
                             ELSE bp[q] \in io' \/ "DONE" \in flags'[bp[q]]
                        /\ pc'[q] = "got" => bq'[q] \notin io'
                        /\ chan[q] # NoChan /\ pc'[q] \in {"iowait", "bwrite"} => chan[q] = bp[q]
      BY <1>a DEF Transfers
    <2>2. CASE q = p
      <3>1. bp[q] # NoBuf => bp[q] \in io' \/ "DONE" \in flags'[bp[q]]
        <4>1. CASE b = bp[q]
          BY <1>a, <4>1
        <4>2. CASE b # bp[q]
          BY <1>a, <1>c, <2>1, <2>2, <4>2 DEF BInv, Transfers
        <4> QED  BY <4>1, <4>2
      <3> QED  BY <1>a, <1>k, <2>2, <3>1
    <2>3. CASE q # p
      <3>1. pc'[q] = pc[q] /\ bq'[q] = bq[q] /\ ~ Owns(q, b)
        BY <1>d, <1>i, <2>3 DEF BInv, OneOwner
      <3>2. bp[q] # b /\ (pc[q] = "got" => bq[q] # b)
        BY <3>1 DEF Owns
      <3> QED  BY <1>a, <1>c, <2>1, <3>1, <3>2 DEF BInv, Transfers
    <2> QED  BY <2>2, <2>3
  <1>10. InTransfer'
    <2>1. io \subseteq Buf
      BY DEF BInv, TypeOK
    <2>2. "ASYNC" \notin flags'[b] => \E q \in Proc : bp'[q] = b
      BY <1>a, <1>c
    <2>3. ASSUME NEW c \in io, c # b
          PROVE  InTransfer!(c)'
      BY <1>a, <1>c, <2>1, <2>3 DEF BInv, InTransfer
    <2> QED  BY <1>a, <1>c, <1>g, <2>2, <2>3 DEF InTransfer
  <1>11. Contents'
    BY <1>a, <1>c, <1>g DEF BInv, Contents
  <1> QED  BY <1>1, <1>2, <1>3, <1>4, <1>5, <1>6, <1>7, <1>8, <1>9, <1>10, <1>11 DEF BInv

\* bread, breada: the read of the block that was asked for.
LEMMA GotReadInv ==
    ASSUME BInv, NEW p \in Proc, GotRead(p)
    PROVE  BInv'
  <1>1. bp[p] \in Buf
    BY BufferCacheAssumption DEF GotRead, At, BInv, Places, TypeOK
  <1> QED  BY <1>1, StartReadInv DEF GotRead, At, Goto, Cached

\* breada: the read of the block after it.
LEMMA AheadReadInv ==
    ASSUME BInv, NEW p \in Proc, AheadRead(p)
    PROVE  BInv'
  <1>1. bq[p] \in Buf
    BY BufferCacheAssumption DEF AheadRead, At, BInv, Places, TypeOK
  <1> QED  BY <1>1, StartReadInv DEF AheadRead, At, Goto, Cached


\* The owner of b releases it, unchanged or with a delayed write, and has no
\* other buffer or keeps the one it has.
LEMMA LetGoInv ==
    ASSUME BInv, NEW p \in Proc, NEW b \in Buf, NEW f, NEW d, Owns(p, b), b \notin io,
           Brelse(b, f), data' = [data EXCEPT ![b] = d],
           \/ f = flags[b] /\ d = data[b]
           \/ f = DelayedFlags(flags[b]) /\ d \in Val /\ blk[b] \in Block
              /\ "ERROR" \notin flags[b],
           UNCHANGED <<io, disk>>, Runs(p),
           \A q \in Proc :
              /\ q # p => /\ pc'[q] = pc[q] /\ ret'[q] = ret[q] /\ want'[q] = want[q]
                          /\ ahead'[q] = ahead[q] /\ bp'[q] = bp[q] /\ bq'[q] = bq[q]
              /\ ~ Owns(p, b)' /\ pc'[p] # "got"
              /\ bp'[p] # NoBuf => bp'[p] = bp[p] /\ want'[p] = want[p]
                                   /\ pc[p] = "got" /\ ret[p] = "ahead" /\ pc'[p] = "finish"
              /\ bp'[p] = NoBuf => bp[p] = NoBuf \/ bp[p] = b
              /\ pc[p] = "got" /\ bq[p] # NoBuf => bq[p] = b
    PROVE  /\ data' \in [Buf -> Val \cup {Stale}]
           /\ free' \in Seq(Buf) /\ flags' \in [Buf -> SUBSET Flag] /\ freeWanted' \in BOOLEAN
           /\ blk' \in [Buf -> Block \cup {NoBlock}]
           /\ chan' \in [Proc -> Buf \cup {NoChan, FreeList}]
           /\ ListSound' /\ NoLeak' /\ OneBuffer' /\ OneOwner' /\ OwnedIsBusy'
           /\ NoLostWakeup' /\ Transfers' /\ InTransfer' /\ Contents'
  <1> USE BufferCacheAssumption DEF BInv
  <1>a. /\ "BUSY" \in flags[b] /\ "ASYNC" \notin flags[b]
        /\ f \in SUBSET Flag /\ ("WANTED" \in f <=> "WANTED" \in flags[b])
        /\ "ERROR" \in f <=> "ERROR" \in flags[b]
        /\ "ASYNC" \notin f
    <2>1. "BUSY" \in flags[b] /\ "ASYNC" \notin flags[b]
      BY DEF For, OwnedIsBusy
    <2>2. flags[b] \in SUBSET Flag
      BY DEF TypeOK
    <2>3. DelayedFlags(flags[b]) \in SUBSET Flag
      BY <2>2 DEF DelayedFlags, Flag
    <2>4. /\ "WANTED" \in f <=> "WANTED" \in flags[b]
          /\ "ERROR" \in f <=> "ERROR" \in flags[b]
          /\ "ASYNC" \notin f
      BY <2>1 DEF DelayedFlags
    <2> QED  BY <2>1, <2>2, <2>3, <2>4
  <1>b. /\ free' \in Seq(Buf) /\ NoDup(free') /\ Elems(free') = Elems(free) \cup {b}
        /\ flags' \in [Buf -> SUBSET Flag] /\ blk' \in [Buf -> Block \cup {NoBlock}]
        /\ \A c \in Buf : c # b => flags'[c] = flags[c] /\ blk'[c] = blk[c]
        /\ flags'[b] = f \ {"WANTED", "BUSY", "ASYNC", "AGE"}
        /\ blk'[b] = IF "ERROR" \in f THEN NoBlock ELSE blk[b]
        /\ freeWanted' = FALSE
        /\ chan' \in [Proc -> Buf \cup {NoChan, FreeList}]
        /\ \A q \in Proc : chan'[q] # NoChan =>
             /\ chan'[q] = chan[q] /\ chan[q] # FreeList
             /\ chan[q] = b => pc[q] # "getblk"
    BY <1>a, BrelseEffect
  <1>c. /\ data' \in [Buf -> Val \cup {Stale}]
        /\ \A c \in Buf : c # b => data'[c] = data[c]
        /\ data'[b] = d
    BY DEF TypeOK
  <1>d. chan[p] = NoChan
    BY DEF Runs
  <1>e. \A q \in Proc, c \in Buf : Owns(q, c)' <=> Owns(q, c) /\ c # b
    <2> TAKE q \in Proc, c \in Buf
    <2>1. CASE q # p
      BY <2>1 DEF Owns, OneOwner
    <2>2. CASE q = p
      BY <2>2 DEF Owns
    <2> QED  BY <2>1, <2>2
  <1>f. \A q \in Proc : /\ pc'[q] = "got" => q # p
                        /\ q # p => pc'[q] = pc[q]
                        /\ bp'[q] # NoBuf => bp'[q] = bp[q] /\ want'[q] = want[q] /\ bp[q] # b
                        /\ bp'[q] = NoBuf \/ bp'[q] \in Buf
    <2> TAKE q \in Proc
    <2>1. bp'[q] # NoBuf => bp'[q] = bp[q] /\ want'[q] = want[q]
      OBVIOUS
    <2>2. bp[q] = NoBuf \/ bp[q] \in Buf
      BY DEF TypeOK
    <2>3. bp'[q] # NoBuf => bp[q] # b
      BY <1>e, <2>1 DEF Owns
    <2> QED  BY <2>1, <2>2, <2>3
  <1> HIDE DEF BInv
  <1>2. ListSound'
    BY <1>a, <1>b DEF BInv, ListSound
  <1>3. NoLeak'
    BY <1>b, <1>e DEF BInv, NoLeak
  <1>4. OneBuffer'
    BY <1>b DEF BInv, OneBuffer
  <1>5. OneOwner'
    <2>1. \A q, r \in Proc : \A c \in Buf : Owns(q, c)' /\ Owns(r, c)' => q = r
      BY <1>e DEF BInv, OneOwner
    <2>2. \A q \in Proc : pc'[q] = "got" /\ bp'[q] # NoBuf => bp'[q] # bq'[q]
      BY <1>f DEF BInv, OneOwner
    <2> QED  BY <2>1, <2>2 DEF OneOwner
  <1>6. OwnedIsBusy'
    <2>1. \A q \in Proc, c \in Buf :
             Owns(q, c)' => "BUSY" \in flags'[c] /\ "ASYNC" \notin flags'[c]
      BY <1>b, <1>e DEF BInv, For, OwnedIsBusy
    <2>2. \A q \in Proc : bp'[q] # NoBuf => For(bp[q], want[q])'
      BY <1>b, <1>f DEF BInv, For, OwnedIsBusy
    <2>3. \A q \in Proc : pc'[q] = "got" /\ ret'[q] = "ahead" => For(bq[q], ahead[q])'
      <3> SUFFICES ASSUME NEW q \in Proc, pc'[q] = "got", ret'[q] = "ahead"
                   PROVE  For(bq[q], ahead[q])'
        OBVIOUS
      <3>1. q # p /\ pc[q] = "got" /\ ret[q] = "ahead" /\ bq'[q] = bq[q] /\ ahead'[q] = ahead[q]
        BY <1>f
      <3>2. bq[q] \in Buf /\ bq[q] # b
        <4>1. bq[q] \in Buf
          BY <3>1 DEF BInv, TypeOK, Places
        <4> QED  BY <3>1, <4>1 DEF BInv, OneOwner, Owns
      <3> QED  BY <1>b, <3>1, <3>2 DEF BInv, For, OwnedIsBusy
    <2> QED  BY <2>1, <2>2, <2>3 DEF For, OwnedIsBusy
  <1>7. NoLostWakeup'
    <2> SUFFICES ASSUME NEW q \in Proc, chan'[q] # NoChan
                 PROVE  \/ chan'[q] \in io /\ pc'[q] \in {"iowait", "bwrite"}
                        \/ /\ chan'[q] \in Buf /\ pc'[q] = "getblk"
                           /\ {"BUSY", "WANTED"} \subseteq flags'[chan'[q]]
      BY DEF NoLostWakeup
    <2>1. /\ chan'[q] = chan[q] /\ chan[q] # FreeList /\ (chan[q] = b => pc[q] # "getblk")
          /\ q # p /\ pc'[q] = pc[q]
      BY <1>b, <1>d, <1>f
    <2> QED  BY <1>b, <2>1 DEF BInv, NoLostWakeup
  <1>9. Transfers'
    <2> SUFFICES ASSUME NEW q \in Proc
                 PROVE  /\ bp'[q] # NoBuf =>
                             IF pc'[q] \in {"held", "trap"} \/ (pc'[q] = "got" /\ ret'[q] # "ahead")
                             THEN bp'[q] \notin io
                             ELSE bp'[q] \in io \/ "DONE" \in flags'[bp'[q]]
                        /\ pc'[q] = "got" => bq'[q] \notin io
                        /\ chan'[q] # NoChan /\ pc'[q] \in {"iowait", "bwrite"} => chan'[q] = bp'[q]
      BY DEF Transfers
    <2>1. bp'[q] # NoBuf => bp'[q] = bp[q] /\ bp[q] \in Buf /\ flags'[bp[q]] = flags[bp[q]]
      BY <1>b, <1>f
    <2>2. CASE q = p
      <3>1. chan'[q] = NoChan /\ pc'[q] # "got"
        BY <1>b, <1>d, <2>2
      <3> QED  BY <2>1, <2>2, <3>1 DEF BInv, Transfers
    <2>3. CASE q # p
      <3>1. chan'[q] # NoChan => chan'[q] = chan[q]
        BY <1>b
      <3> QED  BY <2>1, <2>3, <3>1 DEF BInv, Transfers
    <2> QED  BY <2>2, <2>3
  <1>10. InTransfer'
    <2>1. \A c \in io : c \in Buf /\ c # b
      BY DEF BInv, TypeOK
    <2>2. ASSUME NEW c \in io, "ASYNC" \notin flags[c] PROVE \E q \in Proc : bp'[q] = c
      <3>1. PICK q \in Proc : bp[q] = c
        BY <2>2 DEF BInv, InTransfer
      <3>2. c # b /\ c \in Buf /\ c # NoBuf
        BY <2>1
      <3> QED  BY <3>1, <3>2
    <2> QED  BY <1>b, <1>c, <2>1, <2>2 DEF BInv, InTransfer
  <1>11. Contents'
    <2>1. ASSUME NEW c \in Buf, c # b PROVE Contents!(c)'
      BY <1>b, <1>c, <2>1 DEF BInv, Contents
    <2>2. Contents!(b)'
      <3>1. CASE f = flags[b] /\ d = data[b]
        BY <1>a, <1>b, <1>c, <3>1 DEF BInv, Contents
      <3>2. CASE f = DelayedFlags(flags[b]) /\ d \in Val /\ blk[b] \in Block
                 /\ "ERROR" \notin flags[b]
        BY <1>a, <1>b, <1>c, <3>2 DEF BInv, Contents, DelayedFlags
      <3> QED  BY <3>1, <3>2
    <2> QED  BY <2>1, <2>2 DEF Contents
  <1>12. freeWanted' \in BOOLEAN
    BY <1>b
  <1> QED  BY <1>b, <1>c, <1>2, <1>3, <1>4, <1>5, <1>6, <1>7, <1>9, <1>10, <1>11, <1>12


\* A call is over and its buffer released.
LEMMA FinishInv ==
    ASSUME BInv, NEW p \in Proc, NEW f, NEW d,
           Runs(p), pc[p] \in {"held", "bwrite"}, bp[p] \notin io,
           Brelse(bp[p], f), data' = [data EXCEPT ![bp[p]] = d],
           \/ f = flags[bp[p]] /\ d = data[bp[p]]
           \/ f = DelayedFlags(flags[bp[p]]) /\ d \in Val /\ blk[bp[p]] \in Block
              /\ "ERROR" \notin flags[bp[p]],
           Finish(p), UNCHANGED <<io, disk, ahead, bq>>
    PROVE  BInv'
  <1> USE BufferCacheAssumption DEF BInv
  <1>1. bp[p] \in Buf /\ bq[p] = NoBuf /\ Owns(p, bp[p])
    BY DEF Places, TypeOK, Owns
  <1>2. /\ pc' = [pc EXCEPT ![p] = "idle"] /\ cpu' = NoProc
        /\ bp' = [bp EXCEPT ![p] = NoBuf] /\ want' = [want EXCEPT ![p] = NoBlock]
        /\ ret' = [ret EXCEPT ![p] = "getblk"]
    BY DEF Finish
  <1>3. \A q \in Proc :
           IF q = p THEN /\ pc'[q] = "idle" /\ bp'[q] = NoBuf /\ bq'[q] = NoBuf
                         /\ ret'[q] = "getblk"
                    ELSE /\ pc'[q] = pc[q] /\ ret'[q] = ret[q] /\ want'[q] = want[q]
                         /\ ahead'[q] = ahead[q] /\ bp'[q] = bp[q] /\ bq'[q] = bq[q]
    BY <1>1, <1>2 DEF TypeOK
  <1>b. PICK b \in Buf : b = bp[p]
    BY <1>1
  <1>4. ~ Owns(p, b)'
    BY <1>3, <1>b DEF Owns
  <1>5. /\ data' \in [Buf -> Val \cup {Stale}]
        /\ free' \in Seq(Buf) /\ flags' \in [Buf -> SUBSET Flag] /\ freeWanted' \in BOOLEAN
        /\ blk' \in [Buf -> Block \cup {NoBlock}]
        /\ chan' \in [Proc -> Buf \cup {NoChan, FreeList}]
        /\ ListSound' /\ NoLeak' /\ OneBuffer' /\ OneOwner' /\ OwnedIsBusy'
        /\ NoLostWakeup' /\ Transfers' /\ InTransfer' /\ Contents'
    BY <1>1, <1>3, <1>4, <1>b, LetGoInv
  <1>6. TypeOK'
    BY <1>2, <1>5 DEF TypeOK, Place
  <1>7. Places'
    BY <1>3 DEF Places, Outside, Searching
  <1> QED  BY <1>5, <1>6, <1>7

\* brelse by the owner.
LEMMA CallBrelseInv ==
    ASSUME BInv, NEW p \in Proc, CallBrelse(p)
    PROVE  BInv'
  <1>1. bp[p] \in Buf /\ bp[p] \notin io /\ data \in [Buf -> Val \cup {Stale}]
    BY BufferCacheAssumption DEF BInv, CallBrelse, At, Places, Transfers, TypeOK
  <1>2. data' = [data EXCEPT ![bp[p]] = data[bp[p]]]
    BY <1>1 DEF CallBrelse
  <1> QED  BY <1>1, <1>2, FinishInv DEF CallBrelse, At

\* bwrite, when its transfer is over.
LEMMA BwriteEndInv ==
    ASSUME BInv, NEW p \in Proc, BwriteEnd(p)
    PROVE  BInv'
  <1>1. bp[p] \in Buf /\ bp[p] \notin io /\ data \in [Buf -> Val \cup {Stale}]
    BY BufferCacheAssumption DEF BInv, BwriteEnd, At, Places, InTransfer, TypeOK
  <1>2. data' = [data EXCEPT ![bp[p]] = data[bp[p]]]
    BY <1>1 DEF BwriteEnd
  <1> QED  BY <1>1, <1>2, FinishInv DEF BwriteEnd, At

\* The buffer of an owner that may write is for a block.
LEMMA MayWriteBlock ==
    ASSUME BInv, NEW p \in Proc, MayWrite(p)
    PROVE  /\ bp[p] \in Buf /\ bp[p] \notin io /\ blk[bp[p]] \in Block
           /\ "ERROR" \notin flags[bp[p]] /\ pc[p] = "held" /\ Runs(p)
           /\ bq[p] = NoBuf /\ Owns(p, bp[p])
  <1>1. bp[p] \in Buf /\ bp[p] \notin io /\ bq[p] = NoBuf
    BY BufferCacheAssumption DEF BInv, MayWrite, At, Places, Transfers, TypeOK
  <1>2. blk[bp[p]] \in Block
    BY <1>1, BufferCacheAssumption DEF BInv, MayWrite, At, Places, For, OwnedIsBusy, TypeOK, Outside
  <1> QED  BY <1>1, <1>2 DEF MayWrite, At, Owns

\* bdwrite.
LEMMA BdwriteInv ==
    ASSUME BInv, NEW p \in Proc, Bdwrite(p)
    PROVE  BInv'
  <1>1. PICK v \in Val : /\ MayWrite(p)
                         /\ data' = [data EXCEPT ![bp[p]] = v]
                         /\ Brelse(bp[p], DelayedFlags(flags[bp[p]]))
                         /\ Finish(p)
                         /\ UNCHANGED <<io, disk, ahead, bq>>
    BY DEF Bdwrite
  <1> QED  BY <1>1, MayWriteBlock, FinishInv

\* breada: the block after it had been read, and its buffer is released.
LEMMA AheadCachedInv ==
    ASSUME BInv, NEW p \in Proc, AheadCached(p)
    PROVE  BInv'
  <1> USE BufferCacheAssumption DEF BInv
  <1>1. /\ pc[p] = "got" /\ ret[p] = "ahead" /\ "DONE" \in flags[bq[p]] /\ Runs(p)
        /\ Brelse(bq[p], flags[bq[p]]) /\ bq' = [bq EXCEPT ![p] = NoBuf]
        /\ pc' = [pc EXCEPT ![p] = "finish"] /\ cpu' = p
        /\ UNCHANGED <<data, io, disk, ret, want, ahead, bp>>
    BY DEF AheadCached, At, Cached, Goto, callVars
  <1>2. bq[p] \in Buf /\ bq[p] \notin io /\ Owns(p, bq[p]) /\ bp[p] # bq[p]
    BY <1>1 DEF Places, TypeOK, Owns, Transfers, OneOwner
  <1>3. \A q \in Proc :
           IF q = p THEN pc'[q] = "finish" /\ bq'[q] = NoBuf
                    ELSE pc'[q] = pc[q] /\ bq'[q] = bq[q]
    BY <1>1 DEF TypeOK
  <1>b. PICK b \in Buf : b = bq[p]
    BY <1>2
  <1>4. ~ Owns(p, b)'
    BY <1>1, <1>2, <1>3, <1>b DEF Owns
  <1>d. data' = [data EXCEPT ![bq[p]] = data[bq[p]]]
    BY <1>1, <1>2 DEF TypeOK
  <1>5. /\ data' \in [Buf -> Val \cup {Stale}]
        /\ free' \in Seq(Buf) /\ flags' \in [Buf -> SUBSET Flag] /\ freeWanted' \in BOOLEAN
        /\ blk' \in [Buf -> Block \cup {NoBlock}]
        /\ chan' \in [Proc -> Buf \cup {NoChan, FreeList}]
        /\ ListSound' /\ NoLeak' /\ OneBuffer' /\ OneOwner' /\ OwnedIsBusy'
        /\ NoLostWakeup' /\ Transfers' /\ InTransfer' /\ Contents'
    BY <1>1, <1>2, <1>3, <1>4, <1>b, <1>d, LetGoInv
  <1>6. TypeOK'
    BY <1>1, <1>5 DEF TypeOK, Place
  <1>7. Places'
    BY <1>1, <1>3 DEF Places, Outside, Searching
  <1> QED  BY <1>5, <1>6, <1>7


\* An owner starts the write of its buffer: and waits, or lets it go.
LEMMA StartOwnedInv ==
    ASSUME BInv, NEW p \in Proc, NEW v \in Val, NEW b \in Buf, NEW extra,
           MayWrite(p), b = bp[p],
           data' = [data EXCEPT ![b] = v], StartWrite(b, flags[b] \cup extra),
           UNCHANGED <<blk, free, freeWanted, disk, ahead, chan>>,
           \A q \in Proc : q # p => /\ pc'[q] = pc[q] /\ ret'[q] = ret[q] /\ bp'[q] = bp[q]
                                    /\ want'[q] = want[q] /\ bq'[q] = bq[q],
           \/ /\ extra = {} /\ pc'[p] = "bwrite" /\ bp'[p] = b /\ bq'[p] = NoBuf
              /\ ret'[p] = ret[p] /\ want'[p] = want[p]
           \/ /\ extra = {"ASYNC"} /\ bp'[p] = NoBuf /\ ret'[p] = "getblk"
              /\ \/ pc'[p] = "ageCaller" /\ bq'[p] = b
                 \/ pc'[p] = "idle" /\ bq'[p] = NoBuf,
           pc' \in [Proc -> Place], cpu' \in {p, NoProc},
           bp' \in [Proc -> Buf \cup {NoBuf}], bq' \in [Proc -> Buf \cup {NoBuf}],
           ret' \in [Proc -> {"getblk", "geteblk", "bread", "breada", "ahead"}],
           want' \in [Proc -> Block \cup {NoBlock}]
    PROVE  BInv'
  <1> USE BufferCacheAssumption DEF BInv
  <1>a. /\ b \notin io /\ blk[b] \in Block /\ "ERROR" \notin flags[b]
        /\ pc[p] = "held" /\ chan[p] = NoChan /\ Owns(p, b)
        /\ "BUSY" \in flags[b] /\ "ASYNC" \notin flags[b]
    <2>1. b \notin io /\ blk[b] \in Block /\ "ERROR" \notin flags[b]
          /\ pc[p] = "held" /\ Runs(p) /\ Owns(p, b)
      BY MayWriteBlock
    <2> QED  BY <2>1 DEF For, OwnedIsBusy, Runs
  <1>b. io' = io \cup {b}
    BY DEF StartWrite
  <1>c. /\ flags' \in [Buf -> SUBSET Flag]
        /\ \A c \in Buf : c # b => flags'[c] = flags[c]
        /\ "BUSY" \in flags'[b] /\ ("ASYNC" \in flags'[b] <=> extra = {"ASYNC"})
        /\ "WANTED" \in flags'[b] <=> "WANTED" \in flags[b]
        /\ flags'[b] \cap {"READ", "DONE", "ERROR", "DELWRI"} = {}
    <2> DEFINE g == (flags[b] \cup extra) \ {"READ", "DONE", "ERROR", "DELWRI", "AGE"}
    <2>1. g \in SUBSET Flag /\ flags \in [Buf -> SUBSET Flag]
      BY DEF TypeOK, Flag
    <2>2. flags' = [flags EXCEPT ![b] = g]
      BY DEF StartWrite
    <2>3. flags' \in [Buf -> SUBSET Flag] /\ flags'[b] = g
          /\ \A c \in Buf : c # b => flags'[c] = flags[c]
      BY <2>1, <2>2
    <2>4. /\ "BUSY" \in g /\ ("ASYNC" \in g <=> extra = {"ASYNC"})
          /\ "WANTED" \in g <=> "WANTED" \in flags[b]
          /\ g \cap {"READ", "DONE", "ERROR", "DELWRI"} = {}
      BY <1>a
    <2> HIDE DEF g
    <2> QED  BY <2>3, <2>4
  <1>d. /\ data' \in [Buf -> Val \cup {Stale}] /\ data'[b] = v
        /\ \A c \in Buf : c # b => data'[c] = data[c]
    BY DEF TypeOK
  <1>e. \A q \in Proc, c \in Buf : Owns(q, c)' <=> Owns(q, c) /\ (c # b \/ extra = {})
    <2> TAKE q \in Proc, c \in Buf
    <2>1. CASE q # p
      BY <1>a, <2>1 DEF Owns, OneOwner
    <2>2. CASE q = p
      BY <1>a, <2>2 DEF Owns
    <2> QED  BY <2>1, <2>2
  <1>f. \A q \in Proc : bp'[q] # NoBuf => bp'[q] = bp[q] /\ want'[q] = want[q]
    OBVIOUS
  <1>g. pc'[p] \in {"bwrite", "ageCaller", "idle"}
    OBVIOUS
  <1> HIDE DEF BInv
  <1>1. TypeOK'
    BY <1>b, <1>c, <1>d DEF BInv, TypeOK
  <1>2. ListSound'
    BY <1>a, <1>c DEF BInv, ListSound
  <1>3. NoLeak'
    <2> SUFFICES ASSUME NEW c \in Buf, "BUSY" \in flags'[c]
                 PROVE  c \in io' \/ \E q \in Proc : Owns(q, c)'
      BY DEF NoLeak
    <2> QED  BY <1>b, <1>c, <1>e DEF BInv, NoLeak
  <1>4. OneBuffer'
    BY DEF BInv, OneBuffer
  <1>5. OneOwner'
    <2>1. \A q, r \in Proc : \A c \in Buf : Owns(q, c)' /\ Owns(r, c)' => q = r
      BY <1>e DEF BInv, OneOwner
    <2>2. \A q \in Proc : pc'[q] = "got" /\ bp'[q] # NoBuf => bp'[q] # bq'[q]
      BY <1>g DEF BInv, OneOwner
    <2> QED  BY <2>1, <2>2 DEF OneOwner
  <1>6. OwnedIsBusy'
    <2>1. \A q \in Proc, c \in Buf :
             Owns(q, c)' => "BUSY" \in flags'[c] /\ "ASYNC" \notin flags'[c]
      <3> TAKE q \in Proc, c \in Buf
      <3>1. CASE c = b
        <4>1. extra = {} => extra # {"ASYNC"}
          OBVIOUS
        <4> QED  BY <1>c, <1>e, <3>1, <4>1
      <3>2. CASE c # b
        BY <1>c, <1>e, <3>2 DEF BInv, For, OwnedIsBusy
      <3> QED  BY <3>1, <3>2
    <2>2. \A q \in Proc : bp'[q] # NoBuf => For(bp[q], want[q])'
      BY <1>a, <1>c, <1>f DEF BInv, For, OwnedIsBusy, TypeOK
    <2>3. \A q \in Proc : pc'[q] = "got" /\ ret'[q] = "ahead" => For(bq[q], ahead[q])'
      BY <1>a, <1>c, <1>g DEF BInv, For, OneOwner, OwnedIsBusy, Owns, Places, TypeOK
    <2> QED  BY <2>1, <2>2, <2>3 DEF For, OwnedIsBusy
  <1>7. NoLostWakeup'
    <2> SUFFICES ASSUME NEW q \in Proc, chan[q] # NoChan
                 PROVE  \/ chan[q] = FreeList /\ pc'[q] = "getblk" /\ freeWanted /\ free = <<>>
                        \/ chan[q] \in io' /\ pc'[q] \in {"iowait", "bwrite"}
                        \/ /\ chan[q] \in Buf /\ pc'[q] = "getblk"
                           /\ {"BUSY", "WANTED"} \subseteq flags'[chan[q]]
      BY DEF NoLostWakeup
    <2>1. q # p /\ pc'[q] = pc[q]
      BY <1>a
    <2> QED  BY <1>b, <1>c, <2>1 DEF BInv, NoLostWakeup
  <1>8. Places'
    <2> SUFFICES ASSUME NEW q \in Proc PROVE Places!(q)'
      BY DEF Places
    <2>1. CASE q # p
      BY <2>1 DEF BInv, Places
    <2>2. CASE q = p
      BY <1>a, <2>2 DEF BInv, Places, Outside, Searching
    <2> QED  BY <2>1, <2>2
  <1>9. Transfers'
    <2> SUFFICES ASSUME NEW q \in Proc PROVE Transfers!(q)'
      BY DEF Transfers
    <2>1. CASE q # p
      <3>1. bp[q] # b /\ (pc[q] = "got" => bq[q] # b)
        BY <1>a, <2>1 DEF BInv, OneOwner, Owns
      <3>2. bp[q] # NoBuf => bp[q] \in Buf /\ flags'[bp[q]] = flags[bp[q]]
        BY <1>c, <3>1 DEF BInv, TypeOK
      <3> QED  BY <1>b, <2>1, <3>1, <3>2 DEF BInv, Transfers
    <2>2. CASE q = p
      BY <1>a, <1>b, <1>g, <2>2 DEF Transfers
    <2> QED  BY <2>1, <2>2
  <1>10. InTransfer'
    <2>1. io \subseteq Buf
      BY DEF BInv, TypeOK
    <2>2. "ASYNC" \notin flags'[b] => \E q \in Proc : bp'[q] = b
      BY <1>c
    <2>3. ASSUME NEW c \in io, c # b
          PROVE  InTransfer!(c)'
      <3>1. ASSUME "ASYNC" \notin flags[c] PROVE \E q \in Proc : bp'[q] = c
        <4>1. PICK q \in Proc : bp[q] = c
          BY <3>1 DEF BInv, InTransfer
        <4> QED  BY <2>3, <4>1
      <3> QED  BY <1>c, <1>d, <2>1, <2>3, <3>1 DEF BInv, InTransfer
    <2> QED  BY <1>a, <1>b, <1>c, <1>d, <2>2, <2>3 DEF InTransfer
  <1>11. Contents'
    BY <1>a, <1>b, <1>c, <1>d DEF BInv, Contents
  <1> QED  BY <1>1, <1>2, <1>3, <1>4, <1>5, <1>6, <1>7, <1>8, <1>9, <1>10, <1>11 DEF BInv

\* bwrite.
LEMMA BwriteInv ==
    ASSUME BInv, NEW p \in Proc, Bwrite(p)
    PROVE  BInv'
  <1>1. PICK v \in Val : /\ MayWrite(p) /\ data' = [data EXCEPT ![bp[p]] = v]
                         /\ StartWrite(bp[p], flags[bp[p]]) /\ Goto(p, "bwrite")
                         /\ UNCHANGED <<blk, free, freeWanted, disk, callVars, bp, bq, chan>>
    BY DEF Bwrite
  <1>2. bp[p] \in Buf /\ bq[p] = NoBuf
    BY <1>1, MayWriteBlock
  <1>b. PICK b \in Buf : b = bp[p]
    BY <1>2
  <1>3. StartWrite(b, flags[b] \cup {})
    BY <1>1, <1>b DEF StartWrite
  <1>4. /\ pc' \in [Proc -> Place] /\ cpu' = p
        /\ \A q \in Proc : q # p => pc'[q] = pc[q]
        /\ pc'[p] = "bwrite"
    BY <1>1 DEF BInv, TypeOK, Goto, Place
  <1>5. /\ bp' \in [Proc -> Buf \cup {NoBuf}] /\ bq' \in [Proc -> Buf \cup {NoBuf}]
        /\ ret' \in [Proc -> {"getblk", "geteblk", "bread", "breada", "ahead"}]
        /\ want' \in [Proc -> Block \cup {NoBlock}]
        /\ UNCHANGED <<ret, want, bp, bq, blk, free, freeWanted, disk, ahead, chan>>
    BY <1>1 DEF BInv, TypeOK, callVars
  <1> QED  BY <1>1, <1>2, <1>b, <1>3, <1>4, <1>5, StartOwnedInv

\* bawrite.
LEMMA BawriteInv ==
    ASSUME BInv, NEW p \in Proc, Bawrite(p)
    PROVE  BInv'
  <1>1. PICK v \in Val :
          /\ MayWrite(p) /\ data' = [data EXCEPT ![bp[p]] = v]
          /\ StartWrite(bp[p], flags[bp[p]] \cup {"ASYNC"})
          /\ bp' = [bp EXCEPT ![p] = NoBuf] /\ want' = [want EXCEPT ![p] = NoBlock]
          /\ ret' = [ret EXCEPT ![p] = "getblk"]
          /\ \/ bq' = [bq EXCEPT ![p] = bp[p]] /\ Goto(p, "ageCaller")
             \/ UNCHANGED bq /\ pc' = [pc EXCEPT ![p] = "idle"] /\ cpu' = NoProc
          /\ UNCHANGED <<blk, free, freeWanted, disk, ahead, chan>>
    BY DEF Bawrite
  <1>2. bp[p] \in Buf /\ bq[p] = NoBuf
    BY <1>1, MayWriteBlock
  <1>b. PICK b \in Buf : b = bp[p]
    BY <1>2
  <1>3. StartWrite(b, flags[b] \cup {"ASYNC"})
    BY <1>1, <1>b
  <1>4. /\ pc' \in [Proc -> Place] /\ cpu' \in {p, NoProc}
        /\ bq' \in [Proc -> Buf \cup {NoBuf}]
        /\ \A q \in Proc : q # p => pc'[q] = pc[q] /\ bq'[q] = bq[q]
        /\ \/ pc'[p] = "ageCaller" /\ bq'[p] = b
           \/ pc'[p] = "idle" /\ bq'[p] = NoBuf
    <2>1. pc \in [Proc -> Place] /\ bq \in [Proc -> Buf \cup {NoBuf}]
      BY DEF BInv, TypeOK
    <2>2. "ageCaller" \in Place /\ "idle" \in Place
      BY AfterAgeIs DEF Place
    <2>3. CASE bq' = [bq EXCEPT ![p] = bp[p]] /\ Goto(p, "ageCaller")
      BY <1>b, <2>1, <2>2, <2>3 DEF Goto
    <2>4. CASE UNCHANGED bq /\ pc' = [pc EXCEPT ![p] = "idle"] /\ cpu' = NoProc
      BY <1>2, <2>1, <2>2, <2>4
    <2> QED  BY <1>1, <2>3, <2>4
  <1>5. /\ bp' \in [Proc -> Buf \cup {NoBuf}]
        /\ ret' \in [Proc -> {"getblk", "geteblk", "bread", "breada", "ahead"}]
        /\ want' \in [Proc -> Block \cup {NoBlock}]
        /\ bp'[p] = NoBuf /\ ret'[p] = "getblk"
        /\ \A q \in Proc : q # p => /\ ret'[q] = ret[q] /\ bp'[q] = bp[q]
                                    /\ want'[q] = want[q]
    BY <1>1 DEF BInv, TypeOK
  <1> QED  BY <1>1, <1>b, <1>3, <1>4, <1>5, StartOwnedInv


\* The end of a transfer, by interrupt or inside strategy.
LEMMA IodoneInv ==
    ASSUME BInv, NEW b \in Buf, NEW err \in BOOLEAN, Iodone(b, err)
    PROVE  BInv'
  <1> USE BufferCacheAssumption DEF BInv
  <1> DEFINE f == flags[b] \cup {"DONE"} \cup (IF err THEN {"ERROR"} ELSE {})
  <1>a. /\ b \in io /\ io' = io \ {b} /\ UNCHANGED <<pc, ret, want, ahead, bp, bq, cpu>>
        /\ data' = IF ~ err /\ "READ" \in flags[b]
                   THEN [data EXCEPT ![b] = disk[blk[b]]] ELSE data
        /\ disk' = IF ~ err /\ "READ" \notin flags[b]
                   THEN [disk EXCEPT ![blk[b]] = data[b]] ELSE disk
    BY DEF Iodone, callVars
  <1>b. \/ "ASYNC" \in f /\ Brelse(b, f)
        \/ /\ "ASYNC" \notin f /\ flags' = [flags EXCEPT ![b] = f \ {"WANTED"}]
           /\ chan' = Awakened({b}) /\ UNCHANGED <<blk, free, freeWanted>>
    BY DEF Iodone, Unattended, IodoneWakes
  <1>c. /\ "BUSY" \in flags[b] /\ blk[b] \in Block
        /\ {"DONE", "DELWRI", "ERROR"} \cap flags[b] = {}
        /\ "READ" \notin flags[b] => data[b] \in Val
        /\ "ASYNC" \notin flags[b] => \E q \in Proc : bp[q] = b
    BY <1>a DEF InTransfer
  <1>d. /\ f \in SUBSET Flag /\ "BUSY" \in f /\ "DONE" \in f /\ "DELWRI" \notin f
        /\ "ERROR" \in f <=> err
        /\ "WANTED" \in f <=> "WANTED" \in flags[b]
        /\ "ASYNC" \in f <=> "ASYNC" \in flags[b]
        /\ "READ" \in f <=> "READ" \in flags[b]
    <2>1. flags[b] \in SUBSET Flag /\ {"DONE", "ERROR"} \in SUBSET Flag
      BY DEF TypeOK, Flag
    <2> QED  BY <1>c, <2>1
  <1> HIDE DEF f
  <1>e. /\ data' \in [Buf -> Val \cup {Stale}] /\ disk' \in [Block -> Val]
        /\ \A c \in Buf : c # b => data'[c] = data[c] /\ (blk[c] # blk[b] => disk'[blk[c]] = disk[blk[c]])
        /\ ~ err => data'[b] = disk'[blk[b]]
    <2>1. data \in [Buf -> Val \cup {Stale}] /\ disk \in [Block -> Val]
      BY DEF TypeOK
    <2>2. CASE err
      BY <1>a, <2>1, <2>2
    <2>3. CASE ~ err /\ "READ" \in flags[b]
      BY <1>a, <1>c, <2>1, <2>3
    <2>4. CASE ~ err /\ "READ" \notin flags[b]
      BY <1>a, <1>c, <2>1, <2>4
    <2> QED  BY <2>2, <2>3, <2>4
  <1>g. "ASYNC" \in f => \A q \in Proc : ~ Owns(q, b)
    BY <1>d DEF For, OwnedIsBusy
  <1>h. /\ flags' \in [Buf -> SUBSET Flag] /\ blk' \in [Buf -> Block \cup {NoBlock}]
        /\ \A c \in Buf : c # b => flags'[c] = flags[c] /\ blk'[c] = blk[c]
        /\ free' \in Seq(Buf) /\ NoDup(free') /\ freeWanted' \in BOOLEAN
        /\ chan' \in [Proc -> Buf \cup {NoChan, FreeList}]
        /\ "ASYNC" \in f => /\ Elems(free') = Elems(free) \cup {b}
                            /\ flags'[b] = f \ {"WANTED", "BUSY", "ASYNC", "AGE"}
                            /\ blk'[b] = IF err THEN NoBlock ELSE blk[b]
        /\ "ASYNC" \notin f => /\ flags'[b] = f \ {"WANTED"}
                               /\ UNCHANGED <<blk, free, freeWanted>>
        /\ \A q \in Proc : chan'[q] # NoChan =>
             /\ chan'[q] = chan[q]
             /\ chan[q] = b => "ASYNC" \in f /\ pc[q] # "getblk"
             /\ chan[q] = FreeList => "ASYNC" \notin f
    <2>1. CASE "ASYNC" \in f /\ Brelse(b, f)
      <3>1. /\ free' \in Seq(Buf) /\ NoDup(free') /\ Elems(free') = Elems(free) \cup {b}
            /\ flags' \in [Buf -> SUBSET Flag] /\ blk' \in [Buf -> Block \cup {NoBlock}]
            /\ \A c \in Buf : c # b => flags'[c] = flags[c] /\ blk'[c] = blk[c]
            /\ flags'[b] = f \ {"WANTED", "BUSY", "ASYNC", "AGE"}
            /\ blk'[b] = IF "ERROR" \in f THEN NoBlock ELSE blk[b]
            /\ freeWanted' = FALSE
            /\ chan' \in [Proc -> Buf \cup {NoChan, FreeList}]
            /\ \A q \in Proc : chan'[q] # NoChan =>
                 /\ chan'[q] = chan[q] /\ chan[q] # FreeList
                 /\ chan[q] = b => pc[q] # "getblk"
        BY <1>c, <1>d, <2>1, BrelseEffect
      <3> HIDE DEF BInv
      <3> QED  BY <1>d, <2>1, <3>1
    <2>2. CASE /\ "ASYNC" \notin f /\ flags' = [flags EXCEPT ![b] = f \ {"WANTED"}]
               /\ chan' = Awakened({b}) /\ UNCHANGED <<blk, free, freeWanted>>
      <3>1. flags \in [Buf -> SUBSET Flag] /\ f \ {"WANTED"} \in SUBSET Flag
        BY <1>d DEF TypeOK
      <3>2. /\ flags' \in [Buf -> SUBSET Flag] /\ flags'[b] = f \ {"WANTED"}
            /\ \A c \in Buf : c # b => flags'[c] = flags[c]
        BY <2>2, <3>1
      <3>3. /\ chan' \in [Proc -> Buf \cup {NoChan, FreeList}]
            /\ \A q \in Proc : chan'[q] # NoChan => chan'[q] = chan[q] /\ chan[q] # b
        BY <2>2 DEF Awakened, TypeOK
      <3> QED  BY <2>2, <3>2, <3>3 DEF TypeOK, ListSound
    <2> QED  BY <1>b, <2>1, <2>2
  <1>i. \A q \in Proc, c \in Buf : Owns(q, c)' <=> Owns(q, c)
    BY <1>a DEF Owns
  <1>j. "BUSY" \in flags'[b] <=> "ASYNC" \notin f
    BY <1>d, <1>h
  <1>k. blk'[b] # NoBlock => blk'[b] = blk[b]
    BY <1>h
  <1> HIDE DEF BInv
  <1>1. TypeOK'
    BY <1>a, <1>e, <1>h DEF BInv, TypeOK
  <1>2. ListSound'
    <2>1. \A c \in Buf : "BUSY" \in flags'[c] <=> c \notin Elems(free')
      <3> TAKE c \in Buf
      <3>1. CASE "ASYNC" \in f
        BY <1>h, <1>j, <3>1 DEF BInv, ListSound
      <3>2. CASE "ASYNC" \notin f
        BY <1>c, <1>h, <1>j, <3>2 DEF BInv, ListSound
      <3> QED  BY <3>1, <3>2
    <2> QED  BY <1>h, <2>1 DEF ListSound
  <1>3. NoLeak'
    <2> SUFFICES ASSUME NEW c \in Buf, "BUSY" \in flags'[c]
                 PROVE  c \in io' \/ \E q \in Proc : Owns(q, c)'
      BY DEF NoLeak
    <2>1. CASE c = b
      <3>1. PICK q \in Proc : bp[q] = b
        BY <1>c, <1>d, <1>j, <2>1
      <3> QED  BY <1>i, <2>1, <3>1 DEF Owns
    <2>2. CASE c # b
      BY <1>a, <1>h, <1>i, <2>2 DEF BInv, NoLeak
    <2> QED  BY <2>1, <2>2
  <1>4. OneBuffer'
    BY <1>h, <1>k DEF BInv, OneBuffer
  <1>5. OneOwner'
    BY <1>a, <1>i DEF BInv, OneOwner
  <1>6. OwnedIsBusy'
    <2>1. \A q \in Proc, c \in Buf :
             Owns(q, c)' => "BUSY" \in flags'[c] /\ "ASYNC" \notin flags'[c]
      <3> TAKE q \in Proc, c \in Buf
      <3>1. CASE c = b
        BY <1>d, <1>g, <1>h, <1>i, <1>j, <3>1
      <3>2. CASE c # b
        BY <1>h, <1>i, <3>2 DEF BInv, For, OwnedIsBusy
      <3> QED  BY <3>1, <3>2
    <2>u. \A q \in Proc, c \in Buf : Owns(q, c) => blk'[c] = blk[c]
      BY <1>g, <1>h
    <2>2. \A q \in Proc : bp'[q] # NoBuf => For(bp[q], want[q])'
      <3> TAKE q \in Proc
      <3>1. bp[q] # NoBuf => bp[q] \in Buf /\ Owns(q, bp[q])
        BY DEF BInv, TypeOK, Owns
      <3> QED  BY <1>a, <1>c, <1>h, <2>u, <3>1 DEF BInv, For, OwnedIsBusy
    <2>3. \A q \in Proc : pc'[q] = "got" /\ ret'[q] = "ahead" => For(bq[q], ahead[q])'
      <3> TAKE q \in Proc
      <3>1. pc[q] = "got" /\ ret[q] = "ahead" => bq[q] \in Buf /\ Owns(q, bq[q])
        BY DEF BInv, TypeOK, Owns, Places
      <3> QED  BY <1>a, <1>c, <1>h, <2>u, <3>1 DEF BInv, For, OwnedIsBusy
    <2> QED  BY <2>1, <2>2, <2>3 DEF For, OwnedIsBusy
  <1>7. NoLostWakeup'
    <2> SUFFICES ASSUME NEW q \in Proc, chan'[q] # NoChan
                 PROVE  \/ chan[q] = FreeList /\ pc[q] = "getblk" /\ freeWanted' /\ free' = <<>>
                        \/ chan[q] \in io' /\ pc[q] \in {"iowait", "bwrite"}
                        \/ /\ chan[q] \in Buf /\ pc[q] = "getblk"
                           /\ {"BUSY", "WANTED"} \subseteq flags'[chan[q]]
      BY <1>a, <1>h DEF NoLostWakeup
    <2>1. /\ chan'[q] = chan[q] /\ (chan[q] = b => "ASYNC" \in f /\ pc[q] # "getblk")
          /\ chan[q] = FreeList => free' = free /\ freeWanted' = freeWanted
      BY <1>h
    <2>2. chan[q] # b
      <3> SUFFICES ASSUME chan[q] = b PROVE FALSE
        OBVIOUS
      <3>1. pc[q] \in {"iowait", "bwrite"}
        BY <2>1 DEF BInv, NoLostWakeup
      <3>2. bp[q] = b
        BY <3>1 DEF BInv, Transfers
      <3> QED  BY <1>g, <2>1, <3>2 DEF Owns
    <2> QED  BY <1>a, <1>h, <2>1, <2>2 DEF BInv, NoLostWakeup
  <1>8. Places'
    BY <1>a DEF BInv, Places
  <1>9. Transfers'
    <2> SUFFICES ASSUME NEW q \in Proc PROVE Transfers!(q)'
      BY DEF Transfers
    <2>1. chan'[q] # NoChan => chan'[q] = chan[q]
      BY <1>h
    <2>2. bp[q] # NoBuf /\ bp[q] # b => flags'[bp[q]] = flags[bp[q]]
      BY <1>h DEF BInv, TypeOK
    <2>3. "DONE" \in flags'[b]
      BY <1>d, <1>h
    <2> QED  BY <1>a, <2>1, <2>2, <2>3 DEF BInv, Transfers
  <1>10. InTransfer'
    <2>1. io \subseteq Buf
      BY DEF BInv, TypeOK
    <2> QED  BY <1>a, <1>e, <1>h, <2>1 DEF BInv, InTransfer
  <1>11. Contents'
    <2>1. ASSUME NEW c \in Buf, c # b PROVE Contents!(c)'
      <3>1. blk[c] # NoBlock => blk[c] # blk[b]
        BY <1>c, <2>1 DEF BInv, OneBuffer
      <3> QED  BY <1>a, <1>e, <1>h, <2>1, <3>1 DEF BInv, Contents
    <2>2. Contents!(b)'
      BY <1>a, <1>d, <1>e, <1>h, <1>j, <1>k
    <2> QED  BY <2>1, <2>2 DEF Contents
  <1> QED  BY <1>1, <1>2, <1>3, <1>4, <1>5, <1>6, <1>7, <1>8, <1>9, <1>10, <1>11 DEF BInv

-----------------------------------------------------------------------------
(* The invariant.                                                          *)

\* At boot every buffer is on the list, which has as many places.
LEMMA InitBInv == Init => BInv
  <1> SUFFICES ASSUME Init PROVE BInv
    OBVIOUS
  <1> USE BufferCacheAssumption
  <1> DEFINE n == Cardinality(Buf)
  <1>1. n \in Nat /\ free \in [1 .. n -> Buf] /\ DOMAIN free = 1 .. n
        /\ \A i, j \in 1 .. n : free[i] = free[j] => i = j
    BY FS_CardinalityType DEF Init
  <1>2. free \in Seq(Buf) /\ NoDup(free)
    BY <1>1 DEF NoDup
  <1>3. Elems(free) = Buf
    <2>1. free \in Injection(1 .. n, Buf)
      BY <1>1 DEF Injection, IsInjective
    <2>2. IsFiniteSet(1 .. n) /\ Cardinality(1 .. n) = n
      BY <1>1, FS_Interval
    <2>3. free \in Surjection(1 .. n, Buf)
      BY <2>1, <2>2, FS_Injection
    <2> QED  BY <1>1, <2>3 DEF Surjection, Elems
  <1>4. TypeOK
    BY <1>2 DEF Init, TypeOK, Place
  <1>5. ListSound
    BY <1>2, <1>3 DEF Init, ListSound
  <1>6. NoLeak /\ OneBuffer /\ InTransfer /\ Contents
    BY DEF Init, NoLeak, OneBuffer, InTransfer, Contents
  <1>7. OneOwner /\ OwnedIsBusy /\ NoLostWakeup
    BY DEF Init, OneOwner, For, OwnedIsBusy, NoLostWakeup, Owns
  <1>8. Places /\ Transfers
    BY DEF Init, Places, Transfers, Outside, Searching
  <1> QED  BY <1>4, <1>5, <1>6, <1>7, <1>8 DEF BInv

\* A step that changes nothing.
LEMMA StutterBInv ==
    ASSUME BInv, UNCHANGED vars
    PROVE  BInv'
  <1> USE DEF BInv, vars
  <1>1. TypeOK' /\ ListSound' /\ OneBuffer'
    BY DEF TypeOK, ListSound, OneBuffer
  <1>2. NoLeak' /\ OneOwner' /\ OwnedIsBusy'
    BY DEF NoLeak, OneOwner, For, OwnedIsBusy, Owns
  <1>3. NoLostWakeup' /\ Places' /\ Transfers'
    BY DEF NoLostWakeup, Places, Transfers
  <1>4. InTransfer' /\ Contents'
    BY DEF InTransfer, Contents
  <1> QED  BY <1>1, <1>2, <1>3, <1>4

\* Every step of the cache keeps the invariant.
LEMMA NextBInv == BInv /\ SearchSound /\ [Next]_vars => BInv'
  <1> SUFFICES ASSUME BInv, SearchSound, [Next]_vars PROVE BInv'
    OBVIOUS
  <1>1. CASE Interrupt
    BY <1>1, IodoneInv DEF Interrupt
  <1>2. ASSUME NEW p \in Proc, Call(p) PROVE BInv'
    <2>1. CASE Getblk(p) \/ Bread(p) \/ Geteblk(p)
      <3>1. PICK r \in {"getblk", "bread", "geteblk"}, k \in Block \cup {NoBlock} :
               CallGetblk(p, r, k) /\ (r = "geteblk" <=> k = NoBlock)
        BY <2>1, BufferCacheAssumption DEF Getblk, Bread, Geteblk
      <3> QED  BY <3>1, CallGetblkInv
    <2>2. CASE Breada(p)
      BY <2>2, BreadaInv
    <2>3. CASE CallBflush(p)
      BY <2>3, CallBflushInv
    <2> QED  BY <1>2, <2>1, <2>2, <2>3 DEF Call
  <1>3. ASSUME NEW p \in Proc, Within(p) PROVE BInv'
    BY <1>3, GetblkFindsInv, GetblkBusyInv, GetblkHitInv, GetblkNoneInv, GetblkFlushInv, GetblkTakeInv,
       AgeInv, GotOwnInv, GotReadInv, GotCachedInv, ReadAheadInv, AheadReadInv,
       AheadCachedInv, BreadaEndInv, IowaitSleepInv, IowaitReadInv, BwriteEndInv,
       BflushWriteInv, BflushEndInv DEF Within
  <1>4. ASSUME NEW p \in Proc, Release(p) PROVE BInv'
    BY <1>4, CallBrelseInv, BwriteInv, BawriteInv, BdwriteInv, TrapInv, StutterBInv
       DEF Release, Trapped
  <1>5. CASE UNCHANGED vars
    BY <1>5, StutterBInv
  <1> QED  BY <1>1, <1>2, <1>3, <1>4, <1>5 DEF Next

\* A process goes on in the kernel: nobody else has just searched.
LEMMA SearchAlone ==
    ASSUME SearchSound, NEW p \in Proc, Runs(p), pc'[p] # "found",
           \A q \in Proc : q # p => pc'[q] = pc[q]
    PROVE  SearchSound'
  <1>1. \A q \in Proc : q # p => pc[q] # "found"
    BY BufferCacheAssumption DEF SearchSound, Runs
  <1> QED  BY <1>1 DEF SearchSound

\* Between the two tests of getblk only a transfer can end: it leaves the
\* buffer that was found as it is, or for no block and in error.
LEMMA NextSearchSound == BInv /\ SearchSound /\ [Next]_vars => SearchSound'
  <1> SUFFICES ASSUME BInv, SearchSound, [Next]_vars PROVE SearchSound'
    OBVIOUS
  <1> pc \in [Proc -> Place]
    BY DEF BInv, TypeOK
  <1>1. ASSUME NEW b \in Buf, NEW err \in BOOLEAN, Iodone(b, err) PROVE SearchSound'
    <2> SUFFICES ASSUME NEW p \in Proc, pc'[p] = "found"
                 PROVE  cpu' = p /\ For(bq[p], Target(p))'
      BY DEF SearchSound
    <2>1. b \in io /\ UNCHANGED <<pc, ret, want, ahead, bq, cpu>>
      BY <1>1 DEF Iodone, callVars
    <2>2. /\ cpu = p /\ For(bq[p], Target(p)) /\ Target(p)' = Target(p)
          /\ bq[p] \in Buf
      BY <2>1, BufferCacheAssumption DEF SearchSound, Target, BInv, Places, TypeOK
    <2>3. "ERROR" \notin flags[b] /\ "BUSY" \in flags[b] /\ flags[b] \in SUBSET Flag
      BY <2>1 DEF BInv, InTransfer, TypeOK
    <2> DEFINE f == flags[b] \cup {"DONE"} \cup (IF err THEN {"ERROR"} ELSE {})
    <2>4. f \in SUBSET Flag /\ ("WANTED" \in f <=> "WANTED" \in flags[b])
      <3>1. {"DONE", "ERROR"} \in SUBSET Flag
        BY DEF Flag
      <3> QED  BY <2>3, <3>1
    <2>5. \/ Brelse(b, f)
          \/ flags' = [flags EXCEPT ![b] = f \ {"WANTED"}] /\ UNCHANGED blk
      BY <1>1 DEF Iodone, Unattended
    <2> HIDE DEF f
    <2>6. /\ \A c \in Buf : c # b => flags'[c] = flags[c] /\ blk'[c] = blk[c]
          /\ blk'[b] = blk[b] \/ (blk'[b] = NoBlock /\ "ERROR" \in flags'[b])
      <3>1. CASE Brelse(b, f)
        <4>1. /\ \A c \in Buf : c # b => flags'[c] = flags[c] /\ blk'[c] = blk[c]
              /\ flags'[b] = f \ {"WANTED", "BUSY", "ASYNC", "AGE"}
              /\ blk'[b] = IF "ERROR" \in f THEN NoBlock ELSE blk[b]
          BY <2>3, <2>4, <3>1, BrelseEffect
        <4> QED  BY <4>1
      <3>2. CASE flags' = [flags EXCEPT ![b] = f \ {"WANTED"}] /\ UNCHANGED blk
        BY <3>2 DEF BInv, TypeOK
      <3> QED  BY <2>5, <3>1, <3>2
    <2>7. CASE bq[p] = b
      BY <2>1, <2>2, <2>3, <2>6, <2>7 DEF For
    <2>8. CASE bq[p] # b
      BY <2>1, <2>2, <2>6, <2>8 DEF For
    <2> QED  BY <2>1, <2>2, <2>7, <2>8
  <1>2. ASSUME NEW p \in Proc, Call(p) PROVE SearchSound'
    BY <1>2, SearchAlone DEF Call, Getblk, Bread, Geteblk, Breada, CallBflush, CallGetblk, At, Goto
  <1>3. ASSUME NEW p \in Proc, Within(p) PROVE SearchSound'
    <2>1. CASE GetblkFinds(p)
      <3>1. PICK b \in Buf :
              /\ Runs(p) /\ blk[b] = Target(p) /\ bq' = [bq EXCEPT ![p] = b]
              /\ pc' = [pc EXCEPT ![p] = "found"] /\ cpu' = p
              /\ UNCHANGED <<blk, ret, want, ahead>>
        BY <2>1 DEF GetblkFinds, At, Goto, bufVars, callVars
      <3>2. \A q \in Proc : q # p => pc'[q] # "found"
        BY <3>1, BufferCacheAssumption DEF SearchSound, Runs
      <3>3. bq'[p] = b /\ For(b, Target(p))'
        BY <3>1 DEF BInv, TypeOK, For, Target
      <3> QED  BY <3>1, <3>2, <3>3 DEF SearchSound, For, Target
    <2>2. CASE \/ GetblkBusy(p) \/ GetblkHit(p) \/ GetblkNone(p) \/ GetblkFlush(p)
               \/ GetblkTake(p) \/ GotOwn(p) \/ GotRead(p) \/ GotCached(p)
      BY <2>2, SearchAlone DEF GetblkBusy, GetblkHit, GetblkNone, GetblkFlush, GetblkTake,
         GotOwn, GotRead, GotCached, Misses, Give, At, Goto, Own, SleepOn
    <2>3. CASE \/ ReadAhead(p) \/ AheadRead(p) \/ AheadCached(p) \/ BreadaEnd(p)
               \/ IowaitSleep(p) \/ IowaitRead(p) \/ BwriteEnd(p)
               \/ BflushWrite(p) \/ BflushEnd(p)
      BY <2>3, SearchAlone DEF ReadAhead, AheadRead, AheadCached, BreadaEnd, IowaitSleep,
         IowaitRead, BwriteEnd, BflushWrite, BflushEnd, At, Goto, Own, SleepOn, Finish
    <2>4. CASE Age(p)
      BY <2>4, AfterAgeIs, SearchAlone DEF Age, At
    <2> QED  BY <1>3, <2>1, <2>2, <2>3, <2>4 DEF Within
  <1>4. ASSUME NEW p \in Proc, Release(p) PROVE SearchSound'
    <2>1. CASE CallBrelse(p) \/ Bwrite(p) \/ Bawrite(p) \/ Bdwrite(p) \/ Trap(p)
      BY <2>1, SearchAlone DEF CallBrelse, Bwrite, Bawrite, Bdwrite, Trap, MayWrite, At, Goto,
         Finish
    <2>2. CASE Trapped(p)
      BY <2>2 DEF Trapped, vars, SearchSound, For, Target
    <2> QED  BY <1>4, <2>1, <2>2 DEF Release
  <1>5. CASE UNCHANGED vars
    BY <1>5 DEF vars, SearchSound, For, Target
  <1> QED  BY <1>1, <1>2, <1>3, <1>4, <1>5 DEF Next, Interrupt

\* The inductive invariant.
CacheInv == BInv /\ SearchSound

\* The invariant holds in every state of the cache.
THEOREM Invariance == Spec => []CacheInv
  <1>1. Init => SearchSound
    BY DEF Init, SearchSound
  <1>2. CacheInv /\ [Next]_vars => CacheInv'
    BY NextBInv, NextSearchSound DEF CacheInv
  <1> QED  BY <1>1, <1>2, InitBInv, PTL DEF Spec, CacheInv

\* What the invariant says of the promises of bio.c.
LEMMA BInvAccounted == BInv => Accounted
  <1> SUFFICES ASSUME BInv PROVE Accounted
    OBVIOUS
  <1> USE BufferCacheAssumption DEF BInv
  <1>1. TypeOK
    OBVIOUS
  <1>2. \A p \in Proc, b \in Buf : b \in Owned(p) <=> Owns(p, b)
    BY DEF Owned, Owns
  <1>3. \A p \in Proc : Owned(p) \subseteq Buf
    BY DEF Owned, TypeOK
  <1>4. Exclusive
    <2>1. \A p, q \in Proc : p # q => Owned(p) \cap Owned(q) = {}
      BY <1>2, <1>3 DEF OneOwner
    <2>2. ASSUME NEW p \in Proc, NEW b \in Owned(p)
          PROVE  flags[b] \cap {"BUSY", "ASYNC"} = {"BUSY"}
      <3>1. "BUSY" \in flags[b] /\ "ASYNC" \notin flags[b]
        BY <1>2, <1>3 DEF For, OwnedIsBusy
      <3> QED  BY <3>1
    <2>3. \A p \in Proc : bp[p] # NoBuf =>
            blk[bp[p]] = want[p] \/ (blk[bp[p]] = NoBlock /\ "ERROR" \in flags[bp[p]])
      BY DEF For, OwnedIsBusy
    <2> QED  BY <2>1, <2>2, <2>3 DEF Exclusive
  <1>5. Available = Elems(free)
    BY DEF Available, Elems
  <1>6. OneVersion
    <2>1. ASSUME NEW b \in Available, blk[b] # NoBlock, "DONE" \in flags[b],
                 "DELWRI" \notin flags[b]
          PROVE  data[b] = disk[blk[b]]
      <3>1. b \in Buf /\ "BUSY" \notin flags[b]
        BY <1>5 DEF ListSound, Elems, TypeOK
      <3>2. b \notin io /\ "ERROR" \notin flags[b]
        BY <2>1, <3>1 DEF InTransfer, Contents
      <3> QED  BY <2>1, <3>1, <3>2 DEF Contents
    <2> QED  BY <2>1 DEF OneVersion, CleanMatchesDisk, OneBuffer
  <1>7. \A i, j \in DOMAIN free : free[i] = free[j] => i = j
    BY DEF ListSound, NoDup
  <1>8. ASSUME NEW b \in Buf
        PROVE  IF "BUSY" \in flags[b]
               THEN b \notin Available /\ (b \in io \/ \E p \in Proc : b \in Owned(p))
               ELSE b \in Available
    BY <1>2, <1>5 DEF ListSound, NoLeak
  <1> QED  BY <1>1, <1>4, <1>6, <1>7, <1>8 DEF Accounted

\* Type correctness, one owner for a busy buffer, one buffer and one version
\* for a block, and no buffer lost: for any number of buffers and processes.
THEOREM CacheAccounted == Spec => []Accounted
  BY Invariance, BInvAccounted, PTL DEF CacheInv

\* Nobody in bio.c sleeps on an address whose wakeup has already been given.
THEOREM CacheWakesSleepers == Spec => []NoLostWakeup
  <1>1. CacheInv => NoLostWakeup
    BY DEF CacheInv, BInv
  <1> QED  BY <1>1, Invariance, PTL

-----------------------------------------------------------------------------
(* The refinement: the cache is the store of BlockStore.                   *)

\* What a reader of a block finds and who owns it, said without a choice.
ContentSeen == \A k \in Block :
    /\ \A b \in Buf : Current(b, k) => Content(k) = data[b]
    /\ (\A b \in Buf : ~ Current(b, k)) => Content(k) = disk[k]

\* p has been given a buffer that is for block k.
Has(p, k) == bp[p] # NoBuf /\ blk[bp[p]] = k

OwnerSeen == \A k \in Block :
    /\ \A p \in Proc : Has(p, k) => Owner(k) = p
    /\ (\A p \in Proc : ~ Has(p, k)) => Owner(k) = NoProc

\* A block has at most one buffer, so what a reader of it finds is determined.
LEMMA ContentIs == BInv => ContentSeen
  <1> SUFFICES ASSUME BInv, NEW k \in Block
               PROVE  /\ \A b \in Buf : Current(b, k) => Content(k) = data[b]
                      /\ (\A b \in Buf : ~ Current(b, k)) => Content(k) = disk[k]
    BY DEF ContentSeen
  <1>1. ASSUME NEW b \in Buf, Current(b, k) PROVE Content(k) = data[b]
    <2> DEFINE c == CHOOSE c \in Buf : Current(c, k)
    <2>1. c \in Buf /\ Current(c, k)
      BY <1>1
    <2>2. c = b
      <3> HIDE DEF c
      <3> QED  BY <1>1, <2>1, BufferCacheAssumption DEF Current, BInv, OneBuffer
    <2> QED  BY <1>1, <2>2 DEF Content
  <1>2. ASSUME \A b \in Buf : ~ Current(b, k) PROVE Content(k) = disk[k]
    BY <1>2 DEF Content
  <1> QED  BY <1>1, <1>2

\* A buffer has at most one owner, so the owner of a block is determined.
LEMMA OwnerIs == BInv => OwnerSeen
  <1> SUFFICES ASSUME BInv, NEW k \in Block
               PROVE  /\ \A p \in Proc : Has(p, k) => Owner(k) = p
                      /\ (\A p \in Proc : ~ Has(p, k)) => Owner(k) = NoProc
    BY DEF OwnerSeen
  <1>1. ASSUME NEW p \in Proc, Has(p, k) PROVE Owner(k) = p
    <2> DEFINE q == CHOOSE q \in Proc : bp[q] # NoBuf /\ blk[bp[q]] = k
    <2>1. q \in Proc /\ bp[q] # NoBuf /\ blk[bp[q]] = k
      BY <1>1 DEF Has
    <2>2. q = p
      <3> HIDE DEF q
      <3>1. bp[p] \in Buf /\ bp[q] \in Buf
        BY <1>1, <2>1 DEF BInv, TypeOK, Has
      <3>2. bp[p] = bp[q]
        BY <1>1, <2>1, <3>1, BufferCacheAssumption DEF BInv, OneBuffer, Has
      <3> QED  BY <2>1, <3>1, <3>2 DEF BInv, OneOwner, Owns
    <2> QED  BY <1>1, <2>2 DEF Owner, Has
  <1>2. ASSUME \A p \in Proc : ~ Has(p, k) PROVE Owner(k) = NoProc
    BY <1>2 DEF Owner, Has
  <1> QED  BY <1>1, <1>2

\* A reader finds what it found, if the block's buffer is current as before,
\* or was a copy of what is on the disk.
LEMMA SameContent ==
    ASSUME BInv, BInv', NEW k \in Block, disk'[k] = disk[k],
           \A b \in Buf : \/ Current(b, k)' <=> Current(b, k)
                          \/ ~ Current(b, k)' /\ data[b] = disk[k],
           \A b \in Buf : Current(b, k)' => data'[b] = data[b]
    PROVE  Content(k)' = Content(k)
  <1>1. ContentSeen /\ ContentSeen'
    BY ContentIs, PTL
  <1>2. CASE \E b \in Buf : Current(b, k)'
    <2>1. PICK b \in Buf : Current(b, k)'
      BY <1>2
    <2>2. Content(k)' = data'[b]
      BY <1>1, <2>1 DEF ContentSeen
    <2>3. Content(k) = data[b]
      BY <1>1, <2>1 DEF ContentSeen
    <2> QED  BY <2>1, <2>2, <2>3
  <1>3. CASE \A b \in Buf : ~ Current(b, k)'
    <2>1. Content(k)' = disk[k]
      BY <1>1, <1>3 DEF ContentSeen
    <2>2. CASE \E b \in Buf : Current(b, k)
      <3>1. PICK b \in Buf : Current(b, k)
        BY <2>2
      <3>2. data[b] = disk[k]
        BY <1>3, <3>1
      <3> QED  BY <1>1, <2>1, <3>1, <3>2 DEF ContentSeen
    <2>3. CASE \A b \in Buf : ~ Current(b, k)
      BY <1>1, <2>1, <2>3 DEF ContentSeen
    <2> QED  BY <2>2, <2>3
  <1> QED  BY <1>2, <1>3

\* The owner of a block is who it was, if the same processes have a buffer
\* for it.
LEMMA SameOwner ==
    ASSUME BInv, BInv', NEW k \in Block,
           \A q \in Proc : Has(q, k)' <=> Has(q, k)
    PROVE  Owner(k)' = Owner(k)
  <1>1. OwnerSeen /\ OwnerSeen'
    BY OwnerIs, PTL
  <1>2. CASE \E q \in Proc : Has(q, k)
    BY <1>1, <1>2 DEF OwnerSeen
  <1>3. CASE \A q \in Proc : ~ Has(q, k)
    BY <1>1, <1>3 DEF OwnerSeen
  <1> QED  BY <1>2, <1>3

\* The steps of the store, said block by block.  Nothing changes.
LEMMA StoreStays ==
    ASSUME \A k \in Block : Content(k)' = Content(k) /\ Owner(k)' = Owner(k), disk' = disk
    PROVE  UNCHANGED Store!vars
  BY DEF Store!vars

\* A process has a block that nobody had.
LEMMA StoreAcquires ==
    ASSUME NEW k \in Block, NEW p \in Proc, Owner(k) = NoProc, Owner(k)' = p,
           \A j \in Block : Content(j)' = Content(j) /\ (j # k => Owner(j)' = Owner(j)),
           disk' = disk
    PROVE  Store!Next
  <1>1. Store!Acquire(k, p)
    BY DEF Store!Acquire
  <1> QED  BY <1>1 DEF Store!Next

\* A block has no owner any more.
LEMMA StoreReleases ==
    ASSUME NEW k \in Block, Owner(k)' = NoProc,
           \A j \in Block : Content(j)' = Content(j) /\ (j # k => Owner(j)' = Owner(j)),
           disk' = disk
    PROVE  Store!Next
  <1>1. Store!Release(k)
    BY DEF Store!Release
  <1> QED  BY <1>1 DEF Store!Next

\* The owner of a block changes it, and keeps it or lets it go.
LEMMA StoreWrites ==
    ASSUME NEW k \in Block, NEW v \in Val, Owner(k) # NoProc, Content(k)' = v,
           \A j \in Block : j # k => Content(j)' = Content(j) /\ Owner(j)' = Owner(j),
           Owner(k)' \in {Owner(k), NoProc}, disk' = disk
    PROVE  Store!Next
  <1>1. CASE Owner(k)' = Owner(k)
    <2>1. [j \in Block |-> Owner(j)]' = [j \in Block |-> Owner(j)]
      BY <1>1
    <2>2. Store!Write(k, v)
      BY <2>1 DEF Store!Write
    <2> QED  BY <2>2 DEF Store!Next
  <1>2. CASE Owner(k)' = NoProc
    <2>1. [j \in Block |-> Owner(j)]' = [[j \in Block |-> Owner(j)] EXCEPT ![k] = NoProc]
      BY <1>2
    <2>2. Store!Write(k, v)
      BY <2>1 DEF Store!Write
    <2> QED  BY <2>2 DEF Store!Next
  <1> QED  BY <1>1, <1>2

\* The contents of a block are on the disk.
LEMMA StoreSettles ==
    ASSUME NEW k \in Block, \A j \in Block : Content(j)' = Content(j) /\ Owner(j)' = Owner(j),
           disk' = [disk EXCEPT ![k] = Content(k)]
    PROVE  Store!Next
  <1>1. Store!Settle(k)
    BY DEF Store!Settle
  <1> QED  BY <1>1 DEF Store!Next

\* What the disk lacked is lost.
LEMMA StoreLoses ==
    ASSUME NEW k \in Block, MayFail, Content(k)' = disk[k],
           \A j \in Block : (j # k => Content(j)' = Content(j)) /\ Owner(j)' = Owner(j),
           disk' = disk
    PROVE  Store!Next
  <1>1. Store!Lose(k)
    BY DEF Store!Lose
  <1> QED  BY <1>1 DEF Store!Next


\* A step that leaves the contents and the outcomes of transfers alone, and
\* gives nobody a buffer.
LEMMA QuietStays ==
    ASSUME BInv, BInv', UNCHANGED <<blk, data, io, disk, bp>>,
           \A b \in Buf, f \in {"DONE", "ERROR", "READ"} : f \in flags'[b] <=> f \in flags[b]
    PROVE  UNCHANGED Store!vars
  <1>1. \A k \in Block, b \in Buf : Current(b, k)' <=> Current(b, k)
    BY DEF Current
  <1>2. \A k \in Block : Content(k)' = Content(k)
    BY <1>1, SameContent
  <1>3. \A k \in Block : Owner(k)' = Owner(k)
    BY SameOwner DEF Has
  <1> QED  BY <1>2, <1>3, StoreStays

\* getblk gives a buffer: its block is owned from now on, unless the buffer is
\* for no block, or for the block after the one that was asked for.
LEMMA GiveStep ==
    ASSUME BInv, BInv', NEW p \in Proc, NEW b \in Buf, "BUSY" \notin flags[b],
           At(p, "getblk") \/ At(p, "found"), Give(p, b),
           UNCHANGED <<io, disk, callVars>>,
           \/ /\ ret[p] # "geteblk" /\ For(b, Target(p))
              /\ flags' = [flags EXCEPT ![b] = @ \cup {"BUSY"}]
              /\ UNCHANGED <<blk, data>>
           \/ /\ ret[p] = "geteblk" \/ ~ Incore(Target(p))
              /\ "DELWRI" \notin flags[b]
              /\ flags' = [flags EXCEPT ![b] = {"BUSY"}]
              /\ blk' = [blk EXCEPT ![b] = Target(p)]
              /\ data' = [data EXCEPT ![b] = Stale]
    PROVE  Store!Next \/ UNCHANGED Store!vars
  <1> USE BufferCacheAssumption DEF BInv
  <1>1. /\ Target(p) = IF ret[p] = "ahead" THEN ahead[p] ELSE want[p]
        /\ ret[p] = "geteblk" => Target(p) = NoBlock
        /\ want[p] \in Block \cup {NoBlock} /\ ahead[p] \in Block \cup {NoBlock}
    BY DEF TypeOK, Target, Places, At, Outside
  <1>2. /\ UNCHANGED <<io, disk, ret, want, ahead>>
        /\ \/ ret[p] = "ahead" /\ bp' = bp
           \/ ret[p] # "ahead" /\ bp' = [bp EXCEPT ![p] = b] /\ bp[p] = NoBuf
    BY DEF Give, At, callVars, Places
  <1>3. b \notin io /\ \A q \in Proc : bp[q] # b
    BY DEF InTransfer, For, OwnedIsBusy, Owns
  <1>4. \A c \in Buf : c # b => flags'[c] = flags[c] /\ blk'[c] = blk[c] /\ data'[c] = data[c]
    BY DEF TypeOK
  <1>5. ASSUME NEW k \in Block PROVE Content(k)' = Content(k)
    <2>1. ASSUME NEW c \in Buf, c # b
          PROVE  (Current(c, k)' <=> Current(c, k)) /\ data'[c] = data[c]
      BY <1>2, <1>4, <2>1 DEF Current
    <2>2. /\ \/ Current(b, k)' <=> Current(b, k)
             \/ ~ Current(b, k)' /\ data[b] = disk[k]
          /\ Current(b, k)' => data'[b] = data[b]
      <3>1. CASE flags' = [flags EXCEPT ![b] = flags[b] \cup {"BUSY"}] /\ UNCHANGED <<blk, data>>
        BY <1>2, <3>1 DEF Current, TypeOK
      <3>2. CASE flags' = [flags EXCEPT ![b] = {"BUSY"}] /\ "DELWRI" \notin flags[b]
        <4>1. ~ Current(b, k)'
          BY <1>2, <1>3, <3>2 DEF Current, TypeOK
        <4>2. Current(b, k) => data[b] = disk[k]
          BY <1>3, <3>2 DEF Current, Contents
        <4> QED  BY <4>1, <4>2
      <3> QED  BY <3>1, <3>2
    <2> HIDE DEF BInv
    <2> QED  BY <1>2, <2>1, <2>2, SameContent
  <1>6. CASE ret[p] = "ahead" \/ blk'[b] \notin Block
    <2>1. ASSUME NEW k \in Block, NEW q \in Proc PROVE Has(q, k)' <=> Has(q, k)
      <3>1. CASE bp'[q] = bp[q]
        BY <1>3, <1>4, <3>1 DEF Has, TypeOK
      <3>2. CASE bp'[q] # bp[q]
        <4>1. q = p /\ bp[q] = NoBuf /\ bp'[q] = b /\ blk'[b] \notin Block
          BY <1>2, <1>6, <3>2 DEF TypeOK
        <4> QED  BY <4>1 DEF Has
      <3> QED  BY <3>1, <3>2
    <2> HIDE DEF BInv
    <2>2. \A k \in Block : Owner(k)' = Owner(k)
      BY <2>1, SameOwner
    <2> QED  BY <1>2, <1>5, <2>2, StoreStays
  <1>7. CASE ret[p] # "ahead" /\ blk'[b] \in Block
    <2> PICK k \in Block : k = blk'[b]
      BY <1>7
    <2>1. OwnerSeen /\ OwnerSeen'
      BY OwnerIs, PTL
    <2>2. bp'[p] = b /\ b # NoBuf /\ bp[p] = NoBuf
          /\ \A q \in Proc : q # p => bp'[q] = bp[q]
      BY <1>2, <1>7 DEF TypeOK
    <2>3. \A c \in Buf : c # b => blk[c] # k
      <3>1. CASE flags' = [flags EXCEPT ![b] = flags[b] \cup {"BUSY"}] /\ UNCHANGED <<blk, data>>
        BY <3>1 DEF OneBuffer
      <3>2. CASE /\ ret[p] = "geteblk" \/ ~ Incore(Target(p))
                 /\ blk' = [blk EXCEPT ![b] = Target(p)]
        <4>1. Target(p) = k /\ ret[p] # "geteblk"
          BY <1>1, <3>2 DEF TypeOK
        <4> QED  BY <3>2, <4>1 DEF Incore
      <3> QED  BY <3>1, <3>2
    <2>4. \A q \in Proc : ~ Has(q, k)
      BY <1>3, <2>3 DEF TypeOK, Has
    <2>5. Has(p, k)'
      BY <2>2 DEF Has
    <2>6. \A j \in Block : j # k => Owner(j)' = Owner(j)
      <3> SUFFICES ASSUME NEW j \in Block, j # k PROVE Owner(j)' = Owner(j)
        OBVIOUS
      <3>1. ASSUME NEW q \in Proc PROVE Has(q, j)' <=> Has(q, j)
        <4>1. CASE q = p
          BY <2>2, <4>1 DEF Has
        <4>2. CASE q # p
          BY <1>3, <1>4, <2>2, <4>2 DEF Has, TypeOK
        <4> QED  BY <4>1, <4>2
      <3> HIDE DEF BInv
      <3> QED  BY <3>1, SameOwner
    <2>7. Owner(k) = NoProc /\ Owner(k)' = p
      BY <2>1, <2>4, <2>5 DEF OwnerSeen
    <2> HIDE DEF BInv
    <2> QED  BY <1>2, <1>5, <2>6, <2>7, StoreAcquires
  <1> QED  BY <1>6, <1>7

\* A write of what the cache holds starts, or a read of what it does not.
LEMMA StartStays ==
    ASSUME BInv, BInv', NEW b \in Buf, b \notin io, io' = io \cup {b},
           \A c \in Buf : c # b => flags'[c] = flags[c],
           "ERROR" \notin flags[b] /\ "ERROR" \notin flags'[b] /\ "DONE" \notin flags'[b],
           "DONE" \in flags[b] <=> "READ" \notin flags'[b],
           UNCHANGED <<blk, data, disk, bp>>
    PROVE  UNCHANGED Store!vars
  <1>1. \A k \in Block, c \in Buf : Current(c, k)' <=> Current(c, k)
    BY DEF Current
  <1>2. \A k \in Block : Content(k)' = Content(k)
    BY <1>1, SameContent
  <1>3. \A k \in Block : Owner(k)' = Owner(k)
    BY SameOwner DEF Has
  <1> QED  BY <1>2, <1>3, StoreStays


\* A buffer is released as it is: its block has no owner any more, if it was
\* what its owner had been given.
LEMMA ReleaseStep ==
    ASSUME BInv, BInv', NEW p \in Proc, NEW b \in Buf, Owns(p, b), b \notin io,
           Brelse(b, flags[b]), UNCHANGED <<data, io, disk>>,
           \A q \in Proc : q # p => bp'[q] = bp[q],
           \/ b = bp[p] /\ bp'[p] = NoBuf
           \/ b # bp[p] /\ bp'[p] = bp[p]
    PROVE  Store!Next \/ UNCHANGED Store!vars
  <1> USE BufferCacheAssumption DEF BInv
  <1>1. /\ \A c \in Buf : c # b => flags'[c] = flags[c] /\ blk'[c] = blk[c]
        /\ flags'[b] = flags[b] \ {"WANTED", "BUSY", "ASYNC", "AGE"}
        /\ "ERROR" \notin flags[b] => blk'[b] = blk[b]
    <2>1. "BUSY" \in flags[b] /\ flags[b] \in SUBSET Flag
      BY DEF For, OwnedIsBusy, TypeOK
    <2> QED  BY <2>1, BrelseEffect
  <1> HIDE DEF BInv
  <1>2. \A k \in Block, c \in Buf : Current(c, k)' <=> Current(c, k)
    BY <1>1 DEF Current
  <1>3. \A k \in Block : Content(k)' = Content(k)
    BY <1>2, SameContent
  <1>s. \A k \in Block, q \in Proc :
           (b # bp[p] \/ k # blk[b]) => (Has(q, k)' <=> Has(q, k))
    <2> SUFFICES ASSUME NEW k \in Block, NEW q \in Proc, b # bp[p] \/ k # blk[b]
                 PROVE  Has(q, k)' <=> Has(q, k)
      OBVIOUS
    <2>1. CASE bp[q] = b
      <3>1. q = p
        BY <2>1 DEF BInv, OneOwner, Owns
      <3> QED  BY <2>1, <3>1 DEF Has
    <2>2. CASE bp[q] # b
      <3>1. bp'[q] = bp[q] /\ (bp[q] # NoBuf => bp[q] \in Buf)
        BY <2>2 DEF BInv, TypeOK
      <3> QED  BY <1>1, <2>2, <3>1 DEF Has
    <2> QED  BY <2>1, <2>2
  <1>4. CASE b # bp[p] \/ blk[b] \notin Block
    <2>1. \A k \in Block, q \in Proc : Has(q, k)' <=> Has(q, k)
      BY <1>4, <1>s
    <2>2. \A k \in Block : Owner(k)' = Owner(k)
      BY <2>1, SameOwner
    <2> QED  BY <1>3, <2>2, StoreStays
  <1>5. CASE b = bp[p] /\ blk[b] \in Block
    <2> PICK k \in Block : k = blk[b]
      BY <1>5
    <2>2. \A q \in Proc : ~ Has(q, k)'
      <3> SUFFICES ASSUME NEW q \in Proc, Has(q, k)' PROVE FALSE
        OBVIOUS
      <3>1. q # p /\ bp[q] \in Buf /\ bp'[q] = bp[q]
        BY <1>5 DEF BInv, TypeOK, Has
      <3>2. bp[q] # b
        BY <1>5, <3>1 DEF BInv, OneOwner, Owns
      <3>3. blk[bp[q]] = k
        BY <1>1, <3>1, <3>2 DEF Has
      <3> QED  BY <3>1, <3>2, <3>3, BufferCacheAssumption DEF BInv, OneBuffer
    <2>3. OwnerSeen'
      BY OwnerIs, PTL
    <2>4. Owner(k)' = NoProc
      BY <2>2, <2>3 DEF OwnerSeen
    <2>5. \A j \in Block : j # k => Owner(j)' = Owner(j)
      BY <1>s, SameOwner
    <2> QED  BY <1>3, <2>4, <2>5, StoreReleases
  <1> QED  BY <1>4, <1>5

\* An owner leaves v in its buffer, to be written now or later, and keeps the
\* buffer or lets it go.
LEMMA WriteStep ==
    ASSUME BInv, BInv', NEW p \in Proc, NEW v \in Val, NEW b \in Buf, MayWrite(p), b = bp[p],
           data' = [data EXCEPT ![b] = v], disk' = disk, blk' = blk,
           \A c \in Buf : c # b => flags'[c] = flags[c] /\ (c \in io' <=> c \in io),
           "ERROR" \notin flags'[b],
           "DONE" \in flags'[b] \/ (b \in io' /\ "READ" \notin flags'[b]),
           \A q \in Proc : q # p => bp'[q] = bp[q],
           bp'[p] = NoBuf \/ bp'[p] = b
    PROVE  Store!Next
  <1>1. blk[b] \in Block /\ b # NoBuf
    BY MayWriteBlock, BufferCacheAssumption
  <1> PICK k \in Block : k = blk[b]
    BY <1>1
  <1>2. data'[b] = v /\ \A c \in Buf : c # b => data'[c] = data[c]
    BY DEF BInv, TypeOK
  <1>3. ContentSeen' /\ OwnerSeen /\ OwnerSeen'
    BY ContentIs, OwnerIs, PTL
  <1>4. Content(k)' = v
    <2>1. Current(b, k)'
      BY <1>1 DEF Current
    <2> QED  BY <1>2, <1>3, <2>1 DEF ContentSeen
  <1>5. \A j \in Block : j # k => Content(j)' = Content(j)
    <2> SUFFICES ASSUME NEW j \in Block, j # k PROVE Content(j)' = Content(j)
      OBVIOUS
    <2>1. \A c \in Buf : (Current(c, j)' <=> Current(c, j)) /\ (Current(c, j)' => data'[c] = data[c])
      <3> TAKE c \in Buf
      <3>1. CASE c = b
        BY <1>1, <3>1 DEF Current
      <3>2. CASE c # b
        BY <1>2, <3>2 DEF Current
      <3> QED  BY <3>1, <3>2
    <2> QED  BY <2>1, SameContent
  <1>s. \A j \in Block, q \in Proc : q # p \/ j # k => (Has(q, j)' <=> Has(q, j))
    BY <1>1 DEF Has
  <1>6. \A j \in Block : j # k => Owner(j)' = Owner(j)
    BY <1>s, SameOwner
  <1>7. Owner(k) = p /\ p # NoProc
    BY <1>1, <1>3, BufferCacheAssumption DEF OwnerSeen, Has
  <1>8. Owner(k)' \in {p, NoProc}
    <2>1. CASE bp'[p] = b
      <3>1. Has(p, k)'
        BY <1>1, <2>1 DEF Has
      <3> QED  BY <1>3, <3>1 DEF OwnerSeen
    <2>2. CASE bp'[p] = NoBuf
      <3>1. ASSUME NEW q \in Proc PROVE ~ Has(q, k)'
        <4>1. CASE q = p
          BY <2>2, <4>1 DEF Has
        <4>2. CASE q # p
          BY <1>s, <1>3, <1>7, <4>2 DEF OwnerSeen
        <4> QED  BY <4>1, <4>2
      <3> QED  BY <1>3, <3>1 DEF OwnerSeen
    <2> QED  BY <2>1, <2>2
  <1> QED  BY <1>4, <1>5, <1>6, <1>7, <1>8, StoreWrites

\* The end of a transfer: what was written has settled, or is lost.
LEMMA IodoneStep ==
    ASSUME BInv, BInv', NEW b \in Buf, NEW err \in BOOLEAN, Iodone(b, err)
    PROVE  Store!Next \/ UNCHANGED Store!vars
  <1> USE BufferCacheAssumption DEF BInv
  <1> DEFINE f == flags[b] \cup {"DONE"} \cup (IF err THEN {"ERROR"} ELSE {})
  <1>a. /\ b \in io /\ io' = io \ {b} /\ UNCHANGED <<want, bp>> /\ (err => MayFail)
        /\ data' = IF ~ err /\ "READ" \in flags[b]
                   THEN [data EXCEPT ![b] = disk[blk[b]]] ELSE data
        /\ disk' = IF ~ err /\ "READ" \notin flags[b]
                   THEN [disk EXCEPT ![blk[b]] = data[b]] ELSE disk
    BY DEF Iodone, callVars
  <1>b. \/ "ASYNC" \in f /\ Brelse(b, f)
        \/ /\ "ASYNC" \notin f /\ flags' = [flags EXCEPT ![b] = f \ {"WANTED"}] /\ UNCHANGED blk
    BY DEF Iodone, Unattended
  <1>c. /\ "BUSY" \in flags[b] /\ blk[b] \in Block
        /\ {"DONE", "ERROR"} \cap flags[b] = {}
    BY <1>a DEF InTransfer
  <1>d. /\ f \in SUBSET Flag /\ "DONE" \in f
        /\ "ERROR" \in f <=> err
        /\ "WANTED" \in f <=> "WANTED" \in flags[b]
        /\ "READ" \in f <=> "READ" \in flags[b]
    <2>1. flags[b] \in SUBSET Flag /\ {"DONE", "ERROR"} \in SUBSET Flag
      BY DEF TypeOK, Flag
    <2> QED  BY <1>c, <2>1
  <1> HIDE DEF f
  <1>e. /\ \A c \in Buf : c # b => flags'[c] = flags[c] /\ blk'[c] = blk[c]
        /\ "DONE" \in flags'[b] /\ ("ERROR" \in flags'[b] <=> err)
        /\ ~ err => blk'[b] = blk[b]
        /\ "ASYNC" \notin f => blk'[b] = blk[b]
    <2>1. CASE "ASYNC" \in f /\ Brelse(b, f)
      <3>1. /\ \A c \in Buf : c # b => flags'[c] = flags[c] /\ blk'[c] = blk[c]
            /\ flags'[b] = f \ {"WANTED", "BUSY", "ASYNC", "AGE"}
            /\ blk'[b] = IF "ERROR" \in f THEN NoBlock ELSE blk[b]
        BY <1>c, <1>d, <2>1, BrelseEffect
      <3> HIDE DEF BInv
      <3> QED  BY <1>d, <2>1, <3>1
    <2>2. CASE flags' = [flags EXCEPT ![b] = f \ {"WANTED"}] /\ UNCHANGED blk
      BY <1>d, <2>2 DEF TypeOK
    <2> QED  BY <1>b, <2>1, <2>2
  <1>f. /\ data \in [Buf -> Val \cup {Stale}] /\ disk \in [Block -> Val]
        /\ \A c \in Buf : blk[c] = blk[b] => c = b
    BY <1>c DEF TypeOK, OneBuffer
  <1>n. "ASYNC" \in f => \A q \in Proc : bp[q] # b
    <2>1. "ASYNC" \in f => "ASYNC" \in flags[b]
      BY DEF f
    <2> QED  BY <2>1 DEF OwnedIsBusy, Owns
  <1> HIDE DEF BInv
  <1>o. \A k \in Block : Owner(k)' = Owner(k)
    <2>1. ASSUME NEW k \in Block, NEW q \in Proc PROVE Has(q, k)' <=> Has(q, k)
      <3>1. bp[q] # NoBuf => bp[q] \in Buf /\ blk'[bp[q]] = blk[bp[q]]
        BY <1>e, <1>n DEF BInv, TypeOK
      <3> QED  BY <1>a, <3>1 DEF Has
    <2> QED  BY <2>1, SameOwner
  <1> PICK k \in Block : k = blk[b]
    BY <1>c
  <1>g. ASSUME NEW j \in Block, j # k PROVE Content(j)' = Content(j)
    <2>1. disk'[j] = disk[j]
      BY <1>a, <1>f, <1>g
    <2>2. ASSUME NEW c \in Buf
          PROVE  \/ (Current(c, j)' <=> Current(c, j)) /\ (Current(c, j) => data'[c] = data[c])
                 \/ ~ Current(c, j)' /\ ~ Current(c, j)
      <3>1. CASE c = b
        BY <1>a, <1>e, <1>g, <3>1 DEF Current
      <3>2. CASE c # b
        BY <1>a, <1>e, <1>f, <3>2 DEF Current
      <3> QED  BY <3>1, <3>2
    <2> QED  BY <2>1, <2>2, SameContent
  <1>h. ContentSeen /\ ContentSeen'
    BY ContentIs, PTL
  <1>i. \A c \in Buf : c # b => ~ Current(c, k) /\ ~ Current(c, k)'
    BY <1>e, <1>f DEF Current
  <1>1. CASE "READ" \in flags[b]
    <2>1. ~ Current(b, k)
      BY <1>c, <1>1 DEF Current
    <2>2. Content(k) = disk[k]
      BY <1>h, <1>i, <2>1 DEF ContentSeen
    <2>3. disk' = disk
      BY <1>a, <1>1
    <2>4. Content(k)' = disk[k]
      <3>1. CASE err
        <4>1. ~ Current(b, k)'
          BY <1>e, <3>1 DEF Current
        <4> QED  BY <1>h, <1>i, <2>3, <4>1 DEF ContentSeen
      <3>2. CASE ~ err
        <4>1. Current(b, k)' /\ data'[b] = disk[k]
          BY <1>a, <1>e, <1>f, <1>1, <3>2 DEF Current
        <4> QED  BY <1>h, <4>1 DEF ContentSeen
      <3> QED  BY <3>1, <3>2
    <2>5. \A j \in Block : Content(j)' = Content(j)
      BY <1>g, <2>2, <2>4
    <2> QED  BY <1>o, <2>3, <2>5, StoreStays
  <1>2. CASE "READ" \notin flags[b]
    <2>1. Content(k) = data[b]
      <3>1. Current(b, k)
        BY <1>a, <1>c, <1>2 DEF Current
      <3> QED  BY <1>h, <3>1 DEF ContentSeen
    <2>2. CASE err
      <3>1. disk' = disk
        BY <1>a, <2>2
      <3>2. ~ Current(b, k)'
        BY <1>e, <2>2 DEF Current
      <3>3. Content(k)' = disk[k]
        BY <1>h, <1>i, <3>1, <3>2 DEF ContentSeen
      <3> QED  BY <1>a, <1>g, <1>o, <2>2, <3>1, <3>3, StoreLoses
    <2>3. CASE ~ err
      <3>1. disk' = [disk EXCEPT ![k] = Content(k)] /\ data' = data
        BY <1>a, <1>2, <2>1, <2>3
      <3>2. Current(b, k)'
        BY <1>e, <2>3 DEF Current
      <3>3. Content(k)' = Content(k)
        BY <1>h, <2>1, <3>1, <3>2 DEF ContentSeen
      <3> QED  BY <1>g, <1>o, <3>1, <3>3, StoreSettles
    <2> QED  BY <2>2, <2>3
  <1> QED  BY <1>1, <1>2


\* At boot the cache is empty: a reader finds what is on the disk.
LEMMA StoreInit == Init => Store!Init
  <1> SUFFICES ASSUME Init PROVE Store!Init
    OBVIOUS
  <1> USE BufferCacheAssumption
  <1>1. BInv
    BY InitBInv
  <1>2. ContentSeen /\ OwnerSeen
    BY <1>1, ContentIs, OwnerIs
  <1>3. \A k \in Block : Content(k) = disk[k]
    BY <1>2 DEF ContentSeen, Current, Init
  <1>4. \A k \in Block : Owner(k) = NoProc
    BY <1>2 DEF OwnerSeen, Init, Has
  <1>5. disk \in [Block -> Val]
    BY DEF Init
  <1>6. disk = [k \in Block |-> Content(k)]
    BY <1>3, <1>5
  <1>7. [k \in Block |-> Content(k)] \in [Block -> Val]
    BY <1>3, <1>5
  <1> QED  BY <1>4, <1>6, <1>7 DEF Store!Init

\* Every step of the cache is a step of the store or leaves it alone.
LEMMA StoreStep == BInv /\ SearchSound /\ BInv' /\ [Next]_vars => Store!Next \/ UNCHANGED Store!vars
  <1> SUFFICES ASSUME BInv, SearchSound, BInv', [Next]_vars
               PROVE  Store!Next \/ UNCHANGED Store!vars
    OBVIOUS
  <1>1. CASE Interrupt
    BY <1>1, IodoneStep DEF Interrupt
  <1>2. ASSUME NEW p \in Proc, Call(p) PROVE UNCHANGED Store!vars
    <2>1. UNCHANGED <<flags, blk, data, io, disk, bp>>
      BY <1>2 DEF Call, Getblk, Bread, Geteblk, Breada, CallBflush, CallGetblk, bufVars
    <2> QED  BY <2>1, QuietStays
  <1>3. ASSUME NEW p \in Proc, Within(p) PROVE Store!Next \/ UNCHANGED Store!vars
    <2>1. CASE \/ GetblkFinds(p) \/ GetblkNone(p) \/ GotOwn(p) \/ GotCached(p) \/ ReadAhead(p) \/ BreadaEnd(p)
               \/ IowaitSleep(p) \/ IowaitRead(p) \/ BflushEnd(p)
      <3>1. UNCHANGED <<flags, blk, data, io, disk, bp, want>>
        BY <2>1 DEF GetblkFinds, GetblkNone, GotOwn, GotCached, ReadAhead, BreadaEnd, IowaitSleep,
                    IowaitRead, BflushEnd, bufVars, callVars
      <3> QED  BY <3>1, QuietStays
    <2>2. CASE GetblkBusy(p)
      <3>1. UNCHANGED <<blk, data, io, disk, bp, want>>
        BY <2>2 DEF GetblkBusy, callVars
      <3>2. \A b \in Buf, f \in {"DONE", "ERROR", "READ"} : f \in flags'[b] <=> f \in flags[b]
        <4> flags' = [flags EXCEPT ![bq[p]] = flags[bq[p]] \cup {"WANTED"}]
          BY <2>2 DEF GetblkBusy
        <4> QED  BY DEF BInv, TypeOK
      <3> QED  BY <3>1, <3>2, QuietStays
    <2>3. CASE Age(p)
      <3>1. UNCHANGED <<blk, data, io, disk, bp, want>>
        BY <2>3 DEF Age, callVars
      <3>2. \A b \in Buf, f \in {"DONE", "ERROR", "READ"} : f \in flags'[b] <=> f \in flags[b]
        <4> flags' = [flags EXCEPT ![bq[p]] = flags[bq[p]] \cup {"AGE"}]
          BY <2>3 DEF Age
        <4> QED  BY DEF BInv, TypeOK
      <3> QED  BY <3>1, <3>2, QuietStays
    <2>4. CASE GetblkHit(p)
      <3>1. bq[p] \in Buf /\ ret[p] # "geteblk" /\ For(bq[p], Target(p))
        BY <2>4, BufferCacheAssumption DEF GetblkHit, At, BInv, Places, TypeOK, SearchSound
      <3> QED  BY <2>4, <3>1, GiveStep DEF GetblkHit, Busy
    <2>5. CASE GetblkTake(p)
      <3>1. Oldest \in Buf /\ "BUSY" \notin flags[Oldest]
        BY <2>5, OldestIsFree DEF GetblkTake
      <3> QED  BY <2>5, <3>1, GiveStep DEF GetblkTake, Misses
    <2>6. ASSUME NEW b \in Buf, "BUSY" \notin flags[b], "DELWRI" \in flags[b],
                 StartWrite(b, flags[b] \cup {"BUSY", "ASYNC"}),
                 UNCHANGED <<blk, data, disk, callVars, bp>>
          PROVE  UNCHANGED Store!vars
      <3>1. b \notin io /\ "ERROR" \notin flags[b] /\ "DONE" \in flags[b]
        BY <2>6 DEF BInv, InTransfer, Contents
      <3>2. /\ io' = io \cup {b} /\ \A c \in Buf : c # b => flags'[c] = flags[c]
            /\ flags'[b] \cap {"DONE", "READ", "ERROR"} = {}
            /\ UNCHANGED <<blk, data, disk, bp, want>>
        BY <2>6 DEF BInv, TypeOK, StartWrite, callVars
      <3> QED  BY <3>1, <3>2, StartStays
    <2>7. CASE GetblkFlush(p)
      <3>1. Oldest \in Buf /\ "BUSY" \notin flags[Oldest]
        BY <2>7, OldestIsFree DEF GetblkFlush
      <3> QED  BY <2>6, <2>7, <3>1 DEF GetblkFlush
    <2>8. CASE BflushWrite(p)
      <3>1. PICK i \in DOMAIN free :
              /\ Delayed(i) /\ StartWrite(free[i], flags[free[i]] \cup {"BUSY", "ASYNC"})
              /\ UNCHANGED <<blk, data, disk, callVars, bp>>
        BY <2>8 DEF BflushWrite
      <3>2. free[i] \in Buf /\ "BUSY" \notin flags[free[i]]
        BY DEF BInv, TypeOK, ListSound, Elems
      <3> QED  BY <2>6, <3>1, <3>2 DEF Delayed
    <2>9. ASSUME NEW b \in Buf, NEW extra \in {{}, {"ASYNC"}}, StartRead(b, extra),
                 Owns(p, b), pc[p] = "got", b = bp[p] => ret[p] # "ahead",
                 "DONE" \notin flags[b], UNCHANGED <<blk, data, disk, callVars, bp>>
          PROVE  UNCHANGED Store!vars
      <3>1. b \notin io /\ "ERROR" \notin flags[b]
        <4>1. "ERROR" \notin flags[b]
          BY <2>9 DEF BInv, Contents
        <4>2. CASE b = bp[p]
          <5>1. b # NoBuf
            BY BufferCacheAssumption
          <5> QED  BY <2>9, <4>1, <4>2, <5>1 DEF BInv, Transfers
        <4>3. CASE b = bq[p]
          BY <2>9, <4>1, <4>3 DEF BInv, Transfers
        <4> QED  BY <2>9, <4>2, <4>3 DEF Owns
      <3>2. /\ io' = io \cup {b} /\ \A c \in Buf : c # b => flags'[c] = flags[c]
            /\ flags'[b] = flags[b] \cup {"READ"} \cup extra
            /\ UNCHANGED <<blk, data, disk, bp, want>>
        BY <2>9 DEF BInv, TypeOK, StartRead, callVars
      <3> QED  BY <2>9, <3>1, <3>2, StartStays
    <2>10. CASE GotRead(p)
      <3>1. bp[p] \in Buf /\ pc[p] = "got" /\ ret[p] # "ahead"
        BY <2>10, BufferCacheAssumption DEF GotRead, At, BInv, Places, TypeOK
      <3> QED  BY <2>9, <2>10, <3>1 DEF GotRead, Cached, Owns
    <2>11. CASE AheadRead(p)
      <3>1. bq[p] \in Buf /\ pc[p] = "got" /\ bp[p] # bq[p]
        BY <2>11, BufferCacheAssumption DEF AheadRead, At, BInv, Places, TypeOK, OneOwner
      <3> QED  BY <2>9, <2>11, <3>1 DEF AheadRead, Cached, Owns
    <2>12. CASE AheadCached(p)
      <3>1. bq[p] \in Buf /\ bq[p] \notin io /\ Owns(p, bq[p]) /\ bp[p] # bq[p]
        BY <2>12, BufferCacheAssumption
           DEF AheadCached, At, BInv, Places, TypeOK, OneOwner, Owns, Transfers
      <3> QED  BY <2>12, <3>1, ReleaseStep DEF AheadCached, callVars
    <2>13. CASE BwriteEnd(p)
      <3>1. bp[p] \in Buf /\ bp[p] \notin io /\ Owns(p, bp[p])
        BY <2>13, BufferCacheAssumption
           DEF BwriteEnd, At, BInv, Places, TypeOK, Owns, InTransfer
      <3>2. bp'[p] = NoBuf /\ \A q \in Proc : q # p => bp'[q] = bp[q]
        BY <2>13 DEF BwriteEnd, Finish, BInv, TypeOK
      <3> QED  BY <2>13, <3>1, <3>2, ReleaseStep DEF BwriteEnd
    <2> QED  BY <1>3, <2>1, <2>2, <2>3, <2>4, <2>5, <2>7, <2>8, <2>10, <2>11, <2>12, <2>13
             DEF Within
  <1>4. ASSUME NEW p \in Proc, Release(p) PROVE Store!Next \/ UNCHANGED Store!vars
    <2>1. CASE CallBrelse(p)
      <3>1. bp[p] \in Buf /\ bp[p] \notin io /\ Owns(p, bp[p])
        BY <2>1, BufferCacheAssumption
           DEF CallBrelse, At, BInv, Places, TypeOK, Owns, Transfers
      <3>2. bp'[p] = NoBuf /\ \A q \in Proc : q # p => bp'[q] = bp[q]
        BY <2>1 DEF CallBrelse, Finish, BInv, TypeOK
      <3> QED  BY <2>1, <3>1, <3>2, ReleaseStep DEF CallBrelse
    <2>2. ASSUME NEW v \in Val, MayWrite(p), data' = [data EXCEPT ![bp[p]] = v],
                 UNCHANGED <<blk, disk>>, NEW extra \in {{}, {"ASYNC"}},
                 StartWrite(bp[p], flags[bp[p]] \cup extra),
                 \/ UNCHANGED <<bp, want>>
                 \/ bp' = [bp EXCEPT ![p] = NoBuf] /\ want' = [want EXCEPT ![p] = NoBlock]
          PROVE  Store!Next
      <3>1. bp[p] \in Buf
        BY <2>2, MayWriteBlock
      <3> PICK b \in Buf : b = bp[p]
        BY <3>1
      <3>2. /\ io' = io \cup {b} /\ \A c \in Buf : c # b => flags'[c] = flags[c]
            /\ flags'[b] \cap {"DONE", "READ", "ERROR"} = {}
        BY <2>2 DEF BInv, TypeOK, StartWrite
      <3>3. /\ bp'[p] = NoBuf \/ bp'[p] = b
            /\ \A q \in Proc : q # p => bp'[q] = bp[q]
        BY <2>2 DEF BInv, TypeOK
      <3> QED  BY <2>2, <3>2, <3>3, WriteStep
    <2>3. CASE Bwrite(p)
      <3>1. PICK v \in Val : /\ MayWrite(p) /\ data' = [data EXCEPT ![bp[p]] = v]
                             /\ StartWrite(bp[p], flags[bp[p]])
                             /\ UNCHANGED <<blk, disk, bp, want>>
        BY <2>3 DEF Bwrite, callVars
      <3>2. StartWrite(bp[p], flags[bp[p]] \cup {})
        BY <3>1 DEF StartWrite
      <3> QED  BY <2>2, <3>1, <3>2
    <2>4. CASE Bawrite(p)
      BY <2>2, <2>4 DEF Bawrite
    <2>5. CASE Bdwrite(p)
      <3>1. PICK v \in Val : /\ MayWrite(p) /\ data' = [data EXCEPT ![bp[p]] = v]
                             /\ Brelse(bp[p], DelayedFlags(flags[bp[p]]))
                             /\ Finish(p) /\ UNCHANGED <<io, disk>>
        BY <2>5 DEF Bdwrite
      <3>2. bp[p] \in Buf /\ "ERROR" \notin flags[bp[p]] /\ Owns(p, bp[p])
        BY <3>1, MayWriteBlock
      <3> PICK b \in Buf : b = bp[p]
        BY <3>2
      <3>3. /\ flags' = [flags EXCEPT ![b] = Released(DelayedFlags(flags[b]))]
            /\ "ERROR" \notin DelayedFlags(flags[b]) /\ blk' = blk
        BY <3>1, <3>2 DEF Brelse, DelayedFlags, KnownBlock
      <3>4. /\ \A c \in Buf : c # b => flags'[c] = flags[c]
            /\ "DONE" \in flags'[b] /\ "ERROR" \notin flags'[b]
        BY <3>2, <3>3 DEF BInv, TypeOK, Released, DelayedFlags
      <3>5. bp'[p] = NoBuf /\ \A q \in Proc : q # p => bp'[q] = bp[q]
        BY <3>1 DEF Finish, BInv, TypeOK
      <3> QED  BY <3>1, <3>3, <3>4, <3>5, WriteStep
    <2>6. CASE Trap(p) \/ Trapped(p)
      <3>1. UNCHANGED <<flags, blk, data, io, disk, bp>>
        BY <2>6 DEF Trap, Trapped, bufVars, vars
      <3> QED  BY <3>1, QuietStays
    <2> QED  BY <1>4, <2>1, <2>3, <2>4, <2>5, <2>6 DEF Release
  <1>5. CASE UNCHANGED vars
    <2>1. UNCHANGED <<flags, blk, data, io, disk, bp, want>>
      BY <1>5 DEF vars
    <2> QED  BY <2>1, QuietStays
  <1> QED  BY <1>1, <1>2, <1>3, <1>4, <1>5 DEF Next

\* bio.c implements the store of BlockStore: to the processes, each block has
\* one owner at a time and the contents its last owner left in it, whatever
\* the cache delays, reads ahead or reuses.
THEOREM CacheImplementsStore == Spec => ImplementsStore
  <1>1. Init => Store!Init
    BY StoreInit
  <1>2. CacheInv /\ CacheInv' /\ [Next]_vars => [Store!Next]_(Store!vars)
    BY StoreStep DEF CacheInv
  <1> QED  BY <1>1, <1>2, Invariance, PTL DEF Spec, CacheInv, ImplementsStore, Store!Spec

=============================================================================
