--------------------------- MODULE BufferCache ---------------------------
(***************************************************************************)
(* The block buffer cache of bio.c, over a disk whose strategy routine     *)
(* queues the request and completes it by an interrupt (hp.c).  The        *)
(* strategy of ansidisk.c, which completes it before it returns, is the    *)
(* case in which the interrupt comes at once.                              *)
(*                                                                         *)
(* The kernel is not preemptive: a process keeps the processor (cpu) from  *)
(* one window in which an interrupt may be taken to the next, and gives it *)
(* up when it sleeps or leaves bio.c.  One action is one such stretch.     *)
(***************************************************************************)
EXTENDS Integers, FiniteSets, SequencesExt

CONSTANTS
    Proc,       \* processes
    Buf,        \* the buffer headers buf[NBUF]
    Block,      \* blocks of the one block device
    Val,        \* contents a block can have
    Stale,      \* what the core of a buffer holds before it is read or filled
    NoProc,     \* nobody is in the kernel
    NoBlock,    \* b_dev = NODEV; the rablkno 0
    NoBuf,      \* the null buffer pointer
    NoChan,     \* p_wchan = 0
    FreeList,   \* the address of bfreelist, slept on for any buffer
    MayFail     \* TRUE: a transfer may end with B_ERROR (hp.c)

ASSUME BufferCacheAssumption ==
    /\ IsFiniteSet(Buf) /\ Buf # {}
    /\ NoBuf \notin Buf /\ NoChan \notin Buf /\ FreeList \notin Buf
    /\ NoChan # FreeList /\ Stale \notin Val
    /\ NoBlock \notin Block /\ NoProc \notin Proc
    /\ MayFail \in BOOLEAN

VARIABLES
    flags,       \* b_flags of each buffer, as a set of B_xxx names
    blk,         \* b_dev, b_blkno: the block a buffer is associated with
    data,        \* the core a buffer owns
    free,        \* bfreelist: the available list, oldest first
    freeWanted,  \* B_WANTED in bfreelist.b_flags
    io,          \* buffers handed to strategy and not yet done
    disk,        \* what is on the medium
    pc,          \* where each process is in bio.c
    ret,         \* who called getblk: "getblk", "geteblk", "bread",
                 \* "breada" or "ahead" (the read-ahead block of breada)
    want,        \* the blkno a process is after
    ahead,       \* rablkno
    bp,          \* the buffer a process has been given
    bq,          \* a second one: rabp of breada, the one that getblk flushes,
                 \* or the one that its search has found
    chan,        \* p_wchan: the address a process sleeps on
    cpu          \* the process in the kernel, between its interrupt windows

vars == <<flags, blk, data, free, freeWanted, io, disk,
          pc, ret, want, ahead, bp, bq, chan, cpu>>
bufVars  == <<flags, blk, data, free, freeWanted, io, disk>>
callVars == <<ret, want, ahead>>

Flag == {"READ", "DONE", "ERROR", "BUSY", "WANTED", "AGE", "ASYNC", "DELWRI"}

\* Where a process stands after the write it started without waiting for it.
AfterAge == [ageGetblk |-> "getblk", ageBflush |-> "bflush", ageCaller |-> "idle"]

\* pc: "getblk" is the label loop of getblk and geteblk, "found" the spl6 after
\* its search has met the block, "got" its return; "trap" is a strategy routine
\* called through bdevsw for b_dev = NODEV;
\* "ahead" and "finish" are the two halves of breada after the first getblk;
\* "iowait" and "bwrite" wait for a read and a synchronous write; "held" is
\* the caller that owns its buffer.
Place == {"idle", "getblk", "found", "got", "ahead", "finish", "iowait", "held",
          "bwrite", "bflush", "trap"} \cup DOMAIN AfterAge

-----------------------------------------------------------------------------
\* binit, the cache at boot: every buffer free and associated with no block.
Init ==
    /\ flags = [b \in Buf |-> {}]
    /\ blk = [b \in Buf |-> NoBlock]
    /\ data = [b \in Buf |-> Stale]
    /\ free \in {s \in [1..Cardinality(Buf) -> Buf] :
                    \A i, j \in DOMAIN s : s[i] = s[j] => i = j}
    /\ freeWanted = FALSE
    /\ io = {}
    /\ disk \in {[b \in Block |-> v] : v \in Val}
    /\ pc = [p \in Proc |-> "idle"]
    /\ ret = [p \in Proc |-> "getblk"]
    /\ want = [p \in Proc |-> NoBlock]
    /\ ahead = [p \in Proc |-> NoBlock]
    /\ bp = [p \in Proc |-> NoBuf]
    /\ bq = [p \in Proc |-> NoBuf]
    /\ chan = [p \in Proc |-> NoChan]
    /\ cpu = NoProc

-----------------------------------------------------------------------------
\* p may run: it is awake and nobody else is in the kernel.
Runs(p) == chan[p] = NoChan /\ cpu \in {p, NoProc}

At(p, place) == Runs(p) /\ pc[p] = place

\* p goes on at place without a sleep: nobody else runs in between.
Goto(p, place) == pc' = [pc EXCEPT ![p] = place] /\ cpu' = p

\* sleep(c): p gives the processor up, and resumes where it stands.
SleepOn(p, c) ==
    chan' = [chan EXCEPT ![p] = c] /\ cpu' = NoProc /\ UNCHANGED pc

\* chan after wakeup on every address of C.
Awakened(C) == [q \in Proc |-> IF chan[q] \in C THEN NoChan ELSE chan[q]]

\* notavail: b off the available list.
Without(b) == RemoveAt(free, CHOOSE i \in DOMAIN free : free[i] = b)

\* The flags brelse leaves.
Released(f) == f \ {"WANTED", "BUSY", "ASYNC", "AGE"}

\* The addresses brelse wakes.
Wakes(b, f) == {c \in {b, FreeList} : IF c = b THEN "WANTED" \in f ELSE freeWanted}

\* Wrong brelse: a buffer whose transfer failed keeps its block.
KeptBlock(b, f) == blk

\* brelse: a buffer in error is no copy of anything.
KnownBlock(b, f) == IF "ERROR" \in f THEN [blk EXCEPT ![b] = NoBlock] ELSE blk

\* brelse(b), b's flags being f when it is called.
Brelse(b, f) ==
    /\ chan' = Awakened(Wakes(b, f))
    /\ freeWanted' = FALSE
    /\ blk' = KnownBlock(b, f)
    /\ free' = IF "AGE" \in f THEN <<b>> \o free ELSE Append(free, b)
    /\ flags' = [flags EXCEPT ![b] = Released(f)]

\* The start of bwrite(b), b's flags being f: clear the outcome of the last
\* transfer and hand the buffer to strategy.
StartWrite(b, f) ==
    /\ flags' = [flags EXCEPT ![b] = f \ {"READ", "DONE", "ERROR", "DELWRI", "AGE"}]
    /\ io' = io \cup {b}

\* bread and breada: hand b to strategy with B_READ and the flags of extra.
StartRead(b, extra) ==
    /\ flags' = [flags EXCEPT ![b] = @ \cup {"READ"} \cup extra]
    /\ io' = io \cup {b}

\* Wrong search: busy buffers are passed over.
IncoreIdle(k) == \E b \in Buf : blk[b] = k /\ "BUSY" \notin flags[b]

\* The search of incore and getblk.
Incore(k) == \E b \in Buf : blk[b] = k
Oldest == Head(free)

Busy(b) == "BUSY" \in flags[b]

Cached(b) == "DONE" \in flags[b]

\* Wrong bdwrite: the buffer is not marked for writing.
UndelayedFlags(f) == f \cup {"DONE"}

DelayedFlags(f) == f \cup {"DELWRI", "DONE"}

\* Wrong iodone: it trusts B_WANTED, which iowait does not set.
IodoneWakesWanted(b, f) == IF "WANTED" \in f THEN {b} ELSE {}

IodoneWakes(b, f) == {b}

-----------------------------------------------------------------------------
\* What a caller asks of the cache.

\* getblk, bread and geteblk begin at the label loop.
CallGetblk(p, r, k) ==
    /\ At(p, "idle")
    /\ Goto(p, "getblk")
    /\ ret' = [ret EXCEPT ![p] = r]
    /\ want' = [want EXCEPT ![p] = k]
    /\ UNCHANGED <<bufVars, ahead, bp, bq, chan>>

Getblk(p) == \E k \in Block : CallGetblk(p, "getblk", k)
Bread(p) == \E k \in Block : CallGetblk(p, "bread", k)
Geteblk(p) == CallGetblk(p, "geteblk", NoBlock)

\* breada of k and its read-ahead block a (a file's last block has none): a
\* block in core is not asked for before the read-ahead block is.
Breada(p) == \E k \in Block, a \in (Block \cup {NoBlock}) :
    /\ k # a
    /\ At(p, "idle")
    /\ Goto(p, IF Incore(k) THEN "ahead" ELSE "getblk")
    /\ ret' = [ret EXCEPT ![p] = "breada"]
    /\ want' = [want EXCEPT ![p] = k]
    /\ ahead' = [ahead EXCEPT ![p] = a]
    /\ UNCHANGED <<bufVars, bp, bq, chan>>

\* The block the search of getblk is for.
Target(p) == IF ret[p] = "ahead" THEN ahead[p] ELSE want[p]

\* getblk gives b to p: bp, or rabp for the read-ahead block.
Give(p, b) ==
    /\ IF ret[p] = "ahead" THEN bq' = [bq EXCEPT ![p] = b] /\ UNCHANGED bp
                           ELSE bp' = [bp EXCEPT ![p] = b] /\ bq' = [bq EXCEPT ![p] = NoBuf]
    /\ Goto(p, "got")

\* getblk: the block has a buffer, says the search.  An interrupt may come
\* before spl6, and if it ends a transfer with an error, the buffer is for no
\* block any more.
GetblkFinds(p) == \E b \in Buf :
    /\ At(p, "getblk") /\ ret[p] # "geteblk"
    /\ blk[b] = Target(p)
    /\ bq' = [bq EXCEPT ![p] = b]
    /\ Goto(p, "found")
    /\ UNCHANGED <<bufVars, callVars, bp, chan>>

\* getblk: somebody owns the buffer; wait and search again.
GetblkBusy(p) ==
    /\ At(p, "found") /\ Busy(bq[p])
    /\ flags' = [flags EXCEPT ![bq[p]] = @ \cup {"WANTED"}]
    /\ chan' = [chan EXCEPT ![p] = bq[p]] /\ cpu' = NoProc
    /\ pc' = [pc EXCEPT ![p] = "getblk"]
    /\ bq' = [bq EXCEPT ![p] = NoBuf]
    /\ UNCHANGED <<blk, data, free, freeWanted, io, disk, callVars, bp>>

\* getblk: the buffer is on the available list.  Whose block it is now is not
\* looked at again.
GetblkHit(p) ==
    /\ At(p, "found") /\ ~ Busy(bq[p])
    /\ free' = Without(bq[p])
    /\ flags' = [flags EXCEPT ![bq[p]] = @ \cup {"BUSY"}]
    /\ Give(p, bq[p])
    /\ UNCHANGED <<blk, data, freeWanted, io, disk, callVars, chan>>

\* p must take a buffer from some other block.
Misses(p) == At(p, "getblk") /\ (ret[p] = "geteblk" \/ ~ Incore(Target(p)))

\* getblk, geteblk: no buffer is available at all.
GetblkNone(p) ==
    /\ Misses(p) /\ free = <<>>
    /\ freeWanted' = TRUE
    /\ SleepOn(p, FreeList)
    /\ UNCHANGED <<flags, blk, data, free, io, disk, callVars, bp, bq>>

\* getblk, geteblk: the oldest buffer holds a delayed write; start it and
\* search again.
GetblkFlush(p) ==
    /\ Misses(p) /\ free # <<>> /\ "DELWRI" \in flags[Oldest]
    /\ free' = Without(Oldest)
    /\ StartWrite(Oldest, flags[Oldest] \cup {"BUSY", "ASYNC"})
    /\ bq' = [bq EXCEPT ![p] = Oldest]
    /\ Goto(p, "ageGetblk")
    /\ UNCHANGED <<blk, data, freeWanted, disk, callVars, bp, chan>>

\* getblk, geteblk: reassign the oldest buffer.
GetblkTake(p) ==
    /\ Misses(p) /\ free # <<>> /\ "DELWRI" \notin flags[Oldest]
    /\ free' = Without(Oldest)
    /\ flags' = [flags EXCEPT ![Oldest] = {"BUSY"}]
    /\ blk' = [blk EXCEPT ![Oldest] = Target(p)]
    /\ data' = [data EXCEPT ![Oldest] = Stale]
    /\ Give(p, Oldest)
    /\ UNCHANGED <<freeWanted, io, disk, callVars, chan>>

\* The end of an asynchronous bwrite whose buffer had a delayed write: B_AGE,
\* set when the transfer may already be over.
Age(p) ==
    /\ \E here \in DOMAIN AfterAge :
          At(p, here) /\ pc' = [pc EXCEPT ![p] = AfterAge[here]]
    /\ cpu' = IF pc[p] = "ageCaller" THEN NoProc ELSE p
    /\ flags' = [flags EXCEPT ![bq[p]] = @ \cup {"AGE"}]
    /\ bq' = [bq EXCEPT ![p] = NoBuf]
    /\ UNCHANGED <<blk, data, free, freeWanted, io, disk, callVars, bp, chan>>

\* p leaves bio.c owning bp, a caller that may do anything before it is back.
Own(p) == pc' = [pc EXCEPT ![p] = "held"] /\ cpu' = NoProc

\* getblk and geteblk return, bread when the block is cached.
GotOwn(p) ==
    /\ At(p, "got")
    /\ \/ ret[p] \in {"getblk", "geteblk"}
       \/ ret[p] = "bread" /\ Cached(bp[p])
    /\ Own(p)
    /\ UNCHANGED <<bufVars, callVars, bp, bq, chan>>

\* bread, breada: the buffer was not cached, start reading its block.
GotRead(p) ==
    /\ At(p, "got") /\ ret[p] \in {"bread", "breada"}
    /\ ~ Cached(bp[p])
    /\ StartRead(bp[p], {})
    /\ Goto(p, IF ret[p] = "bread" THEN "iowait" ELSE "ahead")
    /\ UNCHANGED <<blk, data, free, freeWanted, disk, callVars, bp, bq, chan>>

\* breada: another process read the block while p waited for a buffer.
GotCached(p) ==
    /\ At(p, "got") /\ ret[p] = "breada" /\ Cached(bp[p])
    /\ Goto(p, "ahead")
    /\ UNCHANGED <<bufVars, callVars, bp, bq, chan>>

\* breada: look for the read-ahead block, unless it is in core.
ReadAhead(p) ==
    /\ At(p, "ahead")
    /\ IF ahead[p] # NoBlock /\ ~ Incore(ahead[p])
       THEN ret' = [ret EXCEPT ![p] = "ahead"] /\ Goto(p, "getblk")
       ELSE UNCHANGED ret /\ Goto(p, "finish")
    /\ UNCHANGED <<bufVars, want, ahead, bp, bq, chan>>

\* breada owns the read-ahead buffer: start the read, which nobody waits for.
AheadRead(p) ==
    /\ At(p, "got") /\ ret[p] = "ahead" /\ ~ Cached(bq[p])
    /\ StartRead(bq[p], {"ASYNC"})
    /\ bq' = [bq EXCEPT ![p] = NoBuf]
    /\ Goto(p, "finish")
    /\ UNCHANGED <<blk, data, free, freeWanted, disk, callVars, bp, chan>>

\* breada: another process read the read-ahead block meanwhile.
AheadCached(p) ==
    /\ At(p, "got") /\ ret[p] = "ahead" /\ Cached(bq[p])
    /\ Brelse(bq[p], flags[bq[p]])
    /\ bq' = [bq EXCEPT ![p] = NoBuf]
    /\ Goto(p, "finish")
    /\ UNCHANGED <<data, io, disk, callVars, bp>>

\* The end of breada: wait for the block, or bread it if it was in core.
BreadaEnd(p) ==
    /\ At(p, "finish")
    /\ IF bp[p] = NoBuf
       THEN ret' = [ret EXCEPT ![p] = "bread"] /\ Goto(p, "getblk")
       ELSE UNCHANGED ret /\ Goto(p, "iowait")
    /\ ahead' = [ahead EXCEPT ![p] = NoBlock]
    /\ UNCHANGED <<bufVars, want, bp, bq, chan>>

\* iowait, with the transfer still going on.
IowaitSleep(p) ==
    /\ At(p, "iowait") \/ At(p, "bwrite")
    /\ "DONE" \notin flags[bp[p]]
    /\ SleepOn(p, bp[p])
    /\ UNCHANGED <<bufVars, callVars, bp, bq>>

\* iowait returns to bread or breada.
IowaitRead(p) ==
    /\ At(p, "iowait") /\ "DONE" \in flags[bp[p]]
    /\ Own(p)
    /\ UNCHANGED <<bufVars, callVars, bp, bq, chan>>

-----------------------------------------------------------------------------
\* How an owner lets go.

\* The call is over.
Finish(p) ==
    /\ pc' = [pc EXCEPT ![p] = "idle"] /\ cpu' = NoProc
    /\ bp' = [bp EXCEPT ![p] = NoBuf]
    /\ want' = [want EXCEPT ![p] = NoBlock]
    /\ ret' = [ret EXCEPT ![p] = "getblk"]

\* An owner writes a block it was given for itself and read without error, or
\* got without reading.
MayWrite(p) == At(p, "held") /\ ret[p] # "geteblk" /\ "ERROR" \notin flags[bp[p]]

\* A caller of getblk does not look at B_ERROR, and one of bread not at more
\* than u_error, which bread leaves alone when B_DONE is set: either may write
\* a buffer of no block, and leaves the kernel's tables.
Trap(p) ==
    /\ At(p, "held") /\ ret[p] \in {"getblk", "bread"}
    /\ blk[bp[p]] = NoBlock
    /\ Goto(p, "trap")
    /\ UNCHANGED <<bufVars, callVars, bp, bq, chan>>

\* What happens then is not modelled.
Trapped(p) == pc[p] = "trap" /\ UNCHANGED vars

\* brelse by the owner, which has not changed the buffer.
CallBrelse(p) ==
    /\ At(p, "held")
    /\ Brelse(bp[p], flags[bp[p]])
    /\ Finish(p)
    /\ UNCHANGED <<data, io, disk, ahead, bq>>

\* bwrite: write v, and wait.
Bwrite(p) == \E v \in Val :
    /\ MayWrite(p)
    /\ data' = [data EXCEPT ![bp[p]] = v]
    /\ StartWrite(bp[p], flags[bp[p]])
    /\ Goto(p, "bwrite")
    /\ UNCHANGED <<blk, free, freeWanted, disk, callVars, bp, bq, chan>>

\* bwrite, after its iowait.
BwriteEnd(p) ==
    /\ At(p, "bwrite") /\ "DONE" \in flags[bp[p]]
    /\ Brelse(bp[p], flags[bp[p]])
    /\ Finish(p)
    /\ UNCHANGED <<data, io, disk, ahead, bq>>

\* bawrite: start writing v and do not wait.
Bawrite(p) == \E v \in Val :
    /\ MayWrite(p)
    /\ data' = [data EXCEPT ![bp[p]] = v]
    /\ StartWrite(bp[p], flags[bp[p]] \cup {"ASYNC"})
    /\ bp' = [bp EXCEPT ![p] = NoBuf]
    /\ want' = [want EXCEPT ![p] = NoBlock]
    /\ ret' = [ret EXCEPT ![p] = "getblk"]
    /\ IF "DELWRI" \in flags[bp[p]]
       THEN bq' = [bq EXCEPT ![p] = bp[p]] /\ Goto(p, "ageCaller")
       ELSE UNCHANGED bq /\ pc' = [pc EXCEPT ![p] = "idle"] /\ cpu' = NoProc
    /\ UNCHANGED <<blk, free, freeWanted, disk, ahead, chan>>

\* bdwrite: leave v in the cache, to be written when the buffer is wanted.
Bdwrite(p) == \E v \in Val :
    /\ MayWrite(p)
    /\ data' = [data EXCEPT ![bp[p]] = v]
    /\ Brelse(bp[p], DelayedFlags(flags[bp[p]]))
    /\ Finish(p)
    /\ UNCHANGED <<io, disk, ahead, bq>>

\* bflush, from update and umount.
CallBflush(p) ==
    /\ At(p, "idle")
    /\ Goto(p, "bflush")
    /\ UNCHANGED <<bufVars, callVars, bp, bq, chan>>

Delayed(i) == "DELWRI" \in flags[free[i]]

\* bflush starts the first delayed write it meets and scans again.
BflushWrite(p) == \E i \in DOMAIN free :
    /\ At(p, "bflush")
    /\ Delayed(i) /\ \A j \in 1..(i - 1) : ~ Delayed(j)
    /\ free' = Without(free[i])
    /\ StartWrite(free[i], flags[free[i]] \cup {"BUSY", "ASYNC"})
    /\ bq' = [bq EXCEPT ![p] = free[i]]
    /\ Goto(p, "ageBflush")
    /\ UNCHANGED <<blk, data, freeWanted, disk, callVars, bp, chan>>

BflushEnd(p) ==
    /\ At(p, "bflush")
    /\ \A i \in DOMAIN free : ~ Delayed(i)
    /\ pc' = [pc EXCEPT ![p] = "idle"] /\ cpu' = NoProc
    /\ UNCHANGED <<bufVars, callVars, bp, bq, chan>>

-----------------------------------------------------------------------------
\* Nobody waits for the transfer: iodone releases the buffer.
Unattended(f) == "ASYNC" \in f

\* The end of a transfer and iodone: by interrupt, or inside strategy.
Iodone(b, err) ==
    /\ b \in io /\ (err => MayFail)
    /\ io' = io \ {b}
    /\ data' = IF ~ err /\ "READ" \in flags[b]
               THEN [data EXCEPT ![b] = disk[blk[b]]] ELSE data
    /\ disk' = IF ~ err /\ "READ" \notin flags[b]
               THEN [disk EXCEPT ![blk[b]] = data[b]] ELSE disk
    /\ LET f == flags[b] \cup {"DONE"} \cup (IF err THEN {"ERROR"} ELSE {})
       IN  IF Unattended(f)
           THEN Brelse(b, f)
           ELSE /\ flags' = [flags EXCEPT ![b] = f \ {"WANTED"}]
                /\ chan' = Awakened(IodoneWakes(b, f))
                /\ UNCHANGED <<blk, free, freeWanted>>
    /\ UNCHANGED <<pc, callVars, bp, bq, cpu>>

Interrupt == \E b \in Buf, err \in BOOLEAN : Iodone(b, err)

-----------------------------------------------------------------------------
\* Inside bio.c a process goes on by itself.
Within(p) ==
    \/ GetblkFinds(p) \/ GetblkBusy(p) \/ GetblkHit(p) \/ GetblkNone(p)
    \/ GetblkFlush(p) \/ GetblkTake(p) \/ Age(p) \/ GotOwn(p) \/ GotRead(p) \/ GotCached(p)
    \/ ReadAhead(p) \/ AheadRead(p) \/ AheadCached(p) \/ BreadaEnd(p)
    \/ IowaitSleep(p) \/ IowaitRead(p) \/ BwriteEnd(p)
    \/ BflushWrite(p) \/ BflushEnd(p)

\* What an owner does to let go of its buffer.
Release(p) ==
    \/ CallBrelse(p) \/ Bwrite(p) \/ Bawrite(p) \/ Bdwrite(p)
    \/ Trap(p) \/ Trapped(p)

Call(p) == Getblk(p) \/ Bread(p) \/ Geteblk(p) \/ Breada(p) \/ CallBflush(p)

Next == Interrupt \/ \E p \in Proc : Call(p) \/ Within(p) \/ Release(p)

Spec == Init /\ [][Next]_vars

-----------------------------------------------------------------------------
(* What makes the cache correct.                                           *)

\* The available list, as a set.
Available == {free[i] : i \in DOMAIN free}

\* The buffers p owns: the one it was given, and rabp until its read starts.
Owned(p) == ({bp[p]} \cup (IF pc[p] = "got" THEN {bq[p]} ELSE {})) \ {NoBuf}

\* Type invariant.  A buffer written before it was filled breaks that of disk.
TypeOK ==
    /\ flags \in [Buf -> SUBSET Flag]
    /\ blk \in [Buf -> Block \cup {NoBlock}]
    /\ data \in [Buf -> Val \cup {Stale}] /\ disk \in [Block -> Val]
    /\ free \in Seq(Buf)
    /\ freeWanted \in BOOLEAN
    /\ io \subseteq Buf
    /\ pc \in [Proc -> Place]
    /\ ret \in [Proc -> {"getblk", "geteblk", "bread", "breada", "ahead"}]
    /\ want \in [Proc -> Block \cup {NoBlock}]
    /\ ahead \in [Proc -> Block \cup {NoBlock}]
    /\ bp \in [Proc -> Buf \cup {NoBuf}]
    /\ bq \in [Proc -> Buf \cup {NoBuf}]
    /\ chan \in [Proc -> Buf \cup {NoChan, FreeList}]
    /\ cpu \in Proc \cup {NoProc}

\* "The buffer is marked busy so that no one else can touch it": a buffer has
\* one owner, stays busy, is not released behind its owner's back by iodone,
\* and is for the block the owner asked for until the owner lets it go.  Only
\* when a transfer of it failed while getblk was between its two tests, it is
\* for no block, and marked with B_ERROR.
Exclusive ==
    /\ \A p, q \in Proc : p # q => Owned(p) \cap Owned(q) = {}
    /\ \A p \in Proc : \A b \in Owned(p) : flags[b] \cap {"BUSY", "ASYNC"} = {"BUSY"}
    /\ \A p \in Proc : bp[p] # NoBuf =>
         \/ blk[bp[p]] = want[p]
         \/ blk[bp[p]] = NoBlock /\ "ERROR" \in flags[bp[p]]

\* A sleeper's address will see a wakeup: the buffer it waits for is busy and
\* marked B_WANTED, or its transfer is not over, or the available list is
\* empty and marked.  No wakeup was given before the sleep it was meant for.
NoLostWakeup == \A p \in Proc : chan[p] # NoChan =>
    \/ chan[p] = FreeList /\ pc[p] = "getblk" /\ freeWanted /\ free = <<>>
    \/ chan[p] \in io /\ pc[p] \in {"iowait", "bwrite"}
    \/ /\ chan[p] \in Buf /\ pc[p] = "getblk"
       /\ {"BUSY", "WANTED"} \subseteq flags[chan[p]]

\* A buffer on the available list whose contents count is either marked to be
\* written or equal to what is on the disk, so it may be reassigned.
CleanMatchesDisk ==
    \A b \in Available : /\ blk[b] # NoBlock
                         /\ "DONE" \in flags[b] /\ "DELWRI" \notin flags[b]
                         => data[b] = disk[blk[b]]

\* A block has one version: one buffer, however many processes came to look
\* for it while others slept, which may differ from the disk only while it is
\* busy or marked to be written.
OneVersion ==
    /\ \A b, c \in Buf : blk[b] = blk[c] /\ blk[b] # NoBlock => b = c
    /\ CleanMatchesDisk

\* buf.h: "A buffer is on the available list ... if and only if it is not
\* marked BUSY", and it is there once; and a busy one is in transfer or has an
\* owner who will let it go, so buffers do not leak out of the cache; and
\* a block has one version all the while.
Accounted ==
    /\ TypeOK /\ Exclusive /\ OneVersion
    /\ \A i, j \in DOMAIN free : free[i] = free[j] => i = j
    /\ \A b \in Buf : IF "BUSY" \in flags[b]
                     THEN b \notin Available /\ (b \in io \/ \E p \in Proc : b \in Owned(p))
                     ELSE b \in Available

\* Whether b is the current version of block k: it was read or filled, or it
\* is being written.
Current(b, k) ==
    /\ blk[b] = k /\ "ERROR" \notin flags[b]
    /\ "DONE" \in flags[b] \/ (b \in io /\ "READ" \notin flags[b])

\* What a process that breads block k finds.
Content(k) == IF \E b \in Buf : Current(b, k)
              THEN data[CHOOSE b \in Buf : Current(b, k)]
              ELSE disk[k]

\* The owner of block k.
Owner(k) == IF \E p \in Proc : bp[p] # NoBuf /\ blk[bp[p]] = k
            THEN CHOOSE p \in Proc : bp[p] # NoBuf /\ blk[bp[p]] = k
            ELSE NoProc

\* The cache is a store of blocks with one owner each.
Store == INSTANCE BlockStore WITH
    content <- [k \in Block |-> Content(k)],
    medium <- disk,
    owner <- [k \in Block |-> Owner(k)]

\* bio.c implements that store: every step of the cache is a step of the store
\* or leaves it alone, so write-behind, read-ahead and reuse are invisible.
ImplementsStore == Store!Spec

\* incore is there "to avoid getting hung up on a wait in breada": not all
\* processes may end up owning their block while they wait in breada for a
\* buffer for the block after it.
NoHangInBreada ==
    ~ \A p \in Proc : ret[p] = "ahead" /\ chan[p] = FreeList /\ bp[p] # NoBuf

=============================================================================
