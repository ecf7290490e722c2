----------------------------- MODULE FreeList -----------------------------
(***************************************************************************)
(* The free blocks of a file system: alloc and free of alloc.c, with the   *)
(* part of update that writes the superblock.                              *)
(*                                                                         *)
(* s_free holds up to NICFREE numbers, used as a stack.  The lowest names  *)
(* a block that holds the next NICFREE, or is 0 at the end of the chain.   *)
(* s_flock is held while a list is read from or written to such a block.   *)
(*                                                                         *)
(* A process runs till it sleeps: on s_flock, in getblk or for a transfer. *)
(* A block of a file reads as an empty list here.                          *)
(***************************************************************************)
EXTENDS Integers, SequencesExt

CONSTANTS
    Proc,      \* processes
    Data,      \* the blocks from s_isize to s_fsize
    Zero,      \* the number 0, which ends the chain
    NICFREE,   \* numbers in s_free
    Garbage    \* numbers out of range that a mounted superblock may list

Number == Data \cup Garbage \cup {Zero}

ASSUME FreeListAssumption ==
    /\ NICFREE \in Nat /\ NICFREE >= 2
    /\ Zero \notin Data \cup Garbage /\ Data \cap Garbage = {}
    /\ IsFiniteSet(Data)

VARIABLES
    super,     \* s_free[0 .. s_nfree - 1]
    flock,     \* s_flock
    fmod,      \* s_fmod
    updlock,   \* updlock
    content,   \* content[b]: the list in block b, as the cache has it
    unsaved,   \* the blocks with a list that is not on the disk
    dsuper,    \* the list in the superblock on the disk
    image,     \* the copy of the superblock that update writes; <<>> elsewhere
    failed,    \* history: the last copy that update wrote is not on the disk
    held,      \* the blocks of files
    pc,        \* where each process is
    hand,      \* bno of alloc or free, Zero elsewhere
    asleep     \* processes asleep on s_flock

mem == <<super, flock, fmod, content, held, asleep>>
saved == <<updlock, unsaved, dsuper, image, failed>>
vars == <<mem, saved, pc, hand>>

\* A full file system, or one with a garbage superblock, is mounted.
Init ==
    /\ super \in UNION {[1..n -> Garbage] : n \in 0..NICFREE}
    /\ flock = FALSE /\ fmod = FALSE /\ updlock = FALSE
    /\ content = [b \in Data |-> <<>>] /\ unsaved = {}
    /\ dsuper = super /\ image = <<>> /\ failed = FALSE
    /\ held = Data
    /\ pc = [p \in Proc |-> "idle"] /\ hand = [p \in Proc |-> Zero]
    /\ asleep = {}

\* The block p works on from here on is b.
Goes(p, there, b) ==
    pc' = [pc EXCEPT ![p] = there] /\ hand' = [hand EXCEPT ![p] = b]

Leaves(p) == Goes(p, "idle", Zero)

-----------------------------------------------------------------------------
badblock(b) == b \notin Data

\* Wrong test: the lock is looked at by nobody.
NeverLocked == FALSE

Locked == flock

\* p calls op, or goes on with it after its sleep on s_flock.
Enters(p, op) == pc[p] = "idle" \/ (pc[p] = op /\ p \notin asleep)

Waits(p, op, b) ==
    /\ Locked /\ Goes(p, op, b) /\ asleep' = asleep \cup {p}

\* Wrong wakeup: only one sleeper is woken.
WakesOne == IF asleep = {} THEN {} ELSE asleep \ {CHOOSE p \in asleep : TRUE}

\* The sleepers that wakeup(&s_flock) leaves asleep.
WakesAll == {}

Unlock == flock' = FALSE /\ asleep' = WakesAll

\* s_nfree once the numbers that are out of range have been popped.
Top == Max({0} \cup {i \in DOMAIN super : super[i] = Zero \/ ~ badblock(super[i])})

Empty == Top \notin {i \in DOMAIN super : super[i] # Zero}

\* alloc gives up at once.
NoSpace == ~ Locked /\ Empty

AllocWaits(p) ==
    /\ Enters(p, "alloc") /\ Waits(p, "alloc", Zero)
    /\ UNCHANGED <<super, flock, fmod, content, held, saved>>

AllocNoSpace(p) ==
    /\ Enters(p, "alloc") /\ NoSpace
    /\ super' = <<>> /\ Leaves(p)
    /\ UNCHANGED <<flock, fmod, content, held, asleep, saved>>

\* Wrong pop: the block stays in the list till its buffer is there.
KeptTop == SubSeq(super, 1, Top)

Popped == SubSeq(super, 1, Top - 1)

\* The last number of the list names the block with the next list.
AllocPops(p) ==
    /\ Enters(p, "alloc") /\ ~ Locked /\ ~ Empty
    /\ super' = Popped
    /\ flock' = (Popped = <<>>)
    /\ Goes(p, IF Popped = <<>> THEN "allocRead" ELSE "allocGet", super[Top])
    /\ UNCHANGED <<fmod, content, held, asleep, saved>>

AllocReads(p) ==
    /\ pc[p] = "allocRead"
    /\ super' = content[hand[p]] /\ Unlock
    /\ IF super' = <<>> THEN Leaves(p) ELSE Goes(p, "allocGet", hand[p])
    /\ UNCHANGED <<fmod, content, held, saved>>

\* The error path: s_nfree is 0 still.
AllocReadFails(p) ==
    /\ pc[p] = "allocRead"
    /\ super' = <<>>
    /\ Unlock /\ Leaves(p)
    /\ UNCHANGED <<fmod, content, held, saved>>

\* getblk gives the buffer, clrbuf clears it, the caller puts the block in
\* a file.
AllocGets(p) ==
    /\ pc[p] = "allocGet"
    /\ content' = [content EXCEPT ![hand[p]] = <<>>]
    /\ unsaved' = unsaved \ {hand[p]}
    /\ held' = held \cup {hand[p]} /\ fmod' = TRUE /\ Leaves(p)
    /\ UNCHANGED <<super, flock, asleep, updlock, dsuper, image, failed>>

-----------------------------------------------------------------------------
\* itrunc takes b out of a file and frees it.
Freeing(p, b) ==
    \/ pc[p] = "idle" /\ b \in held
    \/ pc[p] = "free" /\ p \notin asleep /\ b = hand[p]

FreeWaits(p, b) ==
    /\ Freeing(p, b) /\ Waits(p, "free", b)
    /\ fmod' = (fmod \/ pc[p] = "idle") /\ held' = held \ {b}
    /\ UNCHANGED <<super, flock, content, saved>>

\* An empty list starts with the end of the chain.
Grounded == IF super = <<>> THEN <<Zero>> ELSE super


Fits == Len(Grounded) < NICFREE

FreePushes(p, b) ==
    /\ Freeing(p, b) /\ ~ Locked /\ Fits
    /\ super' = Append(Grounded, b)
    /\ fmod' = TRUE /\ held' = held \ {b} /\ Leaves(p)
    /\ UNCHANGED <<flock, content, asleep, saved>>

FreeFull(p, b) ==
    /\ Freeing(p, b) /\ ~ Locked /\ ~ Fits
    /\ super' = Grounded /\ flock' = TRUE
    /\ fmod' = (fmod \/ pc[p] = "idle") /\ held' = held \ {b}
    /\ Goes(p, "freeGet", b)
    /\ UNCHANGED <<content, asleep, saved>>

\* The list goes to the block, and bwrite starts.
FreeGets(p) ==
    /\ pc[p] = "freeGet"
    /\ content' = [content EXCEPT ![hand[p]] = super] /\ super' = <<>>
    /\ unsaved' = unsaved \cup {hand[p]}
    /\ Goes(p, "freeWrite", hand[p])
    /\ UNCHANGED <<flock, fmod, held, asleep, updlock, dsuper, image, failed>>

\* Wrong write: the block with the list is written some other time.
NotWritten(b) == unsaved

Written(b) == unsaved \ {b}

FreeWrites(p) ==
    /\ pc[p] = "freeWrite"
    /\ unsaved' = Written(hand[p])
    /\ super' = Append(super, hand[p]) /\ fmod' = TRUE
    /\ Unlock /\ Leaves(p)
    /\ UNCHANGED <<content, held, updlock, dsuper, image, failed>>

-----------------------------------------------------------------------------
\* update passes over a superblock that is unchanged or locked.
Update(p) ==
    /\ pc[p] = "idle" /\ ~ updlock /\ fmod /\ ~ flock
    /\ updlock' = TRUE /\ Goes(p, "updateGet", Zero)
    /\ UNCHANGED <<mem, unsaved, dsuper, image, failed>>

\* The buffer that getblk gives may have B_ERROR.
UpdatePasses(p) ==
    /\ pc[p] = "updateGet"
    /\ updlock' = FALSE /\ Leaves(p)
    /\ UNCHANGED <<mem, unsaved, dsuper, image, failed>>

UpdateGets(p) ==
    /\ pc[p] = "updateGet"
    /\ fmod' = FALSE /\ image' = super /\ Goes(p, "updateWrite", Zero)
    /\ UNCHANGED <<super, flock, content, held, asleep, updlock, unsaved, dsuper, failed>>

UpdateWrites(p) ==
    /\ pc[p] = "updateWrite"
    /\ dsuper' = image /\ failed' = FALSE
    /\ image' = <<>> /\ updlock' = FALSE /\ Leaves(p)
    /\ UNCHANGED <<mem, unsaved>>

\* bwrite fails, and nobody looks: s_fmod is off all the same.
UpdateWriteFails(p) ==
    /\ pc[p] = "updateWrite"
    /\ failed' = TRUE
    /\ image' = <<>> /\ updlock' = FALSE /\ Leaves(p)
    /\ UNCHANGED <<mem, unsaved, dsuper>>

Alloc(p) == AllocWaits(p) \/ AllocNoSpace(p) \/ AllocPops(p)
Free(p, b) == FreeWaits(p, b) \/ FreePushes(p, b) \/ FreeFull(p, b)

\* What the transfers and the wakeups in progress lead to.
Proceeds(p) ==
    \/ AllocReads(p) \/ AllocReadFails(p) \/ AllocGets(p)
    \/ FreeGets(p) \/ FreeWrites(p)
    \/ UpdatePasses(p) \/ UpdateGets(p) \/ UpdateWrites(p) \/ UpdateWriteFails(p)

Next ==
    \/ \E p \in Proc : Alloc(p) \/ Update(p) \/ Proceeds(p)
    \/ \E p \in Proc, b \in Data : Free(p, b)

Spec == Init /\ [][Next]_vars

\* Transfers end, and buffers are released.
LiveSpec == Spec /\ \A p \in Proc : WF_vars(Proceeds(p))

-----------------------------------------------------------------------------
\* The lists of the chain that starts with list.
Chain(list) ==
    LET next(l) == IF l # <<>> /\ l[1] \in Data THEN content[l[1]] ELSE <<>>
        lists[n \in 0 .. Cardinality(Data)] ==
            IF n = 0 THEN list ELSE next(lists[n - 1])
    IN  lists

FreeIn(list) == Data \cap UNION {ToSet(l) : l \in Range(Chain(list))}

\* A list that is on its way between the superblock and a block counts.
FreeBlocks ==
    FreeIn(super)
    \cup UNION {FreeIn(content[hand[p]]) :
                p \in {q \in Proc : pc[q] \in {"allocRead", "freeWrite"}}}

InHand(p) ==
    IF pc[p] \in {"allocRead", "allocGet", "free", "freeGet", "freeWrite"}
    THEN {hand[p]} ELSE {}

\* Nobody is between two steps of a change, or writing it out.
Quiet == \A p \in Proc : pc[p] \in {"idle", "alloc", "free"}

(***************************************************************************)
(* Properties.                                                             *)
(***************************************************************************)

\* Types: the lists have at most NICFREE numbers, the check of alloc for a
\* bad free count and that of getfs never fire.
TypeOK ==
    /\ \A list \in {super, dsuper, image} \cup Range(content) :
         Len(list) <= NICFREE /\ ToSet(list) \subseteq Number
    /\ DOMAIN content = Data /\ unsaved \subseteq Data
    /\ flock \in BOOLEAN /\ fmod \in BOOLEAN /\ updlock \in BOOLEAN /\ failed \in BOOLEAN
    /\ held \subseteq Data /\ asleep \subseteq Proc
    /\ hand \in [Proc -> Data \cup {Zero}]
    /\ pc \in [Proc -> {"idle", "alloc", "allocRead", "allocGet", "free",
                        "freeGet", "freeWrite", "updateGet", "updateWrite"}]

\* "no space": said at once only when no block is free, and none is in a list
\* that is on its way to or from the disk.
NoSpaceIsTrue == NoSpace => FreeBlocks = {}

\* alloc and free, however they sleep in between: no block is free twice in
\* the chain, free and in a file, or free and in the hands of a process.
OnePlace ==
    LET lists == Chain(super)
    IN  /\ TypeOK /\ NoSpaceIsTrue
        /\ \A m, n \in DOMAIN lists : \A i \in DOMAIN lists[m], j \in DOMAIN lists[n] :
             lists[m][i] = lists[n][j] /\ lists[m][i] \in Data => m = n /\ i = j
        /\ FreeBlocks \cap held = {}
        /\ \A p \in Proc : InHand(p) \cap (FreeBlocks \cup held) = {}
        /\ \A p, q \in Proc : p # q => InHand(p) \cap InHand(q) = {}

\* s_fmod: when it is off, the last write of the superblock did not fail, and
\* nobody is at work, the superblock and the chain on the disk have every
\* block that is free in core, and none that a file holds.  A crash at that
\* moment neither loses nor gives away a block.  After a write that failed
\* this comes true again with the next one that succeeds.
CleanMeansSaved ==
    ~ fmod /\ ~ failed /\ Quiet =>
        /\ FreeIn(super) \subseteq FreeIn(dsuper)
        /\ FreeIn(dsuper) \cap (held \cup unsaved) = {}

\* alloc and free are the operations of a pool of blocks: every step takes
\* one block or returns one, and a wait changes nothing.
Pool == INSTANCE FreePool WITH
    free <- FreeBlocks, hand <- [p \in Proc |-> InHand(p)]
ImplementsPool == Pool!Spec

\* s_flock: whoever sleeps on the lock is woken.
EverySleeperWakes == \A p \in Proc : p \in asleep ~> p \notin asleep

=============================================================================
