----------------------------- MODULE CoreMap -----------------------------
(***************************************************************************)
(* Page frames: memall, memfree and meminit of malloc.c.  A bit map says   *)
(* which frames are allocated; mem.m_pnum caches the numbers of some free  *)
(* frames, and is filled by a scan round the bit map that begins where the *)
(* last one stopped.                                                       *)
(*                                                                         *)
(* memall does not sleep, so its calls do not overlap; its two loops are   *)
(* taken one round at a time here, which lets the invariant speak of the   *)
(* cache during a scan.                                                    *)
(***************************************************************************)
EXTENDS Integers, Sequences, FiniteSets

CONSTANTS
    FirstFree,  \* firstfree: the first frame
    MaxFree,    \* maxfree: the frame after the last
    NICMEM      \* size of the cache m_pnum

\* There are at least as many frames as the cache holds: the first scan has
\* no mark to stop at but a full cache.
ASSUME CoreMapAssumption ==
    /\ FirstFree \in Nat /\ MaxFree \in Nat /\ NICMEM \in Nat \ {0}
    /\ FirstFree + NICMEM <= MaxFree

VARIABLES
    used,     \* memmap: the frames whose bit is set
    cache,    \* mem.m_pnum[0 .. m_free-1]
    freemem,  \* free frames, as counted
    lastpos,  \* where the last scan stopped
    todo,     \* i of memall: frames still to allocate; 0 outside memall
    pos,      \* the frame a scan is at
    panic     \* "none": the kernel runs; or the message it died with

coreVars == <<used, cache, freemem, lastpos, todo, pos, panic>>

Frames == FirstFree .. (MaxFree - 1)
Idle == MaxFree   \* pos outside a scan

\* ++pos, round the map.
Next1(f) == IF f + 1 >= MaxFree THEN FirstFree ELSE f + 1

-----------------------------------------------------------------------------
\* meminit.
CoreInit ==
    /\ used = {} /\ cache = <<>>
    /\ freemem = MaxFree - FirstFree
    /\ lastpos = MaxFree
    /\ todo = 0 /\ pos = Idle /\ panic = "none"

Running == panic = "none"

\* memall tries only what is there.
Fits(n) == n > 0 /\ n <= freemem

\* memall(base, n) is called with a size it can satisfy.
MemAll(n) ==
    /\ Running /\ todo = 0
    /\ Fits(n)
    /\ todo' = n
    /\ UNCHANGED <<used, cache, freemem, lastpos, pos, panic>>

\* The cache is empty: begin to scan after the frame the last scan stopped at.
ScanStart ==
    /\ Running /\ todo > 0 /\ pos = Idle /\ cache = <<>>
    /\ pos' = Next1(lastpos)
    /\ UNCHANGED <<used, cache, freemem, lastpos, todo, panic>>

\* Whether a scan takes frame f.
Takes(f) == f \notin used

\* Wrong scan: only a full cache ends it.
FullOnly(c) == Len(c) = NICMEM

\* Whether a scan that has made the cache c ends at pos.
Over(c) == pos = lastpos \/ Len(c) = NICMEM

\* One round of the scan: take the frame if it is free; stop at lastpos, or
\* when the cache is full.  A scan that finds nothing is a panic.
Scan ==
    /\ Running /\ pos # Idle
    /\ cache' = IF Takes(pos) THEN Append(cache, pos) ELSE cache
    /\ LET stop == IF pos = lastpos THEN pos ELSE Next1(pos)
           over == Over(cache')
       IN  /\ pos' = IF over THEN Idle ELSE stop
           /\ lastpos' = IF over THEN stop ELSE lastpos
           /\ panic' = IF over /\ cache' = <<>> THEN "lost_mem" ELSE "none"
    /\ UNCHANGED <<used, freemem, todo>>

\* m_pnum after --m_free.
Popped == SubSeq(cache, 1, Len(cache) - 1)

\* Allocate the frame on top of the cache.
Take ==
    /\ Running /\ todo > 0 /\ pos = Idle /\ cache # <<>>
    /\ LET f == cache[Len(cache)]
       IN  IF f \in used
           THEN panic' = "dup_alloc" /\ UNCHANGED <<used, freemem, todo>>
           ELSE /\ used' = used \cup {f}
                /\ freemem' = freemem - 1
                /\ todo' = todo - 1
                /\ UNCHANGED panic
    /\ cache' = Popped
    /\ UNCHANGED <<lastpos, pos>>

CountFree == freemem + 1

\* One round of memfree: an owner of frame f gives it back.
MemFree(f) ==
    /\ Running /\ todo = 0
    /\ f \in used
    /\ cache' = IF Len(cache) < NICMEM THEN Append(cache, f) ELSE cache
    /\ used' = used \ {f}
    /\ freemem' = CountFree
    /\ UNCHANGED <<lastpos, todo, pos, panic>>

CoreNext ==
    \/ \E n \in 1..(MaxFree - FirstFree) : MemAll(n)
    \/ ScanStart \/ Scan \/ Take
    \/ \E f \in Frames : MemFree(f)

CoreSpec == CoreInit /\ [][CoreNext]_coreVars

-----------------------------------------------------------------------------
(* What makes the allocation of frames correct.                            *)

\* Type invariant.
CoreTypeOK ==
    /\ used \subseteq Frames
    /\ cache \in Seq(Frames) /\ Len(cache) <= NICMEM
    /\ freemem \in 0..(MaxFree - FirstFree)
    /\ lastpos \in Frames \cup {MaxFree}
    /\ todo \in 0..freemem
    /\ pos \in Frames \cup {Idle}
    /\ panic \in {"none", "lost_mem", "dup_alloc"}

\* The cache names free frames, each once: a frame popped from it is not
\* allocated a second time, wherever memfree pushed and scans resumed.
CacheIsFree ==
    /\ \A i \in 1..Len(cache) : cache[i] \notin used
    /\ \A i, j \in 1..Len(cache) : cache[i] = cache[j] => i = j

\* freemem counts the frames whose bit is clear, so that the test at the head
\* of memall is enough.
CountsFree == freemem = Cardinality(Frames \ used)

\* The frames a scan has passed since it began after lastpos.
Seen(f) == IF pos > lastpos THEN lastpos < f /\ f < pos ELSE lastpos < f \/ f < pos

\* A scan has put exactly the free frames it passed into the cache, which is
\* not full; the first scan, which has no frame to stop at, fills the cache
\* before it reaches the end of the map.
ScanSound ==
    /\ pos # Idle =>
          /\ todo > 0 /\ Len(cache) < NICMEM
          /\ \A i \in 1..Len(cache) : Seen(cache[i])
          /\ \A f \in Frames \ used : Seen(f) => \E i \in 1..Len(cache) : cache[i] = f
    /\ lastpos = MaxFree =>
          /\ used = {}
          /\ Len(cache) = IF pos = Idle THEN 0 ELSE pos - FirstFree

\* The panics "lost mem" and "dup alloc" are unreachable: a scan finds a frame
\* whenever freemem says there is one.
NoPanic == panic = "none"

\* Together these are inductive: what memall and memfree rely on, whatever
\* was allocated and freed before.
CoreIInv == CoreTypeOK /\ CacheIsFree /\ CountsFree /\ ScanSound /\ NoPanic

=============================================================================
