---------------------------- MODULE ResourceMap ----------------------------
(***************************************************************************)
(* Resource maps: malloc and mfree of malloc.c, which give out runs of     *)
(* units of swap space (and of UNIBUS map registers) by first fit.  A map  *)
(* is an array of free runs in the order of their addresses, ended by a    *)
(* run of size 0.  Neither routine sleeps, so each is one action; the      *)
(* loops that move entries up and down the array are array updates here,   *)
(* what they leave beyond the end included.  mfree does not look at the    *)
(* size of the array: an entry that goes into a full one takes the place   *)
(* of the end, and the list then runs on into whatever memory follows.     *)
(* The model goes as far as that and no further.                           *)
(***************************************************************************)
EXTENDS Integers, FiniteSets

CONSTANTS
    Size,     \* units in the map, 1 .. Size (unit 0 would mean failure)
    SMAPSIZ   \* entries in the array

\* The array need not hold every list of runs that may be free at once: for
\* the map of swap space it does not (SMAPSIZ is 70, nswap 8778).
ASSUME ResourceMapAssumption == Size \in Nat \ {0} /\ SMAPSIZ \in Nat \ {0}

VARIABLES
    map,     \* the array of entries
    given,   \* the runs callers have been given and not freed
    answer   \* what the last malloc returned

mapVars == <<map, given, answer>>

Slots == 1..SMAPSIZ
Units == 1..Size
NoRun == [addr |-> 0, size |-> 0]
Run == [addr : 0..(Size + 1), size : 0..Size]

UnitsOf(run) == run.addr .. (run.addr + run.size - 1)
UnitsOfAll(runs) == UNION {UnitsOf(r) : r \in runs}

-----------------------------------------------------------------------------
\* The map at boot, after mfree(map, Size, 1).
MapInit ==
    /\ map = [i \in Slots |-> IF i = 1 THEN [addr |-> 1, size |-> Size] ELSE NoRun]
    /\ given = {} /\ answer = 0

\* Where the list ends, and the runs before that.  A list that has lost its
\* end to an entry too many fills the array.
IsEnd(i) == map[i].size = 0 /\ \A j \in 1..(i - 1) : map[j].size # 0
Ended == \E i \in Slots : IsEnd(i)
End == IF Ended THEN CHOOSE i \in Slots : IsEnd(i) ELSE SMAPSIZ + 1
Listed == {map[i] : i \in 1..(End - 1)}

\* Entry i is used up: those above it move down, the end with them.
MovedDown(m, i) == [j \in Slots |-> IF i <= j /\ j < End THEN m[j + 1] ELSE m[j]]

\* Wrong malloc: a run of exactly the size asked for is passed over.
Larger(i, n) == i < End /\ map[i].size > n

\* Entry i can hold n units.
Enough(i, n) == i < End /\ map[i].size >= n

FirstFit(n) == CHOOSE i \in Slots : Enough(i, n) /\ \A j \in 1..(i - 1) : ~ Enough(j, n)

\* malloc(map, n), with a run that is large enough.
Malloc(n) ==
    /\ Ended /\ \E i \in Slots : Enough(i, n)
    /\ LET i == FirstFit(n)
           cut == [map EXCEPT ![i] = [addr |-> @.addr + n, size |-> @.size - n]]
       IN  /\ map' = IF cut[i].size = 0 THEN MovedDown(cut, i) ELSE cut
           /\ given' = given \cup {[addr |-> map[i].addr, size |-> n]}
           /\ answer' = map[i].addr

\* malloc(map, n), when there is none.
MallocFails(n) ==
    /\ Ended /\ ~ \E i \in Slots : Enough(i, n)
    /\ answer' = 0
    /\ UNCHANGED <<map, given>>

\* The entry mfree stops at: the first above address a, or the end.
Above(a) == CHOOSE i \in 1..End :
    /\ \A j \in 1..(i - 1) : map[j].addr <= a
    /\ i = End \/ map[i].addr > a

\* The run freed ends where entry i begins; begins where entry i - 1 ends.
AbutsAbove(run, i) == i < End /\ run.addr + run.size = map[i].addr

\* Wrong mfree: an entry below is not joined.
NeverAbutsBelow(run, i) == FALSE

AbutsBelow(run, i) == i > 1 /\ map[i - 1].addr + map[i - 1].size = run.addr

\* run goes in at i and the entries above move up, over the end: what is
\* beyond it becomes the end, if the array goes on that far.
MovedUp(run, i) == [j \in Slots |->
    CASE j = i -> run
      [] i < j /\ j <= End -> map[j - 1]
      [] OTHER -> map[j]]

\* mfree(map, run.size, run.addr), by the caller run was given to.
Mfree(run) ==
    LET i == Above(run.addr)
        longer == [map EXCEPT ![i - 1].size = @ + run.size]
        joined == [longer EXCEPT ![i - 1].size = @ + map[i].size]
    IN  /\ Ended /\ run \in given
        /\ map' =
             CASE AbutsBelow(run, i) /\ AbutsAbove(run, i) -> MovedDown(joined, i)
               [] AbutsBelow(run, i) /\ ~ AbutsAbove(run, i) -> longer
               [] ~ AbutsBelow(run, i) /\ AbutsAbove(run, i) ->
                    [map EXCEPT ![i] = [addr |-> run.addr, size |-> @.size + run.size]]
               [] OTHER -> MovedUp(run, i)
        /\ given' = given \ {run}
        /\ UNCHANGED answer

\* The next malloc or mfree reads, and may write, what lies behind the array.
RunsOn == ~ Ended /\ UNCHANGED mapVars

MapNext ==
    \/ \E n \in Units : Malloc(n) \/ MallocFails(n)
    \/ \E run \in given : Mfree(run)
    \/ RunsOn

MapSpec == MapInit /\ [][MapNext]_mapVars

-----------------------------------------------------------------------------
(* What makes resource maps correct.                                       *)

\* Type invariant.
MapTypeOK ==
    /\ map \in [Slots -> Run]
    /\ given \subseteq [addr : Units, size : Units]
    /\ answer \in 0..Size

\* malloc.c: "the addresses are increasing and the list is terminated by a 0
\* size".  The first holds always, in an array that has overflowed too.  Runs
\* that touch are joined, so a free stretch of units is one entry, whatever
\* the order in which its parts were freed; and whatever lies beyond the end
\* is empty, which mfree relies on when it moves the end up.  That there is
\* an end is not claimed: nothing in malloc.c keeps the list in its array.
Ordered ==
    /\ MapTypeOK
    /\ \A i \in 1..(End - 2) : map[i].addr + map[i].size < map[i + 1].addr
    /\ \A i \in End..SMAPSIZ : map[i].size = 0

Free == INSTANCE FreeUnits WITH free <- UnitsOfAll(Listed)

\* The map does first fit over the set of free units: it refuses only when
\* there is no stretch of n free units, however they were freed.
ImplementsFirstFit == Free!Spec

=============================================================================
