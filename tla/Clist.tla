------------------------------- MODULE Clist -------------------------------
(***************************************************************************)
(* Character lists, prim.c: queues of characters in blocks of CBSIZE that  *)
(* are chained by c_next and come from one free list.  Each routine runs at*)
(* high priority and is a step.                                            *)
(*                                                                         *)
(* A block b is at the addresses of a multiple of its size: its c_next is  *)
(* at b*CBLOCK and its characters after it, so that an address with no bits*)
(* in CROUND is the one after the last character of a block.               *)
(***************************************************************************)
EXTENDS Integers, SequencesExt

CONSTANTS
    Queue,    \* the queues
    Char,     \* the characters
    NCLIST,   \* blocks
    CBSIZE,   \* characters of a block
    MaxMove   \* the most characters of one call

ASSUME ClistAssumption == Char # {} /\ NCLIST \in Nat \ {0} /\ CBSIZE \in Nat \ {0, 1} /\ MaxMove \in Nat \ {0}

CBLOCK == CBSIZE + 1
NULL == 0
Info(b) == b * CBLOCK + 1
BlockOf(a) == a \div CBLOCK
AtEnd(a) == a % CBLOCK = 0

VARIABLES
    clists,   \* cfreelist, c_next and c_info of the blocks, and the queues
    lastCall  \* history: what the last call was for, and its answer

clistVars == <<clists, lastCall>>

Old == CHOOSE c \in Char : TRUE
EmptyQueue == [cc |-> 0, cf |-> NULL, cl |-> NULL]

\* cinit: the last block is the first of the free list.
ClistInit ==
    /\ clists = [free |-> NCLIST, next |-> [b \in 1 .. NCLIST |-> b - 1],
                 info |-> [a \in CBLOCK .. (NCLIST + 1) * CBLOCK - 1 |-> Old],
                 q |-> [k \in Queue |-> EmptyQueue]]
    /\ lastCall = [by |-> "none"]

-----------------------------------------------------------------------------

\* What was in a block that goes back does not matter any more.
Release(m, b) ==
    [free |-> b, next |-> [m.next EXCEPT ![b] = m.free], q |-> m.q,
     info |-> [a \in DOMAIN m.info |-> IF BlockOf(a) = b THEN Old ELSE m.info[a]]]
NewBlock(m) ==
    [free |-> m.next[m.free], next |-> [m.next EXCEPT ![m.free] = NULL], q |-> m.q, info |-> m.info]

\* The place for the next character: a new block for an empty queue, or one
\* chained to a full last block.
NeedsBlock(q) == q.cl = NULL \/ AtEnd(q.cl)
Extended(m, k) ==
    LET b == m.free
        l == m.q[k].cl
        n == [NewBlock(m) EXCEPT !.q[k] = [@ EXCEPT !.cl = Info(b)]]
    IN IF l = NULL THEN [n EXCEPT !.q[k] = [@ EXCEPT !.cf = Info(b)]]
       ELSE [n EXCEPT !.next[BlockOf(l) - 1] = b]

\* putc returns -1.
Refused(m, k) == NeedsBlock(m.q[k]) /\ m.free = NULL
putc(m, k, c) ==
    IF Refused(m, k) THEN m
    ELSE LET n == IF NeedsBlock(m.q[k]) THEN Extended(m, k) ELSE m
             q == n.q[k]
         IN [[n EXCEPT !.info[q.cl] = c]
             EXCEPT !.q[k] = [cc |-> q.cc + 1, cf |-> q.cf, cl |-> q.cl + 1]]

\* Wrong: a block goes back only when another follows it.
getcKeeps(m, k) ==
    LET q == m.q[k]
        a == q.cf + 1
    IN CASE q.cc = 0 -> [m EXCEPT !.q[k] = EmptyQueue]
         [] q.cc = 1 -> [m EXCEPT !.q[k] = EmptyQueue]
         [] q.cc > 1 /\ AtEnd(a) ->
              [Release(m, BlockOf(a) - 1) EXCEPT
                 !.q[k] = [cc |-> q.cc - 1, cf |-> Info(m.next[BlockOf(a) - 1]), cl |-> q.cl]]
         [] OTHER -> [m EXCEPT !.q[k] = [cc |-> q.cc - 1, cf |-> a, cl |-> q.cl]]

\* Wrong: the block is in the free list before its c_next is looked at.
getcLate(m, k) ==
    LET q == m.q[k]
        a == q.cf + 1
    IN CASE q.cc = 0 -> [m EXCEPT !.q[k] = EmptyQueue]
         [] q.cc = 1 -> [Release(m, BlockOf(q.cf)) EXCEPT !.q[k] = EmptyQueue]
         [] q.cc > 1 /\ AtEnd(a) ->
              [Release(m, BlockOf(a) - 1) EXCEPT
                 !.q[k] = [cc |-> q.cc - 1, cf |-> Info(m.free), cl |-> q.cl]]
         [] OTHER -> [m EXCEPT !.q[k] = [cc |-> q.cc - 1, cf |-> a, cl |-> q.cl]]

\* The character getc returns, unless there is none.
FirstOf(m, k) == m.info[m.q[k].cf]
\* A block goes back when its last character is taken.
getc(m, k) ==
    LET q == m.q[k]
        a == q.cf + 1
    IN CASE q.cc = 0 -> [m EXCEPT !.q[k] = EmptyQueue]
         [] q.cc = 1 -> [Release(m, BlockOf(q.cf)) EXCEPT !.q[k] = EmptyQueue]
         [] q.cc > 1 /\ AtEnd(a) ->
              [Release(m, BlockOf(a) - 1) EXCEPT
                 !.q[k] = [cc |-> q.cc - 1, cf |-> Info(m.next[BlockOf(a) - 1]), cl |-> q.cl]]
         [] OTHER -> [m EXCEPT !.q[k] = [cc |-> q.cc - 1, cf |-> a, cl |-> q.cl]]

\* b_to_q stops at the first character that finds no room; so would the rest.
b_to_q(m, k, s) ==
    LET after[i \in 0 .. Len(s)] == IF i = 0 THEN m ELSE putc(after[i - 1], k, s[i])
    IN after[Len(s)]
\* What it returns: the characters that are not in the queue.
NotPut(m, k, s) == Len(s) - (b_to_q(m, k, s).q[k].cc - m.q[k].cc)

\* q_to_b takes count characters, one after the other, and copies each.
Least(a, b) == IF a < b THEN a ELSE b
Taking(m, k, count) ==
    LET after[i \in 0 .. count] == IF i = 0 THEN m ELSE getc(after[i - 1], k) IN after
q_to_b(m, k, n) == LET count == Least(n, m.q[k].cc) IN Taking(m, k, count)[count]
Copied(m, k, n) ==
    LET count == Least(n, m.q[k].cc)
        after == Taking(m, k, count)
    IN [i \in 1 .. count |-> FirstOf(after[i - 1], k)]

\* putw wants a free block even if there is room in the last one.
putw(m, k, s) == IF m.free = NULL THEN m ELSE putc(putc(m, k, s[1]), k, s[2])

-----------------------------------------------------------------------------
(* The address of the i-th character of a queue, and what is in it         *)

Follows(m, a) == IF AtEnd(a + 1) THEN Info(m.next[BlockOf(a)]) ELSE a + 1
Address(m, k) ==
    LET f[i \in 0 .. m.q[k].cc] == IF i <= 1 THEN m.q[k].cf ELSE Follows(m, f[i - 1]) IN f
Content(m, k) == LET a == Address(m, k) IN [i \in 1 .. m.q[k].cc |-> m.info[a[i]]]

\* What a caller sees: of characters put, how many found no room; of characters
\* asked for, those there were.
Returns(by, k, s, n) == lastCall' = [by |-> by, queue |-> k, chars |-> s, count |-> n]

PutC(k) ==
    \E c \in Char : /\ clists' = putc(clists, k, c)
                    /\ Returns("put", k, <<c>>, IF Refused(clists, k) THEN 1 ELSE 0)
GetC(k) ==
    /\ clists' = getc(clists, k)
    /\ Returns("take", k, IF clists.q[k].cc = 0 THEN <<>> ELSE <<FirstOf(clists, k)>>, 1)
BToQ(k) ==
    \E n \in 1 .. MaxMove : \E s \in [1 .. n -> Char] :
      clists' = b_to_q(clists, k, s) /\ Returns("put", k, s, NotPut(clists, k, s))
QToB(k) ==
    \E n \in 1 .. MaxMove :
      clists' = q_to_b(clists, k, n) /\ Returns("take", k, Copied(clists, k, n), n)
\* putw does not look at what putc returns.
PutW(k) ==
    \E s \in [1 .. 2 -> Char] :
      /\ clists' = putw(clists, k, s)
      /\ Returns("putw", k, s, IF clists.free = NULL THEN 2 ELSE 0)
\* getw leaves a single character where it is.
GetW(k) ==
    \/ /\ clists.q[k].cc <= 1 /\ UNCHANGED clists
       /\ Returns("getw", k, <<>>, 2)
    \/ /\ clists.q[k].cc > 1 /\ clists' = getc(getc(clists, k), k)
       /\ Returns("getw", k, <<FirstOf(clists, k), FirstOf(getc(clists, k), k)>>, 2)

ClistNext == \E k \in Queue : PutC(k) \/ GetC(k) \/ BToQ(k) \/ QToB(k) \/ PutW(k) \/ GetW(k)
ClistSpec == ClistInit /\ [][ClistNext]_clistVars

-----------------------------------------------------------------------------
(* Properties                                                              *)

\* Types.
ClistTypeOK ==
    /\ clists.free \in 0 .. NCLIST /\ clists.next \in [1 .. NCLIST -> 0 .. NCLIST]
    /\ \A k \in Queue : /\ clists.q[k].cc \in 0 .. NCLIST * CBSIZE
                         /\ {clists.q[k].cf, clists.q[k].cl} \subseteq 0 .. (NCLIST + 1) * CBLOCK

Used(k) == LET a == Address(clists, k) IN {BlockOf(a[i]) : i \in 1 .. clists.q[k].cc}
\* The blocks of the free list, in order; 0 after its end.
FreeChain ==
    LET f[i \in 1 .. NCLIST + 1] ==
          IF i = 1 THEN clists.free ELSE IF f[i - 1] = NULL THEN NULL ELSE clists.next[f[i - 1]]
    IN {f[i] : i \in 1 .. NCLIST + 1}

\* Every block is in the free list or in one queue, whatever has been put and
\* taken, and the free list ends.
BlocksKept ==
    /\ ClistTypeOK
    /\ NULL \in FreeChain
    /\ (FreeChain \ {NULL}) \cup UNION {Used(k) : k \in Queue} = 1 .. NCLIST
    /\ \A k \in Queue : /\ Used(k) \cap FreeChain = {}
                        /\ \A j \in Queue \ {k} : Used(k) \cap Used(j) = {}

\* The chained blocks are queues: the characters that a call puts are added to
\* its queue as they are, once and in order, all but those it returns as not put,
\* and there are such only when no block is free; a call that takes gets the
\* first characters of its queue, as many as it asks for and there are, and they
\* are gone; a word goes and comes whole or not at all.
Queues == INSTANCE CharQueues WITH
    content <- [k \in Queue |-> Content(clists, k)], full <- clists.free = NULL
ImplementsQueues == Queues!Spec

=============================================================================
