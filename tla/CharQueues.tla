----------------------------- MODULE CharQueues -----------------------------
(***************************************************************************)
(* What the character lists promise: queues of characters.  A call adds to *)
(* the end of one queue, as much as there is room for, or takes from its   *)
(* front, tells its caller what it did, and leaves the other queues alone. *)
(***************************************************************************)
EXTENDS Sequences, Naturals

CONSTANTS Queue, Char

VARIABLES
    content,  \* what is in each queue
    full,     \* there is no room but at the end of a queue
    lastCall  \* by: put, putw, take or getw; its queue; the characters it was given
              \* or gave; how many it did not put, or was asked for

Init == content = [k \in Queue |-> <<>>] /\ ~ full /\ lastCall = [by |-> "none"]

Answered(by, k) == lastCall'.by = by /\ lastCall'.queue = k

\* Some of the characters may find no room.
Put(k) ==
    LET s == lastCall'.chars
        n == lastCall'.count
    IN /\ Answered("put", k)
       /\ s \in Seq(Char) /\ n \in 0 .. Len(s)
       /\ content' = [content EXCEPT ![k] = @ \o SubSeq(s, 1, Len(s) - n)]
       /\ n > 0 => full'

\* Of a word both or none.
PutWord(k) ==
    LET s == lastCall'.chars IN
    /\ Answered("putw", k)
    /\ s \in Seq(Char) /\ Len(s) = 2
    /\ \/ /\ content' = [content EXCEPT ![k] = @ \o s]
          /\ lastCall'.count = 0
       \/ /\ full /\ UNCHANGED <<content, full>>
          /\ lastCall'.count = 2

\* The first n, as far as there are.
TakeFirst(k, n) ==
    /\ lastCall'.chars = SubSeq(content[k], 1, n)
    /\ content' = [content EXCEPT ![k] = SubSeq(@, n + 1, Len(@))]
Take(k) ==
    /\ Answered("take", k)
    /\ LET n == lastCall'.count
       IN TakeFirst(k, IF n < Len(content[k]) THEN n ELSE Len(content[k]))
TakeWord(k) ==
    /\ Answered("getw", k)
    /\ TakeFirst(k, IF Len(content[k]) < 2 THEN 0 ELSE 2)

Next ==
    \E k \in Queue : Put(k) \/ PutWord(k) \/ Take(k) \/ TakeWord(k)

Spec == Init /\ [][Next]_<<content, full, lastCall>>

=============================================================================
