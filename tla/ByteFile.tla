------------------------------ MODULE ByteFile ------------------------------
(***************************************************************************)
(* What readi and writei promise: a file is a sequence, which reads as 0   *)
(* where nothing was written.  A call that fails has done its first part;  *)
(* after a write that fails, the file may be longer than what was written. *)
(***************************************************************************)
EXTENDS Integers, FiniteSets, Sequences

CONSTANTS Strings, Counts   \* what is written, and how much is read

VARIABLES
    size,     \* how long the file is
    words,    \* what is in it
    pos,      \* where it is read or written next
    last      \* how the last call ended, and what it read

Ended(err, out) == last' = [err |-> err, out |-> out]
Init == size = 0 /\ words = <<>> /\ pos = 0 /\ last = [err |-> FALSE, out |-> <<>>]

\* The first n of s are put at pos, in a file that then is at least end long.
Put(s, n, end) ==
    /\ size' = (IF end > size THEN end ELSE size)
    /\ words' = [i \in 1 .. size' |-> CASE i - pos \in 1 .. n -> s[i - pos]
                                       [] i - pos \notin 1 .. n /\ i <= size -> words[i]
                                       [] OTHER -> 0]

Write(s) ==
    /\ Ended(FALSE, <<>>) /\ pos >= 0 /\ pos' = pos + Len(s)
    /\ Put(s, Len(s), pos')

WriteFails(s) ==
    /\ Ended(TRUE, <<>>) /\ pos' - pos \in 0 .. Len(s)
    /\ \E n \in 0 .. pos' - pos : Put(s, n, pos') \/ Put(s, n, IF n = 0 THEN 0 ELSE pos + n)

Here(i) == pos + i <= size
Read(n) ==
    /\ pos >= 0 /\ pos' = pos + Cardinality({i \in 1 .. n : Here(i)})
    /\ Ended(FALSE, [i \in 1 .. pos' - pos |-> words[pos + i]])
    /\ UNCHANGED <<size, words>>

ReadFails(n) == Ended(TRUE, <<>>) /\ pos' - pos \in 0 .. n /\ UNCHANGED <<size, words>>

Seek == Ended(FALSE, <<>>) /\ UNCHANGED <<size, words>>
Truncate == last'.out = <<>> /\ size' = 0 /\ words' = <<>> /\ UNCHANGED pos

Next ==
    \/ \E s \in Strings : Write(s) \/ WriteFails(s)
    \/ \E n \in Counts : Read(n) \/ ReadFails(n)
    \/ Seek \/ Truncate

Spec == Init /\ [][Next]_<<size, words, pos, last>>

=============================================================================
