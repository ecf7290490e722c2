---------------------------- MODULE PipeStream ----------------------------
(***************************************************************************)
(* What a pipe promises: bytes come out in the order they went in, each    *)
(* once; a write of at most Atomic bytes goes in undivided; the end of the *)
(* stream is told to a reader, and a broken pipe to a writer, only when    *)
(* the other side is closed for good.                                      *)
(***************************************************************************)
EXTENDS Integers, Sequences

CONSTANTS
    Proc,    \* who writes; a byte is represented by its writer
    Atomic   \* the most bytes a write puts in at once

VARIABLES
    stream,   \* written and not yet read
    reading,  \* the read side is open
    writing   \* the write side is open

vars == <<stream, reading, writing>>

Init == stream = <<>> /\ reading = TRUE /\ writing = TRUE

Write(p, n) ==
    /\ reading /\ writing
    /\ stream' = stream \o [i \in 1..n |-> p]
    /\ UNCHANGED <<reading, writing>>

Read(n) ==
    /\ reading /\ n <= Len(stream)
    /\ stream' = SubSeq(stream, n + 1, Len(stream))
    /\ UNCHANGED <<reading, writing>>

\* What was not read is nobody's any more.
CloseRead == reading /\ reading' = FALSE /\ stream' = <<>> /\ UNCHANGED writing
CloseWrite == writing /\ writing' = FALSE /\ UNCHANGED <<stream, reading>>

\* Both sides are closed and the pipe is made anew.
Pipe == ~ reading /\ ~ writing /\ stream' = <<>> /\ reading' = TRUE /\ writing' = TRUE

Next ==
    \/ \E p \in Proc, n \in 1..Atomic : Write(p, n)
    \/ \E n \in 1..Len(stream) : Read(n)
    \/ CloseRead \/ CloseWrite \/ Pipe

Spec == Init /\ [][Next]_vars

=============================================================================
