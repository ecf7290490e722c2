------------------------------- MODULE Pipe -------------------------------
(***************************************************************************)
(* Pipes: pipe.c, with closef of fio.c, iput of iget.c and the pass of     *)
(* update over the inode table (alloc.c), which locks any inode it finds.  *)
(*                                                                         *)
(* The kernel is not preemptive: cpu names the process that goes on        *)
(* without a sleep in between.  readi and writei may sleep, under the      *)
(* inode's lock.                                                           *)
(***************************************************************************)
EXTENDS Integers, Sequences, FiniteSets

CONSTANTS
    Proc,      \* processes that inherit the pipe from one another
    PIPSIZ,    \* bytes at which a pipe is full
    MaxCount,  \* bound: the largest u_count of a read or write
    NoProc     \* nobody is in the kernel

ASSUME PipeAssumption ==
    /\ PIPSIZ \in Nat \ {0} /\ MaxCount \in Nat \ {0}
    /\ NoProc \notin Proc

VARIABLES
    file,     \* the bytes of the inode's file; i_size is its length
    offset,   \* f_offset of the read side's file entry
    iflag,    \* i_flag: ILOCK, IWANT
    imode,    \* i_mode: IREAD, a reader sleeps; IWRITE, a writer sleeps
    icount,   \* i_count
    rf, wf,   \* processes with the read, the write side open: f_count
    pc,       \* where each process is
    count,    \* u_count of a reader, c of a writer: bytes still to move
    chan,     \* address slept on: "lock" ip, "room" ip+1, "data" ip+2
    cpu,      \* the process in the kernel
    updating  \* update holds the inode while iupdat sleeps

vars == <<file, offset, iflag, imode, icount, rf, wf, pc, count, chan, cpu, updating>>
users == <<rf, wf>>

ReadPlace == {"read", "readi"}
WritePlace == {"write", "writei"}
Place == {"idle", "rclose", "wclose"} \cup ReadPlace \cup WritePlace

-----------------------------------------------------------------------------
\* One process has made the pipe.
Init ==
    /\ file = <<>> /\ offset = 0
    /\ iflag = {} /\ imode = {}
    /\ icount = 2
    /\ \E p \in Proc : rf = {p} /\ wf = {p}
    /\ pc = [p \in Proc |-> "idle"]
    /\ count = [p \in Proc |-> 0]
    /\ chan = [p \in Proc |-> "none"]
    /\ cpu = NoProc
    /\ updating = FALSE

At(p, place) == pc[p] = place /\ chan[p] = "none" /\ cpu \in {p, NoProc}

\* p leaves the kernel, or may sleep under the lock, at place.
Leave(p, place) == pc' = [pc EXCEPT ![p] = place] /\ cpu' = NoProc

Awakened(C) == [q \in Proc |-> IF chan[q] \in C THEN "none" ELSE chan[q]]

\* prele: the flags it leaves.
Unlocked == iflag \ {"LOCK", "WANT"}

\* prele: whom it wakes.
LockWaiters == IF "WANT" \in iflag THEN {"lock"} ELSE {}

\* plock finds the lock taken.
WaitLock(p) ==
    /\ \E place \in {"read", "write", "rclose", "wclose"} : At(p, place)
    /\ "LOCK" \in iflag
    /\ iflag' = iflag \cup {"WANT"}
    /\ chan' = [chan EXCEPT ![p] = "lock"]
    /\ cpu' = NoProc
    /\ UNCHANGED <<file, offset, imode, icount, users, pc, count, updating>>

\* plock succeeds at place.
Plock(p, place) == At(p, place) /\ "LOCK" \notin iflag

-----------------------------------------------------------------------------
\* pipe, when nothing is left of the last one.
MakePipe(p) ==
    /\ icount = 0 /\ cpu = NoProc
    /\ rf' = {p} /\ wf' = {p}
    /\ icount' = 2
    /\ iflag' = {} /\ imode' = {} /\ file' = <<>> /\ offset' = 0
    /\ UNCHANGED <<pc, count, chan, cpu, updating>>

\* newproc: the child q gets its parent's files.
Fork(p, q) ==
    /\ At(p, "idle") /\ pc[q] = "idle"
    /\ q \notin rf \cup wf /\ p \in rf \cup wf
    /\ rf' = IF p \in rf THEN rf \cup {q} ELSE rf
    /\ wf' = IF p \in wf THEN wf \cup {q} ELSE wf
    /\ UNCHANGED <<file, offset, iflag, imode, icount, pc, count, chan, cpu, updating>>

-----------------------------------------------------------------------------
\* readp.
Read(p) == \E n \in 1..MaxCount :
    /\ At(p, "idle") /\ p \in rf
    /\ count' = [count EXCEPT ![p] = n]
    /\ pc' = [pc EXCEPT ![p] = "read"] /\ cpu' = p
    /\ UNCHANGED <<file, offset, iflag, imode, icount, users, chan, updating>>

\* Wrong readp: the end of the file is told whenever the pipe is empty.
OneSided == TRUE

\* The other side of the pipe is closed.
Broken == icount < 2

\* Nothing in the pipe and no writer left: end of file.
ReadEof(p) ==
    /\ Plock(p, "read") /\ file = <<>> /\ Broken
    /\ Leave(p, "idle")
    /\ count' = [count EXCEPT ![p] = 0]
    /\ UNCHANGED <<file, offset, iflag, imode, icount, users, chan, updating>>

\* Wrong readp: the sleep is not announced to the writers.
NoReadBit == imode

ReadBit == imode \cup {"READ"}

\* Nothing in the pipe: unlock and wait for a writer.
ReadSleep(p) ==
    /\ Plock(p, "read") /\ file = <<>> /\ ~ Broken
    /\ imode' = ReadBit
    /\ chan' = [chan EXCEPT ![p] = "data"]
    /\ cpu' = NoProc
    /\ UNCHANGED <<file, offset, iflag, icount, users, pc, count, updating>>

\* Something in the pipe: readi under the lock.
ReadStart(p) ==
    /\ Plock(p, "read") /\ file # <<>>
    /\ iflag' = iflag \cup {"LOCK"}
    /\ Leave(p, "readi")
    /\ UNCHANGED <<file, offset, imode, icount, users, count, chan, updating>>

Smaller(m, n) == IF m < n THEN m ELSE n

\* The end of readp, for what readi read before it was done or failed: when the
\* reader has caught up, offset and size go back to 0 and the writers waiting for
\* room are woken.
ReadEnd(p) ==
    /\ At(p, "readi")
    /\ \E done \in 0 .. Smaller(count[p], Len(file) - offset) :
       LET n == offset + done
           caughtUp == n = Len(file)
           room == caughtUp /\ "WRITE" \in imode
       IN  /\ offset' = IF caughtUp THEN 0 ELSE n
           /\ file' = IF caughtUp THEN <<>> ELSE file
           /\ imode' = IF room THEN imode \ {"WRITE"} ELSE imode
           /\ chan' = Awakened(LockWaiters \cup (IF room THEN {"room"} ELSE {}))
    /\ iflag' = Unlocked
    /\ count' = [count EXCEPT ![p] = 0]
    /\ Leave(p, "idle")
    /\ UNCHANGED <<icount, users, updating>>

-----------------------------------------------------------------------------
\* writep.
Write(p) == \E n \in 1..MaxCount :
    /\ At(p, "idle") /\ p \in wf
    /\ count' = [count EXCEPT ![p] = n]
    /\ pc' = [pc EXCEPT ![p] = "write"] /\ cpu' = p
    /\ UNCHANGED <<file, offset, iflag, imode, icount, users, chan, updating>>

\* All done.
WriteDone(p) ==
    /\ Plock(p, "write") /\ count[p] = 0
    /\ Leave(p, "idle")
    /\ UNCHANGED <<file, offset, iflag, imode, icount, users, count, chan, updating>>

\* No reader left: EPIPE.
WriteBroken(p) ==
    /\ Plock(p, "write") /\ count[p] # 0 /\ Broken
    /\ Leave(p, "idle")
    /\ count' = [count EXCEPT ![p] = 0]
    /\ UNCHANGED <<file, offset, iflag, imode, icount, users, chan, updating>>

Full == Len(file) >= PIPSIZ

\* The pipe is full: wait for the readers to empty it.
WriteSleep(p) ==
    /\ Plock(p, "write") /\ count[p] # 0 /\ ~ Broken /\ Full
    /\ imode' = imode \cup {"WRITE"}
    /\ chan' = [chan EXCEPT ![p] = "room"]
    /\ cpu' = NoProc
    /\ UNCHANGED <<file, offset, iflag, icount, users, pc, count, updating>>

\* Write what is possible: writei under the lock.
WriteStart(p) ==
    /\ Plock(p, "write") /\ count[p] # 0 /\ ~ Broken /\ ~ Full
    /\ iflag' = iflag \cup {"LOCK"}
    /\ Leave(p, "writei")
    /\ UNCHANGED <<file, offset, imode, icount, users, count, chan, updating>>

\* Wrong writep: the bytes go where the reader is, not to the end.
Overwritten(s) == SubSeq(file, 1, offset) \o s

\* The file when s has been written at i_size.
Appended(s) == file \o s

\* writei is over: unlock, wake the readers, and go round the loop at once.
\* If it fails on the way it stops there; what was to be written is counted as
\* written all the same (c is lowered before the call), and the error is not
\* looked at.
WriteEnd(p) ==
    /\ At(p, "writei")
    /\ LET n == Smaller(count[p], PIPSIZ)
       IN  /\ \E done \in 0 .. n : file' = Appended([i \in 1 .. done |-> p])
           /\ count' = [count EXCEPT ![p] = @ - n]
    /\ iflag' = Unlocked
    /\ imode' = imode \ {"READ"}
    /\ chan' = Awakened(LockWaiters \cup (IF "READ" \in imode THEN {"data"} ELSE {}))
    /\ pc' = [pc EXCEPT ![p] = "write"] /\ cpu' = p
    /\ UNCHANGED <<offset, icount, users, updating>>

-----------------------------------------------------------------------------
\* A signal ends a sleep at PPIPE; the call is abandoned.
Interrupted(p) ==
    /\ chan[p] \in {"data", "room"}
    /\ chan' = [chan EXCEPT ![p] = "none"]
    /\ pc' = [pc EXCEPT ![p] = "idle"]
    /\ count' = [count EXCEPT ![p] = 0]
    /\ UNCHANGED <<file, offset, iflag, imode, icount, users, cpu, updating>>

\* close, of a side another process has open too: only f_count changes.
CloseShared(p) ==
    /\ At(p, "idle")
    /\ \/ p \in rf /\ rf # {p} /\ rf' = rf \ {p} /\ UNCHANGED wf
       \/ p \in wf /\ wf # {p} /\ wf' = wf \ {p} /\ UNCHANGED rf
    /\ UNCHANGED <<file, offset, iflag, imode, icount, pc, count, chan, cpu, updating>>

\* close of the last descriptor of a side.
CloseLast(p) ==
    /\ At(p, "idle")
    /\ \/ rf = {p} /\ pc' = [pc EXCEPT ![p] = "rclose"]
       \/ wf = {p} /\ pc' = [pc EXCEPT ![p] = "wclose"]
    /\ cpu' = p
    /\ UNCHANGED <<file, offset, iflag, imode, icount, users, count, chan, updating>>

\* Wrong closef: the processes that sleep on the other side are not told.
TellsNobody == {}

\* Whom closef wakes when a side is gone.
CloseWakes == {"room", "data"}

\* closef and iput, with the lock: everybody who waits for the other side is
\* woken before the count goes down, and no sleep comes between the two.
Close(p) ==
    /\ \/ Plock(p, "rclose") /\ rf' = {} /\ UNCHANGED wf
       \/ Plock(p, "wclose") /\ wf' = {} /\ UNCHANGED rf
    /\ imode' = imode \ {"READ", "WRITE"}
    /\ chan' = Awakened(CloseWakes)
    /\ icount' = icount - 1
    /\ file' = IF icount = 1 THEN <<>> ELSE file
    /\ offset' = IF icount = 1 THEN 0 ELSE offset
    /\ Leave(p, "idle")
    /\ UNCHANGED <<iflag, count, updating>>

\* Wrong update: it takes an inode another process has locked.
AnyInode == icount > 0

\* update skips inodes in use.
Updatable == "LOCK" \notin iflag /\ icount > 0

\* update locks the inode and counts itself among its users, while iupdat
\* sleeps.
UpdateStart ==
    /\ cpu = NoProc /\ ~ updating /\ Updatable
    /\ iflag' = iflag \cup {"LOCK"}
    /\ icount' = icount + 1
    /\ updating' = TRUE
    /\ UNCHANGED <<file, offset, imode, users, pc, count, chan, cpu>>

\* Wrong update: the inode is unlocked and not given up.
UpdateKeeps ==
    /\ cpu = NoProc /\ updating
    /\ iflag' = Unlocked
    /\ chan' = Awakened(LockWaiters)
    /\ updating' = FALSE
    /\ UNCHANGED <<file, offset, imode, icount, users, pc, count, cpu>>

\* The iput of update.
UpdateEnd ==
    /\ cpu = NoProc /\ updating
    /\ icount' = icount - 1
    /\ iflag' = Unlocked
    /\ chan' = Awakened(LockWaiters)
    /\ updating' = FALSE
    /\ UNCHANGED <<file, offset, imode, users, pc, count, cpu>>

-----------------------------------------------------------------------------
\* What a process inside a call does next, when it need not wait for the lock.
Advance(p) ==
    \/ ReadEof(p) \/ ReadSleep(p) \/ ReadStart(p) \/ ReadEnd(p)
    \/ WriteDone(p) \/ WriteBroken(p) \/ WriteSleep(p) \/ WriteStart(p)
    \/ WriteEnd(p) \/ Close(p)

Next ==
    \/ UpdateStart \/ UpdateEnd
    \/ \E p \in Proc :
          \/ WaitLock(p) \/ Advance(p) \/ MakePipe(p) \/ Read(p) \/ Write(p)
          \/ Interrupted(p) \/ CloseShared(p) \/ CloseLast(p)
          \/ \E q \in Proc : Fork(p, q)

Spec == Init /\ [][Next]_vars

\* Transfers end; a runnable process is dispatched sooner or later, and one
\* woken at PINOD runs before those at user priority enter the kernel again,
\* so it does not find the lock taken for ever.
Fairness ==
    /\ WF_vars(UpdateEnd)
    /\ \A p \in Proc : WF_vars(WaitLock(p)) /\ SF_vars(Advance(p))

LiveSpec == Spec /\ Fairness

-----------------------------------------------------------------------------
(* What makes pipes correct.                                               *)

\* The processes that hold the inode's lock.
Holders == {p \in Proc : pc[p] \in {"readi", "writei"}}

\* Type invariant.
TypeOK ==
    /\ file \in Seq(Proc) /\ offset \in Nat
    /\ iflag \subseteq {"LOCK", "WANT"} /\ imode \subseteq {"READ", "WRITE"}
    /\ icount \in 0..3
    /\ rf \subseteq Proc /\ wf \subseteq Proc
    /\ pc \in [Proc -> Place]
    /\ count \in [Proc -> 0..MaxCount]
    /\ chan \in [Proc -> {"none", "lock", "room", "data"}]
    /\ cpu \in Proc \cup {NoProc}
    /\ updating \in BOOLEAN

\* The lock has one holder, a process in readi or writei or update, and it is
\* set exactly when it has one: no prele frees somebody else's lock.
OneHolder ==
    /\ \A p, q \in Holders : p = q
    /\ updating => Holders = {}
    /\ "LOCK" \in iflag <=> updating \/ Holders # {}

\* The file never reaches twice the size of a full pipe, and the read offset
\* stays inside it: equal to the size only when both are 0.
Bounded ==
    /\ Len(file) < 2 * PIPSIZ
    /\ offset < Len(file) \/ (offset = 0 /\ file = <<>>)

\* i_count is the number of sides that are open, plus update: what readp and
\* writep test to know of the other side is what they think it is, even while
\* update has the inode.
CountsSides ==
    icount = (IF rf = {} THEN 0 ELSE 1) + (IF wf = {} THEN 0 ELSE 1)
             + (IF updating THEN 1 ELSE 0)

\* No process sleeps past the event it waits for: a reader sleeps on an empty
\* pipe, a writer on a full one, with its bit set in i_mode and the other side
\* open; a process that wants the lock finds it held and marked IWANT.
NoLostWakeup == \A p \in Proc :
    /\ chan[p] = "data" => file = <<>> /\ "READ" \in imode /\ wf # {}
    /\ chan[p] = "room" => Full /\ "WRITE" \in imode /\ rf # {}
    /\ chan[p] = "lock" => {"LOCK", "WANT"} \subseteq iflag

\* End of file is returned only when no process has the write side, EPIPE only
\* when none has the read side.
ToldTheTruth == [][\A p \in Proc :
    /\ pc[p] = "read" /\ pc'[p] = "idle" /\ chan[p] = "none" => wf = {}
    /\ pc[p] = "write" /\ pc'[p] = "idle" /\ chan[p] = "none" /\ count[p] # 0 => rf = {}
    ]_vars

Stream == INSTANCE PipeStream WITH
    Atomic <- PIPSIZ,
    stream <- IF rf = {} THEN <<>> ELSE SubSeq(file, offset + 1, Len(file)),
    reading <- rf # {},
    writing <- wf # {}

\* A pipe is a stream: nothing that writei has put into it is lost, doubled,
\* reordered, or mixed into a write of at most PIPSIZ bytes, over sleeps, resets
\* of the file, several readers and writers, and update.  A write whose writei
\* fails goes in with a gap.
ImplementsStream == Stream!Spec

\* A reader gets its end of file, and a writer its EPIPE, once the other side
\* is closed, though it may sleep or wait for the lock at that moment.
EndsAreNoticed == \A p \in Proc :
    /\ wf = {} /\ pc[p] \in ReadPlace ~> (pc[p] = "idle" \/ wf # {})
    /\ rf = {} /\ pc[p] \in WritePlace ~> (pc[p] = "idle" \/ rf # {})

=============================================================================
