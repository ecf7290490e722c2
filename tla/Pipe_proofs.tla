--------------------------- MODULE Pipe_proofs ---------------------------
(* Proofs about Pipe.                                                      *)
EXTENDS Pipe, SequenceTheorems, TLAPS

-----------------------------------------------------------------------------
(* The inductive invariant.  Places ties where a process stands to the     *)
(* descriptors it has, to the lock and to the address it sleeps on.        *)

Places == \A p \in Proc :
    /\ pc[p] \in ReadPlace => p \in rf
    /\ pc[p] \in WritePlace => p \in wf
    /\ pc[p] = "rclose" => rf = {p}
    /\ pc[p] = "wclose" => wf = {p}
    /\ pc[p] = "readi" => file # <<>>
    /\ pc[p] = "writei" => ~ Full
    /\ chan[p] = "data" => pc[p] = "read"
    /\ chan[p] = "room" => pc[p] = "write"
    /\ chan[p] = "lock" => pc[p] \in {"read", "write", "rclose", "wclose"}

IInv == TypeOK /\ OneHolder /\ Bounded /\ CountsSides /\ NoLostWakeup /\ Places

\* Writing n bytes lengthens the file by n.
LEMMA WriteLength ==
    ASSUME NEW s \in Seq(Proc), NEW p \in Proc, NEW n \in Nat
    PROVE  /\ s \o [i \in 1..n |-> p] \in Seq(Proc)
           /\ Len(s \o [i \in 1..n |-> p]) = Len(s) + n
  <1> DEFINE t == [i \in 1..n |-> p]
  <1>1. t \in Seq(Proc) /\ Len(t) = n
    OBVIOUS
  <1> HIDE DEF t
  <1>2. s \o t \in Seq(Proc) /\ Len(s \o t) = Len(s) + n
    BY <1>1, ConcatProperties
  <1> QED  BY <1>2 DEF t

\* When the lock is free nobody is in readi or writei, update is not at it,
\* and i_count is the number of open sides.
LEMMA LockFree ==
    ASSUME IInv, "LOCK" \notin iflag
    PROVE  /\ ~ updating
           /\ \A q \in Proc : pc[q] \notin {"readi", "writei"}
           /\ icount \in 0..2
           /\ icount = (IF rf = {} THEN 0 ELSE 1) + (IF wf = {} THEN 0 ELSE 1)
  <1>1. ~ updating /\ Holders = {}
    BY DEF IInv, OneHolder, TypeOK
  <1>2. \A q \in Proc : pc[q] \notin {"readi", "writei"}
    BY <1>1 DEF Holders
  <1> QED  BY <1>1, <1>2 DEF IInv, CountsSides

\* A process in readi or writei holds the lock alone.
LEMMA HolderAlone ==
    ASSUME IInv, NEW p \in Proc, pc[p] \in {"readi", "writei"}
    PROVE  /\ ~ updating /\ "LOCK" \in iflag
           /\ \A q \in Proc : q # p => pc[q] \notin {"readi", "writei"}
  <1>1. p \in Holders
    BY DEF Holders
  <1>2. \A q \in Proc : q # p => q \notin Holders
    BY <1>1 DEF IInv, OneHolder
  <1>3. ~ updating /\ "LOCK" \in iflag
    BY <1>1 DEF IInv, OneHolder, TypeOK
  <1> QED  BY <1>2, <1>3 DEF Holders

\* While update is at the inode the lock is taken and nobody is in readi or
\* writei.
LEMMA UpdateAlone ==
    ASSUME IInv, updating
    PROVE  /\ "LOCK" \in iflag
           /\ \A q \in Proc : pc[q] \notin {"readi", "writei"}
  BY DEF IInv, OneHolder, Holders, TypeOK

\* When the inode is free no process is inside a call on it.
LEMMA Nobody ==
    ASSUME IInv, icount = 0
    PROVE  /\ rf = {} /\ wf = {} /\ ~ updating
           /\ \A q \in Proc : pc[q] = "idle" /\ chan[q] = "none"
  <1>1. rf = {} /\ wf = {} /\ ~ updating
    BY DEF IInv, CountsSides
  <1>2. \A q \in Proc : pc[q] = "idle"
    BY <1>1 DEF IInv, Places, TypeOK, Place, ReadPlace, WritePlace
  <1>3. \A q \in Proc : chan[q] = "none"
    BY <1>2 DEF IInv, Places, TypeOK
  <1> QED  BY <1>1, <1>2, <1>3

LEMMA InitIInv == Init => IInv
  <1> SUFFICES ASSUME Init PROVE IInv
    OBVIOUS
  <1> USE PipeAssumption DEF Init
  <1>1. TypeOK
    <2>1. file \in Seq(Proc) /\ offset \in Nat /\ icount \in 0..3
      OBVIOUS
    <2>2. pc \in [Proc -> Place] /\ chan \in [Proc -> {"none", "lock", "room", "data"}]
      BY DEF Place
    <2>3. count \in [Proc -> 0..MaxCount]
      OBVIOUS
    <2>4. rf \subseteq Proc /\ wf \subseteq Proc /\ cpu \in Proc \cup {NoProc}
      OBVIOUS
    <2> QED  BY <2>1, <2>2, <2>3, <2>4 DEF TypeOK
  <1>2. OneHolder /\ Bounded
    BY DEF OneHolder, Holders, Bounded
  <1>3. CountsSides /\ NoLostWakeup
    BY DEF CountsSides, NoLostWakeup
  <1>4. Places
    BY DEF Places, ReadPlace, WritePlace
  <1> QED  BY <1>1, <1>2, <1>3, <1>4 DEF IInv

LEMMA WaitLockIInv == ASSUME IInv, NEW p \in Proc, WaitLock(p) PROVE IInv'
  <1> USE PipeAssumption DEF IInv
  <1>1. TypeOK'
    BY DEF TypeOK, Place, ReadPlace, WritePlace, users, WaitLock, At
  <1>2. OneHolder'
    BY DEF OneHolder, Holders, TypeOK, users, WaitLock, At
  <1>3. Bounded'
    BY DEF Bounded, TypeOK, users, WaitLock, At
  <1>4. CountsSides'
    BY DEF CountsSides, TypeOK, users, WaitLock, At
  <1>5. NoLostWakeup'
    BY DEF NoLostWakeup, Full, TypeOK, users, WaitLock, At
  <1>6. Places'
    BY DEF Places, ReadPlace, WritePlace, Full, TypeOK, users, WaitLock, At
  <1> QED  BY <1>1, <1>2, <1>3, <1>4, <1>5, <1>6

LEMMA MakePipeIInv == ASSUME IInv, NEW p \in Proc, MakePipe(p) PROVE IInv'
  <1> USE PipeAssumption DEF IInv
  <1>0. rf = {} /\ wf = {} /\ ~ updating
          /\ \A q \in Proc : pc[q] = "idle" /\ chan[q] = "none"
    BY Nobody DEF MakePipe
  <1>1. TypeOK'
    BY DEF TypeOK, Place, ReadPlace, WritePlace, users, MakePipe
  <1>2. OneHolder'
    BY <1>0 DEF OneHolder, Holders, TypeOK, users, MakePipe
  <1>3. Bounded'
    BY DEF Bounded, TypeOK, users, MakePipe
  <1>4. CountsSides'
    BY <1>0 DEF CountsSides, TypeOK, users, MakePipe
  <1>5. NoLostWakeup'
    BY <1>0 DEF NoLostWakeup, Full, TypeOK, users, MakePipe
  <1>6. Places'
    BY <1>0 DEF Places, ReadPlace, WritePlace, Full, TypeOK, users, MakePipe
  <1> QED  BY <1>1, <1>2, <1>3, <1>4, <1>5, <1>6

LEMMA ForkIInv == ASSUME IInv, NEW p \in Proc, NEW q \in Proc, Fork(p, q) PROVE IInv'
  <1> USE PipeAssumption DEF IInv
  <1>1. TypeOK'
    BY DEF TypeOK, Place, ReadPlace, WritePlace, users, Fork, At
  <1>2. OneHolder'
    BY DEF OneHolder, Holders, TypeOK, users, Fork, At
  <1>3. Bounded'
    BY DEF Bounded, TypeOK, users, Fork, At
  <1>4. CountsSides'
    BY DEF CountsSides, TypeOK, users, Fork, At
  <1>5. NoLostWakeup'
    BY DEF NoLostWakeup, Full, TypeOK, users, Fork, At
  <1>6. Places'
    BY DEF Places, ReadPlace, WritePlace, Full, TypeOK, users, Fork, At
  <1> QED  BY <1>1, <1>2, <1>3, <1>4, <1>5, <1>6

LEMMA ReadIInv == ASSUME IInv, NEW p \in Proc, Read(p) PROVE IInv'
  <1> USE PipeAssumption DEF IInv
  <1>1. TypeOK'
    BY DEF TypeOK, Place, ReadPlace, WritePlace, users, Read, At
  <1>2. OneHolder'
    BY DEF OneHolder, Holders, TypeOK, users, Read, At
  <1>3. Bounded'
    BY DEF Bounded, TypeOK, users, Read, At
  <1>4. CountsSides'
    BY DEF CountsSides, TypeOK, users, Read, At
  <1>5. NoLostWakeup'
    BY DEF NoLostWakeup, Full, TypeOK, users, Read, At
  <1>6. Places'
    BY DEF Places, ReadPlace, WritePlace, Full, TypeOK, users, Read, At
  <1> QED  BY <1>1, <1>2, <1>3, <1>4, <1>5, <1>6

LEMMA ReadEofIInv == ASSUME IInv, NEW p \in Proc, ReadEof(p) PROVE IInv'
  <1> USE PipeAssumption DEF IInv
  <1>1. TypeOK'
    BY DEF TypeOK, Place, ReadPlace, WritePlace, users, ReadEof, Plock, At, Leave
  <1>2. OneHolder'
    BY DEF OneHolder, Holders, TypeOK, users, ReadEof, Plock, At, Leave
  <1>3. Bounded'
    BY DEF Bounded, TypeOK, users, ReadEof, Plock, At, Leave
  <1>4. CountsSides'
    BY DEF CountsSides, TypeOK, users, ReadEof, Plock, At, Leave
  <1>5. NoLostWakeup'
    BY DEF NoLostWakeup, Full, TypeOK, users, ReadEof, Plock, At, Leave
  <1>6. Places'
    BY DEF Places, ReadPlace, WritePlace, Full, TypeOK, users, ReadEof, Plock, At, Leave
  <1> QED  BY <1>1, <1>2, <1>3, <1>4, <1>5, <1>6

LEMMA ReadSleepIInv == ASSUME IInv, NEW p \in Proc, ReadSleep(p) PROVE IInv'
  <1> USE PipeAssumption DEF IInv
  <1>0. rf # {} /\ wf # {}
    BY LockFree DEF ReadSleep, Broken, Plock
  <1>1. TypeOK'
    BY DEF TypeOK, Place, ReadPlace, WritePlace, users, ReadSleep, ReadBit, Broken, Plock, At
  <1>2. OneHolder'
    BY DEF OneHolder, Holders, TypeOK, users, ReadSleep, ReadBit, Broken, Plock, At
  <1>3. Bounded'
    BY DEF Bounded, TypeOK, users, ReadSleep, ReadBit, Broken, Plock, At
  <1>4. CountsSides'
    BY DEF CountsSides, TypeOK, users, ReadSleep, ReadBit, Broken, Plock, At
  <1>5. NoLostWakeup'
    BY <1>0 DEF NoLostWakeup, Full, TypeOK, users, ReadSleep, ReadBit, Broken, Plock, At
  <1>6. Places'
    BY DEF Places, ReadPlace, WritePlace, Full, TypeOK, users, ReadSleep, ReadBit, Broken, Plock, At
  <1> QED  BY <1>1, <1>2, <1>3, <1>4, <1>5, <1>6

LEMMA ReadStartIInv == ASSUME IInv, NEW p \in Proc, ReadStart(p) PROVE IInv'
  <1> USE PipeAssumption DEF IInv
  <1>1. TypeOK'
    BY DEF TypeOK, Place, ReadPlace, WritePlace, users, ReadStart, Plock, At, Leave
  <1>2. OneHolder'
    BY DEF OneHolder, Holders, TypeOK, users, ReadStart, Plock, At, Leave
  <1>3. Bounded'
    BY DEF Bounded, TypeOK, users, ReadStart, Plock, At, Leave
  <1>4. CountsSides'
    BY DEF CountsSides, TypeOK, users, ReadStart, Plock, At, Leave
  <1>5. NoLostWakeup'
    BY DEF NoLostWakeup, Full, TypeOK, users, ReadStart, Plock, At, Leave
  <1>6. Places'
    BY DEF Places, ReadPlace, WritePlace, Full, TypeOK, users, ReadStart, Plock, At, Leave
  <1> QED  BY <1>1, <1>2, <1>3, <1>4, <1>5, <1>6

LEMMA ReadEndIInv == ASSUME IInv, NEW p \in Proc, ReadEnd(p) PROVE IInv'
  <1> USE PipeAssumption DEF IInv
  <1>0. ~ updating /\ \A q \in Proc : q # p => pc[q] \notin {"readi", "writei"}
    BY HolderAlone DEF ReadEnd, At
  <1>1. TypeOK'
    BY DEF TypeOK, Place, ReadPlace, WritePlace, users, ReadEnd, Smaller, Unlocked, LockWaiters, Awakened, At, Leave
  <1>2. OneHolder'
    BY <1>0 DEF OneHolder, Holders, TypeOK, users, ReadEnd, Smaller, Unlocked, LockWaiters, Awakened, At, Leave
  <1>3. Bounded'
    BY DEF Bounded, TypeOK, users, ReadEnd, Smaller, Unlocked, LockWaiters, Awakened, At, Leave
  <1>4. CountsSides'
    BY <1>0 DEF CountsSides, TypeOK, users, ReadEnd, Smaller, Unlocked, LockWaiters, Awakened, At, Leave
  <1>5. NoLostWakeup'
    BY DEF NoLostWakeup, Full, TypeOK, users, ReadEnd, Smaller, Unlocked, LockWaiters, Awakened, At, Leave
  <1>6. Places'
    BY <1>0 DEF Places, ReadPlace, WritePlace, Full, TypeOK, users, ReadEnd, Smaller, Unlocked, LockWaiters, Awakened, At, Leave
  <1> QED  BY <1>1, <1>2, <1>3, <1>4, <1>5, <1>6

LEMMA WriteIInv == ASSUME IInv, NEW p \in Proc, Write(p) PROVE IInv'
  <1> USE PipeAssumption DEF IInv
  <1>1. TypeOK'
    BY DEF TypeOK, Place, ReadPlace, WritePlace, users, Write, At
  <1>2. OneHolder'
    BY DEF OneHolder, Holders, TypeOK, users, Write, At
  <1>3. Bounded'
    BY DEF Bounded, TypeOK, users, Write, At
  <1>4. CountsSides'
    BY DEF CountsSides, TypeOK, users, Write, At
  <1>5. NoLostWakeup'
    BY DEF NoLostWakeup, Full, TypeOK, users, Write, At
  <1>6. Places'
    BY DEF Places, ReadPlace, WritePlace, Full, TypeOK, users, Write, At
  <1> QED  BY <1>1, <1>2, <1>3, <1>4, <1>5, <1>6

LEMMA WriteDoneIInv == ASSUME IInv, NEW p \in Proc, WriteDone(p) PROVE IInv'
  <1> USE PipeAssumption DEF IInv
  <1>1. TypeOK'
    BY DEF TypeOK, Place, ReadPlace, WritePlace, users, WriteDone, Plock, At, Leave
  <1>2. OneHolder'
    BY DEF OneHolder, Holders, TypeOK, users, WriteDone, Plock, At, Leave
  <1>3. Bounded'
    BY DEF Bounded, TypeOK, users, WriteDone, Plock, At, Leave
  <1>4. CountsSides'
    BY DEF CountsSides, TypeOK, users, WriteDone, Plock, At, Leave
  <1>5. NoLostWakeup'
    BY DEF NoLostWakeup, Full, TypeOK, users, WriteDone, Plock, At, Leave
  <1>6. Places'
    BY DEF Places, ReadPlace, WritePlace, Full, TypeOK, users, WriteDone, Plock, At, Leave
  <1> QED  BY <1>1, <1>2, <1>3, <1>4, <1>5, <1>6

LEMMA WriteBrokenIInv == ASSUME IInv, NEW p \in Proc, WriteBroken(p) PROVE IInv'
  <1> USE PipeAssumption DEF IInv
  <1>1. TypeOK'
    BY DEF TypeOK, Place, ReadPlace, WritePlace, users, WriteBroken, Plock, At, Leave
  <1>2. OneHolder'
    BY DEF OneHolder, Holders, TypeOK, users, WriteBroken, Plock, At, Leave
  <1>3. Bounded'
    BY DEF Bounded, TypeOK, users, WriteBroken, Plock, At, Leave
  <1>4. CountsSides'
    BY DEF CountsSides, TypeOK, users, WriteBroken, Plock, At, Leave
  <1>5. NoLostWakeup'
    BY DEF NoLostWakeup, Full, TypeOK, users, WriteBroken, Plock, At, Leave
  <1>6. Places'
    BY DEF Places, ReadPlace, WritePlace, Full, TypeOK, users, WriteBroken, Plock, At, Leave
  <1> QED  BY <1>1, <1>2, <1>3, <1>4, <1>5, <1>6

LEMMA WriteSleepIInv == ASSUME IInv, NEW p \in Proc, WriteSleep(p) PROVE IInv'
  <1> USE PipeAssumption DEF IInv
  <1>0. rf # {} /\ wf # {}
    BY LockFree DEF WriteSleep, Broken, Plock
  <1>1. TypeOK'
    BY DEF TypeOK, Place, ReadPlace, WritePlace, users, WriteSleep, Broken, Plock, At
  <1>2. OneHolder'
    BY DEF OneHolder, Holders, TypeOK, users, WriteSleep, Broken, Plock, At
  <1>3. Bounded'
    BY DEF Bounded, TypeOK, users, WriteSleep, Broken, Plock, At
  <1>4. CountsSides'
    BY DEF CountsSides, TypeOK, users, WriteSleep, Broken, Plock, At
  <1>5. NoLostWakeup'
    BY <1>0 DEF NoLostWakeup, Full, TypeOK, users, WriteSleep, Broken, Plock, At
  <1>6. Places'
    BY DEF Places, ReadPlace, WritePlace, Full, TypeOK, users, WriteSleep, Broken, Plock, At
  <1> QED  BY <1>1, <1>2, <1>3, <1>4, <1>5, <1>6

LEMMA WriteStartIInv == ASSUME IInv, NEW p \in Proc, WriteStart(p) PROVE IInv'
  <1> USE PipeAssumption DEF IInv
  <1>1. TypeOK'
    BY DEF TypeOK, Place, ReadPlace, WritePlace, users, WriteStart, Plock, At, Leave
  <1>2. OneHolder'
    BY DEF OneHolder, Holders, TypeOK, users, WriteStart, Plock, At, Leave
  <1>3. Bounded'
    BY DEF Bounded, TypeOK, users, WriteStart, Plock, At, Leave
  <1>4. CountsSides'
    BY DEF CountsSides, TypeOK, users, WriteStart, Plock, At, Leave
  <1>5. NoLostWakeup'
    BY DEF NoLostWakeup, Full, TypeOK, users, WriteStart, Plock, At, Leave
  <1>6. Places'
    BY DEF Places, ReadPlace, WritePlace, Full, TypeOK, users, WriteStart, Plock, At, Leave
  <1> QED  BY <1>1, <1>2, <1>3, <1>4, <1>5, <1>6

LEMMA WriteEndIInv == ASSUME IInv, NEW p \in Proc, WriteEnd(p) PROVE IInv'
  <1> USE PipeAssumption DEF IInv
  <1>0. ~ updating /\ \A q \in Proc : q # p => pc[q] \notin {"readi", "writei"}
    BY HolderAlone DEF WriteEnd, At
  <1> DEFINE n == Smaller(count[p], PIPSIZ)
  <1>a. /\ n \in Nat /\ n <= PIPSIZ /\ n <= count[p]
        /\ count[p] \in 0..MaxCount /\ Len(file) < PIPSIZ /\ Len(file) \in Nat
    BY DEF TypeOK, Smaller, Places, Full, WriteEnd, At
  <1>d. PICK done \in 0 .. n : file' = file \o [i \in 1 .. done |-> p]
    BY DEF WriteEnd, Appended
  <1>b. /\ file' \in Seq(Proc) /\ Len(file') = Len(file) + done
        /\ count' = [count EXCEPT ![p] = @ - n]
    <2>1. count' = [count EXCEPT ![p] = @ - n]
      BY DEF WriteEnd
    <2> QED  BY <1>a, <1>d, <2>1, WriteLength DEF TypeOK
  <1> HIDE DEF n
  <1>1. TypeOK'
    <2>1. file' \in Seq(Proc) /\ count' \in [Proc -> 0..MaxCount]
      BY <1>a, <1>b DEF TypeOK
    <2>2. /\ pc' \in [Proc -> Place] /\ cpu' \in Proc
          /\ iflag' \subseteq {"LOCK", "WANT"} /\ imode' \subseteq {"READ", "WRITE"}
      BY DEF TypeOK, Place, WritePlace, WriteEnd, Unlocked
    <2>3. chan' \in [Proc -> {"none", "lock", "room", "data"}]
      BY DEF TypeOK, WriteEnd, Awakened
    <2> QED  BY <2>1, <2>2, <2>3 DEF TypeOK, WriteEnd, users
  <1>2. OneHolder'
    BY <1>0 DEF OneHolder, Holders, TypeOK, users, WriteEnd, Smaller, Appended, Unlocked, LockWaiters, Awakened, At
  <1>3. Bounded'
    <2>1. offset' = offset /\ offset \in Nat
      BY DEF TypeOK, WriteEnd
    <2> QED  BY <1>a, <1>b, <2>1 DEF Bounded
  <1>4. CountsSides'
    BY <1>0 DEF CountsSides, TypeOK, users, WriteEnd, Smaller, Appended, Unlocked, LockWaiters, Awakened, At
  <1>5. NoLostWakeup'
    BY DEF NoLostWakeup, Full, TypeOK, users, WriteEnd, Smaller, Appended, Unlocked, LockWaiters, Awakened, At
  <1>6. Places'
    BY <1>0 DEF Places, ReadPlace, WritePlace, Full, TypeOK, users, WriteEnd, Smaller, Appended, Unlocked, LockWaiters, Awakened, At
  <1> QED  BY <1>1, <1>2, <1>3, <1>4, <1>5, <1>6

LEMMA InterruptedIInv == ASSUME IInv, NEW p \in Proc, Interrupted(p) PROVE IInv'
  <1> USE PipeAssumption DEF IInv
  <1>1. TypeOK'
    BY DEF TypeOK, Place, ReadPlace, WritePlace, users, Interrupted
  <1>2. OneHolder'
    <2>1. pc[p] \in {"read", "write"}
      BY DEF Interrupted, Places
    <2>2. Holders' = Holders
      BY <2>1 DEF Holders, TypeOK, Interrupted
    <2> QED  BY <2>2 DEF OneHolder, Interrupted
  <1>3. Bounded'
    BY DEF Bounded, TypeOK, users, Interrupted
  <1>4. CountsSides'
    BY DEF CountsSides, TypeOK, users, Interrupted
  <1>5. NoLostWakeup'
    BY DEF NoLostWakeup, Full, TypeOK, users, Interrupted
  <1>6. Places'
    BY DEF Places, ReadPlace, WritePlace, Full, TypeOK, users, Interrupted
  <1> QED  BY <1>1, <1>2, <1>3, <1>4, <1>5, <1>6

LEMMA CloseSharedIInv == ASSUME IInv, NEW p \in Proc, CloseShared(p) PROVE IInv'
  <1> USE PipeAssumption DEF IInv
  <1>1. TypeOK'
    BY DEF TypeOK, Place, ReadPlace, WritePlace, users, CloseShared, At
  <1>2. OneHolder'
    BY DEF OneHolder, Holders, TypeOK, users, CloseShared, At
  <1>3. Bounded'
    BY DEF Bounded, TypeOK, users, CloseShared, At
  <1>4. CountsSides'
    BY DEF CountsSides, TypeOK, users, CloseShared, At
  <1>5. NoLostWakeup'
    BY DEF NoLostWakeup, Full, TypeOK, users, CloseShared, At
  <1>6. Places'
    BY DEF Places, ReadPlace, WritePlace, Full, TypeOK, users, CloseShared, At
  <1> QED  BY <1>1, <1>2, <1>3, <1>4, <1>5, <1>6

LEMMA CloseLastIInv == ASSUME IInv, NEW p \in Proc, CloseLast(p) PROVE IInv'
  <1> USE PipeAssumption DEF IInv
  <1>1. TypeOK'
    BY DEF TypeOK, Place, ReadPlace, WritePlace, users, CloseLast, At
  <1>2. OneHolder'
    BY DEF OneHolder, Holders, TypeOK, users, CloseLast, At
  <1>3. Bounded'
    BY DEF Bounded, TypeOK, users, CloseLast, At
  <1>4. CountsSides'
    BY DEF CountsSides, TypeOK, users, CloseLast, At
  <1>5. NoLostWakeup'
    BY DEF NoLostWakeup, Full, TypeOK, users, CloseLast, At
  <1>6. Places'
    BY DEF Places, ReadPlace, WritePlace, Full, TypeOK, users, CloseLast, At
  <1> QED  BY <1>1, <1>2, <1>3, <1>4, <1>5, <1>6

LEMMA CloseIInv == ASSUME IInv, NEW p \in Proc, Close(p) PROVE IInv'
  <1> USE PipeAssumption DEF IInv
  <1>0. ~ updating /\ icount \in 0..2
          /\ icount = (IF rf = {} THEN 0 ELSE 1) + (IF wf = {} THEN 0 ELSE 1)
          /\ \A q \in Proc : pc[q] \notin {"readi", "writei"}
    BY LockFree DEF Close, Plock
  <1>a. icount \in 1..2 /\ (rf = {p} \/ wf = {p})
    BY <1>0 DEF Close, Plock, At, Places
  <1>1. TypeOK'
    BY <1>a DEF TypeOK, Place, ReadPlace, WritePlace, users, Close, CloseWakes, Plock, Awakened, At, Leave
  <1>2. OneHolder'
    BY <1>0 DEF OneHolder, Holders, TypeOK, users, Close, CloseWakes, Plock, Awakened, At, Leave
  <1>3. Bounded'
    BY DEF Bounded, TypeOK, users, Close, CloseWakes, Plock, Awakened, At, Leave
  <1>4. CountsSides'
    <2>1. CASE pc[p] = "rclose"
      <3>1. rf = {p} /\ rf' = {} /\ wf' = wf /\ icount' = icount - 1 /\ updating' = updating
        BY <2>1 DEF Close, Plock, At, Places
      <3> QED  BY <1>0, <3>1 DEF CountsSides
    <2>2. CASE pc[p] = "wclose"
      <3>1. wf = {p} /\ wf' = {} /\ rf' = rf /\ icount' = icount - 1 /\ updating' = updating
        BY <2>2 DEF Close, Plock, At, Places
      <3> QED  BY <1>0, <3>1 DEF CountsSides
    <2> QED  BY <2>1, <2>2 DEF Close, Plock, At
  <1>5. NoLostWakeup'
    BY DEF NoLostWakeup, Full, TypeOK, users, Close, CloseWakes, Plock, Awakened, At, Leave
  <1>6. Places'
    <2>1. /\ p \in Proc /\ pc' = [pc EXCEPT ![p] = "idle"]
          /\ chan' = [q \in Proc |-> IF chan[q] \in {"room", "data"} THEN "none" ELSE chan[q]]
          /\ chan[p] = "none"
      BY DEF Close, Leave, Awakened, CloseWakes, Plock, At
    <2>2. \A q \in Proc : q # p =>
              /\ pc'[q] = pc[q] /\ pc[q] \notin {"readi", "writei"}
              /\ pc[q] \in ReadPlace => q \in rf'
              /\ pc[q] \in WritePlace => q \in wf'
              /\ pc[q] = "rclose" => rf' = {q}
              /\ pc[q] = "wclose" => wf' = {q}
      <3>1. CASE pc[p] = "rclose"
        <4>1. rf = {p} /\ rf' = {} /\ wf' = wf
          BY <3>1 DEF Close, Plock, At, Places
        <4>2. \A q \in Proc : q # p => /\ q \notin rf /\ rf # {q}
                                       /\ pc'[q] = pc[q] /\ pc[q] \notin {"readi", "writei"}
          BY <1>0, <2>1, <4>1 DEF TypeOK
        <4>3. \A q \in Proc : q # p => pc[q] \notin ReadPlace /\ pc[q] # "rclose"
          BY <4>2 DEF Places
        <4> QED  BY <4>1, <4>2, <4>3 DEF Places
      <3>2. CASE pc[p] = "wclose"
        <4>1. wf = {p} /\ wf' = {} /\ rf' = rf
          BY <3>2 DEF Close, Plock, At, Places
        <4> QED  BY <1>0, <2>1, <4>1 DEF Places, TypeOK
      <3> QED  BY <3>1, <3>2 DEF Close, Plock, At
    <2>3. \A q \in Proc : q # p => chan'[q] \notin {"room", "data"}
                       /\ (chan'[q] = "lock" => pc'[q] \in {"read", "write", "rclose", "wclose"})
      BY <2>1, <2>2 DEF Places, TypeOK
    <2>4. pc'[p] = "idle" /\ chan'[p] = "none"
      BY <2>1 DEF TypeOK
    <2> QED  BY <2>2, <2>3, <2>4 DEF Places, ReadPlace, WritePlace
  <1> QED  BY <1>1, <1>2, <1>3, <1>4, <1>5, <1>6

LEMMA UpdateStartIInv == ASSUME IInv, UpdateStart PROVE IInv'
  <1> USE PipeAssumption DEF IInv
  <1>0. icount \in 0..2
    BY LockFree DEF UpdateStart, Updatable
  <1>1. TypeOK'
    BY <1>0 DEF TypeOK, Place, ReadPlace, WritePlace, users, UpdateStart, Updatable
  <1>2. OneHolder'
    BY DEF OneHolder, Holders, TypeOK, users, UpdateStart, Updatable
  <1>3. Bounded'
    BY DEF Bounded, TypeOK, users, UpdateStart, Updatable
  <1>4. CountsSides'
    BY DEF CountsSides, TypeOK, users, UpdateStart, Updatable
  <1>5. NoLostWakeup'
    BY DEF NoLostWakeup, Full, TypeOK, users, UpdateStart, Updatable
  <1>6. Places'
    BY DEF Places, ReadPlace, WritePlace, Full, TypeOK, users, UpdateStart, Updatable
  <1> QED  BY <1>1, <1>2, <1>3, <1>4, <1>5, <1>6

LEMMA UpdateEndIInv == ASSUME IInv, UpdateEnd PROVE IInv'
  <1> USE PipeAssumption DEF IInv
  <1>0. icount \in 1..3
    BY DEF UpdateEnd, CountsSides, TypeOK
  <1>1. TypeOK'
    <2>1. icount' = icount - 1 /\ updating' = FALSE /\ iflag' = iflag \ {"LOCK", "WANT"}
      BY DEF UpdateEnd, Unlocked
    <2>3. icount' \in 0..3
      BY <1>0, <2>1
    <2>4. updating' \in BOOLEAN /\ iflag' \subseteq {"LOCK", "WANT"}
      BY <2>1 DEF TypeOK
    <2>2. chan' \in [Proc -> {"none", "lock", "room", "data"}]
      BY DEF TypeOK, UpdateEnd, Awakened
    <2> QED  BY <2>2, <2>3, <2>4 DEF TypeOK, UpdateEnd, users
  <1>2. OneHolder'
    BY DEF OneHolder, Holders, TypeOK, users, UpdateEnd, Unlocked, LockWaiters, Awakened
  <1>3. Bounded'
    BY DEF Bounded, TypeOK, users, UpdateEnd, Unlocked, LockWaiters, Awakened
  <1>4. CountsSides'
    BY DEF CountsSides, TypeOK, users, UpdateEnd, Unlocked, LockWaiters, Awakened
  <1>5. NoLostWakeup'
    BY DEF NoLostWakeup, Full, TypeOK, users, UpdateEnd, Unlocked, LockWaiters, Awakened
  <1>6. Places'
    BY DEF Places, ReadPlace, WritePlace, Full, TypeOK, users, UpdateEnd, Unlocked, LockWaiters, Awakened
  <1> QED  BY <1>1, <1>2, <1>3, <1>4, <1>5, <1>6

-----------------------------------------------------------------------------
\* A step that changes nothing keeps the invariant.
LEMMA StutterIInv == ASSUME IInv, UNCHANGED vars PROVE IInv'
  <1> USE DEF IInv, vars, users
  <1>1. TypeOK'
    BY DEF TypeOK
  <1>2. OneHolder' /\ Bounded' /\ CountsSides'
    BY DEF OneHolder, Holders, Bounded, CountsSides
  <1>3. NoLostWakeup' /\ Places'
    BY DEF NoLostWakeup, Full, Places
  <1> QED  BY <1>1, <1>2, <1>3

LEMMA NextIInv == ASSUME IInv, [Next]_vars PROVE IInv'
  <1>1. CASE UpdateStart
    BY <1>1, UpdateStartIInv
  <1>2. CASE UpdateEnd
    BY <1>2, UpdateEndIInv
  <1>3. ASSUME NEW p \in Proc, WaitLock(p) \/ MakePipe(p) \/ Interrupted(p) PROVE IInv'
    BY <1>3, WaitLockIInv, MakePipeIInv, InterruptedIInv
  <1>4. ASSUME NEW p \in Proc, Advance(p) PROVE IInv'
    BY <1>4, ReadEofIInv, ReadSleepIInv, ReadStartIInv, ReadEndIInv, WriteDoneIInv,
       WriteBrokenIInv, WriteSleepIInv, WriteStartIInv, WriteEndIInv, CloseIInv DEF Advance
  <1>5. ASSUME NEW p \in Proc, Read(p) \/ Write(p) \/ CloseShared(p) \/ CloseLast(p) PROVE IInv'
    BY <1>5, ReadIInv, WriteIInv, CloseSharedIInv, CloseLastIInv
  <1>6. ASSUME NEW p \in Proc, NEW q \in Proc, Fork(p, q) PROVE IInv'
    BY <1>6, ForkIInv
  <1>7. CASE UNCHANGED vars
    BY <1>7, StutterIInv
  <1> QED  BY <1>1, <1>2, <1>3, <1>4, <1>5, <1>6, <1>7 DEF Next

\* The inductive invariant holds of every behaviour.
THEOREM Invariance == Spec => []IInv
  <1>1. Init => IInv
    BY InitIInv
  <1>2. IInv /\ [Next]_vars => IInv'
    BY NextIInv
  <1> QED  BY <1>1, <1>2, PTL DEF Spec

\* The variables have their types.
THEOREM TypeCorrect == Spec => []TypeOK
  <1>1. IInv => TypeOK
    BY DEF IInv
  <1> QED  BY Invariance, <1>1, PTL

\* The inode's lock excludes readi, writei and update from one another, for
\* any number of processes: prele never frees another's lock.
THEOREM LockCorrect == Spec => []OneHolder
  <1>1. IInv => OneHolder
    BY DEF IInv
  <1> QED  BY Invariance, <1>1, PTL

\* Whatever the sizes of the writes, the file stays below 2 * PIPSIZ bytes
\* and the read offset inside it.
THEOREM SizeBounded == Spec => []Bounded
  <1>1. IInv => Bounded
    BY DEF IInv
  <1> QED  BY Invariance, <1>1, PTL

\* i_count tells how many sides are open, also while update adds its own.
THEOREM CountCorrect == Spec => []CountsSides
  <1>1. IInv => CountsSides
    BY DEF IInv
  <1> QED  BY Invariance, <1>1, PTL

\* Nobody sleeps on an event that has already happened.
THEOREM SleepersHaveReason == Spec => []NoLostWakeup
  <1>1. IInv => NoLostWakeup
    BY DEF IInv
  <1> QED  BY Invariance, <1>1, PTL

-----------------------------------------------------------------------------
\* A read that returns 0 has found no writer, and a write that fails with
\* EPIPE no reader: update's extra count never hides an open side, since
\* the test is made only with the lock free.
THEOREM EndsAreTrue == Spec => ToldTheTruth
  <1> DEFINE Told(p) ==
        /\ pc[p] = "read" /\ pc'[p] = "idle" /\ chan[p] = "none" => wf = {}
        /\ pc[p] = "write" /\ pc'[p] = "idle" /\ chan[p] = "none" /\ count[p] # 0 => rf = {}
  <1>1. ASSUME IInv, [Next]_vars, NEW p \in Proc PROVE Told(p)
    <2> USE <1>1 DEF IInv
    <2>1. CASE ReadEof(p)
      <3>1. p \in rf /\ pc[p] = "read"
        BY <2>1 DEF ReadEof, Plock, At, Places, ReadPlace
      <3> QED  BY <2>1, <3>1, LockFree DEF ReadEof, Plock, Broken
    <2>2. CASE WriteBroken(p)
      <3>1. p \in wf /\ pc[p] = "write"
        BY <2>2 DEF WriteBroken, Plock, At, Places, WritePlace
      <3> QED  BY <2>2, <3>1, LockFree DEF WriteBroken, Plock, Broken
    <2>3. CASE WriteDone(p)
      BY <2>3 DEF WriteDone, Plock, At
    <2>4. CASE Interrupted(p)
      BY <2>4 DEF Interrupted
    <2>5. CASE Advance(p) /\ ~ ReadEof(p) /\ ~ WriteBroken(p) /\ ~ WriteDone(p)
      BY <2>5 DEF Advance, ReadSleep, ReadStart, ReadEnd, WriteSleep, WriteStart, WriteEnd,
         Close, Plock, At, Leave, TypeOK
    <2>6. CASE Read(p) \/ Write(p) \/ CloseLast(p)
      BY <2>6 DEF Read, Write, CloseLast, At
    <2>7. CASE \E q \in Proc : q # p /\ (Advance(q) \/ Interrupted(q) \/ Read(q) \/ Write(q) \/ CloseLast(q))
      <3> PICK q \in Proc : q # p /\ (Advance(q) \/ Interrupted(q) \/ Read(q) \/ Write(q) \/ CloseLast(q))
        BY <2>7
      <3>1. pc'[p] = pc[p]
        BY DEF Advance, Interrupted, Read, Write, CloseLast, ReadEof, ReadSleep, ReadStart, ReadEnd,
           WriteDone, WriteBroken, WriteSleep, WriteStart, WriteEnd, Close, Leave, TypeOK
      <3> QED  BY <3>1
    <2>8. CASE \/ UpdateStart \/ UpdateEnd \/ UNCHANGED vars
               \/ \E q \in Proc : WaitLock(q) \/ MakePipe(q) \/ CloseShared(q)
               \/ \E q, r \in Proc : Fork(q, r)
      BY <2>8 DEF UpdateStart, UpdateEnd, vars, WaitLock, MakePipe, CloseShared, Fork
    <2> QED  BY <1>1, <2>1, <2>2, <2>3, <2>4, <2>5, <2>6, <2>7, <2>8 DEF Next
  <1>2. IInv /\ [Next]_vars => [\A p \in Proc : Told(p)]_vars
    BY <1>1
  <1> QED  BY <1>2, Invariance, PTL DEF Spec, ToldTheTruth

-----------------------------------------------------------------------------
(* A pipe implements PipeStream: the stream is what the file holds from   *)
(* the read offset on, as long as there is a read side.                    *)

\* The bytes of s from the o-th on: how many they are and which.
LEMMA RestOf ==
    ASSUME NEW s \in Seq(Proc), NEW o \in Nat, o <= Len(s)
    PROVE  LET t == SubSeq(s, o + 1, Len(s))
           IN  /\ t \in Seq(Proc) /\ Len(t) = Len(s) - o
               /\ \A i \in 1 .. Len(s) - o : t[i] = s[o + i]
  <1>1. SubSeq(s, o + 1, Len(s)) = [i \in 1 .. Len(s) - o |-> s[o + i]]
    <2>1. Len(s) \in Nat
      OBVIOUS
    <2>2. /\ 1 .. (Len(s) + 1 - (o + 1)) = 1 .. Len(s) - o
          /\ \A i \in 1 .. Len(s) - o : i + (o + 1) - 1 = o + i
      BY <2>1
    <2> QED  BY <2>1, <2>2
  <1>2. \A i \in 1 .. Len(s) - o : s[o + i] \in Proc
    OBVIOUS
  <1>3. Len(s) - o \in Nat
    OBVIOUS
  <1> DEFINE t == [i \in 1 .. Len(s) - o |-> s[o + i]]
  <1>4. t \in Seq(Proc) /\ Len(t) = Len(s) - o /\ \A i \in 1 .. Len(s) - o : t[i] = s[o + i]
    BY <1>2, <1>3
  <1> QED  BY <1>1, <1>4

\* Reading k bytes moves the offset by k: what is left is the rest of the
\* stream.
LEMMA ReadMoves ==
    ASSUME NEW s \in Seq(Proc), NEW o \in Nat, NEW k \in Nat, o + k <= Len(s)
    PROVE  SubSeq(s, o + k + 1, Len(s))
             = SubSeq(SubSeq(s, o + 1, Len(s)), k + 1, Len(SubSeq(s, o + 1, Len(s))))
  <1> DEFINE t == SubSeq(s, o + 1, Len(s))
             u == SubSeq(s, (o + k) + 1, Len(s))
             v == SubSeq(t, k + 1, Len(t))
  <1>0. Len(s) \in Nat /\ o + k \in Nat /\ o <= Len(s)
    OBVIOUS
  <1>1. t \in Seq(Proc) /\ Len(t) = Len(s) - o /\ \A i \in 1 .. Len(s) - o : t[i] = s[o + i]
    BY <1>0, RestOf
  <1>2. u \in Seq(Proc) /\ Len(u) = Len(s) - (o + k)
        /\ \A i \in 1 .. Len(s) - (o + k) : u[i] = s[(o + k) + i]
    BY <1>0, RestOf
  <1>3. v \in Seq(Proc) /\ Len(v) = Len(t) - k /\ \A i \in 1 .. Len(t) - k : v[i] = t[k + i]
    <2> HIDE DEF t
    <2>1. k <= Len(t)
      BY <1>0, <1>1
    <2> QED  BY <1>1, <2>1, RestOf
  <1> HIDE DEF t, u, v
  <1>4. Len(u) = Len(v)
    BY <1>0, <1>1, <1>2, <1>3
  <1>5. ASSUME NEW i \in 1 .. Len(u) PROVE u[i] = v[i]
    <2>1. u[i] = s[(o + k) + i] /\ v[i] = t[k + i] /\ t[k + i] = s[o + (k + i)]
      <3>1. i \in 1 .. Len(s) - (o + k) /\ i \in 1 .. Len(t) - k /\ k + i \in 1 .. Len(s) - o
        BY <1>0, <1>1, <1>2
      <3> QED  BY <3>1, <1>1, <1>2, <1>3
    <2>2. (o + k) + i = o + (k + i)
      BY <1>2
    <2> QED  BY <2>1, <2>2
  <1>6. u = v
    BY <1>2, <1>3, <1>4, <1>5, SeqEqual
  <1>7. o + k + 1 = (o + k) + 1
    OBVIOUS
  <1> QED  BY <1>6, <1>7 DEF t, u, v

\* Appending to the file appends to what is unread.
LEMMA AppendMoves ==
    ASSUME NEW s \in Seq(Proc), NEW w \in Seq(Proc), NEW o \in Nat, o <= Len(s)
    PROVE  SubSeq(s \o w, o + 1, Len(s \o w)) = SubSeq(s, o + 1, Len(s)) \o w
  <1> DEFINE c == s \o w
             t == SubSeq(s, o + 1, Len(s))
             u == SubSeq(c, o + 1, Len(c))
             v == t \o w
  <1>0. Len(s) \in Nat /\ Len(w) \in Nat
    OBVIOUS
  <1>1. /\ c \in Seq(Proc) /\ Len(c) = Len(s) + Len(w)
        /\ \A i \in 1 .. Len(s) + Len(w) : c[i] = IF i <= Len(s) THEN s[i] ELSE w[i - Len(s)]
    BY ConcatProperties
  <1>2. t \in Seq(Proc) /\ Len(t) = Len(s) - o /\ \A i \in 1 .. Len(s) - o : t[i] = s[o + i]
    BY RestOf
  <1> HIDE DEF c, t
  <1>3. u \in Seq(Proc) /\ Len(u) = Len(c) - o /\ \A i \in 1 .. Len(c) - o : u[i] = c[o + i]
    <2>1. o <= Len(c)
      BY <1>0, <1>1
    <2> QED  BY <1>1, <2>1, RestOf
  <1>4. /\ v \in Seq(Proc) /\ Len(v) = Len(t) + Len(w)
        /\ \A i \in 1 .. Len(t) + Len(w) : v[i] = IF i <= Len(t) THEN t[i] ELSE w[i - Len(t)]
    BY <1>2, ConcatProperties
  <1> HIDE DEF u, v
  <1>5. Len(u) = Len(v)
    BY <1>0, <1>1, <1>2, <1>3, <1>4
  <1>6. ASSUME NEW i \in 1 .. Len(u) PROVE u[i] = v[i]
    <2>1. /\ i \in 1 .. Len(c) - o /\ i \in 1 .. Len(t) + Len(w)
          /\ o + i \in 1 .. Len(s) + Len(w)
      BY <1>0, <1>1, <1>2, <1>3, <1>5
    <2>2. u[i] = IF o + i <= Len(s) THEN s[o + i] ELSE w[(o + i) - Len(s)]
      BY <2>1, <1>1, <1>3
    <2>3. v[i] = IF i <= Len(t) THEN t[i] ELSE w[i - Len(t)]
      BY <2>1, <1>4
    <2>4. /\ (o + i <= Len(s)) <=> (i <= Len(t))
          /\ (o + i) - Len(s) = i - Len(t)
          /\ i <= Len(t) => i \in 1 .. Len(s) - o
      BY <1>0, <1>2, <2>1
    <2> QED  BY <2>2, <2>3, <2>4, <1>2
  <1>7. u = v
    BY <1>3, <1>4, <1>5, <1>6, SeqEqual
  <1> QED  BY <1>7 DEF c, t, u, v

\* A step that leaves the file and the offset alone, and closes or opens no
\* side, does not touch the stream.
LEMMA Quiet ==
    ASSUME file' = file, offset' = offset,
           (rf' = {}) <=> (rf = {}), (wf' = {}) <=> (wf = {})
    PROVE  UNCHANGED Stream!vars
  <1>1. (rf' # {}) = (rf # {}) /\ (wf' # {}) = (wf # {})
    OBVIOUS
  <1>2. (IF rf = {} THEN <<>> ELSE SubSeq(file, offset + 1, Len(file)))'
          = IF rf = {} THEN <<>> ELSE SubSeq(file, offset + 1, Len(file))
    BY Zenon
  <1> QED  BY <1>1, <1>2 DEF Stream!vars

\* A process in a call on the file has the side open; the offset is in the
\* file.
LEMMA SideIsOpen ==
    ASSUME IInv, NEW p \in Proc
    PROVE  /\ pc[p] = "readi" => rf # {} /\ offset < Len(file)
           /\ pc[p] = "writei" => wf # {} /\ count[p] \in Nat
           /\ file \in Seq(Proc) /\ offset \in Nat /\ Len(file) \in Nat
           /\ offset <= Len(file)
  <1>1. file \in Seq(Proc) /\ offset \in Nat /\ Len(file) \in Nat /\ count[p] \in Nat
    BY PipeAssumption DEF IInv, TypeOK
  <1>2. offset <= Len(file)
    BY <1>1 DEF IInv, Bounded
  <1>3. pc[p] = "readi" => rf # {} /\ file # <<>>
    BY DEF IInv, Places, ReadPlace
  <1>4. pc[p] = "writei" => wf # {}
    BY DEF IInv, Places, WritePlace
  <1>5. pc[p] = "readi" => offset < Len(file)
    BY <1>1, <1>3 DEF IInv, Bounded
  <1> QED  BY <1>1, <1>2, <1>3, <1>4, <1>5

\* The end of readp takes the bytes that were read from the stream.
LEMMA ReadEndReads ==
    ASSUME IInv, NEW p \in Proc, ReadEnd(p)
    PROVE  [Stream!Next]_(Stream!vars)
  <1>0. PICK k \in 0 .. Smaller(count[p], Len(file) - offset) :
          /\ file' = IF offset + k = Len(file) THEN <<>> ELSE file
          /\ offset' = IF offset + k = Len(file) THEN 0 ELSE offset + k
    BY DEF ReadEnd
  <1> DEFINE s == SubSeq(file, offset + 1, Len(file))
  <1>1. /\ file \in Seq(Proc) /\ offset \in Nat /\ Len(file) \in Nat
        /\ offset < Len(file) /\ rf # {}
    BY SideIsOpen DEF ReadEnd, At
  <1>2. k \in Nat /\ k <= Len(file) - offset /\ offset + k \in Nat
    <2>1. count[p] \in Nat
      BY PipeAssumption DEF IInv, TypeOK
    <2> QED  BY <1>1, <2>1 DEF Smaller
  <1>3. /\ file' = IF offset + k = Len(file) THEN <<>> ELSE file
        /\ offset' = IF offset + k = Len(file) THEN 0 ELSE offset + k
        /\ rf' = rf /\ wf' = wf
    BY <1>0 DEF ReadEnd, users
  <1>4. s \in Seq(Proc) /\ Len(s) = Len(file) - offset
    BY <1>1, RestOf
  <1>5. SubSeq(file', offset' + 1, Len(file')) = SubSeq(s, k + 1, Len(s))
    <2>1. CASE offset + k = Len(file)
      <3>1. SubSeq(file', offset' + 1, Len(file')) = <<>>
        <4>1. file' = <<>> /\ offset' = 0
          BY <1>3, <2>1
        <4>2. Len(file') = 0 /\ offset' + 1 = 1
          BY <4>1
        <4> QED  BY <4>1, <4>2, SubSeqEmpty
      <3>2. SubSeq(s, k + 1, Len(s)) = <<>>
        <4> HIDE DEF s
        <4>1. k + 1 \in Int /\ Len(s) \in Int /\ Len(s) < k + 1
          BY <1>1, <1>2, <1>4, <2>1
        <4> QED  BY <4>1, SubSeqEmpty
      <3> QED  BY <3>1, <3>2
    <2>2. CASE offset + k # Len(file)
      <3>1. file' = file /\ offset' = offset + k /\ offset + k <= Len(file)
        BY <1>1, <1>2, <1>3, <2>2
      <3> QED  BY <3>1, <1>1, <1>2, ReadMoves
    <2> QED  BY <2>1, <2>2
  <1> HIDE DEF s
  <1>6. CASE k = 0
    <2>1. file' = file /\ offset' = offset
      BY <1>1, <1>2, <1>3, <1>6
    <2> QED  BY <2>1, <1>3, Quiet
  <1>7. CASE k # 0
    <2>1. k \in 1 .. Len(s) /\ k <= Len(s)
      BY <1>1, <1>2, <1>4, <1>7
    <2>2. Stream!Read(k)
      BY <1>1, <1>3, <1>5, <2>1 DEF Stream!Read, s
    <2>3. \E n \in 1 .. Len(IF rf = {} THEN <<>> ELSE s) : Stream!Read(n)
      BY <1>1, <2>1, <2>2
    <2> QED  BY <2>3 DEF Stream!Next, s
  <1> QED  BY <1>6, <1>7

\* writei puts its bytes at the end of the stream, at most PIPSIZ at a time,
\* unless the reader has gone while it slept: then nobody will see them.
LEMMA WriteEndWrites ==
    ASSUME IInv, NEW p \in Proc, WriteEnd(p)
    PROVE  [Stream!Next]_(Stream!vars)
  <1>0. PICK n \in 0 .. Smaller(count[p], PIPSIZ) :
          file' = file \o [i \in 1 .. n |-> p]
    BY DEF WriteEnd, Appended
  <1> DEFINE w == [i \in 1 .. n |-> p]
             s == SubSeq(file, offset + 1, Len(file))
  <1>1. /\ file \in Seq(Proc) /\ offset \in Nat /\ Len(file) \in Nat
        /\ offset <= Len(file) /\ wf # {} /\ count[p] \in Nat
    BY SideIsOpen DEF WriteEnd, At
  <1>2. n \in Nat /\ n <= PIPSIZ
    BY <1>1, PipeAssumption DEF Smaller
  <1>3. file' = file \o w /\ offset' = offset /\ rf' = rf /\ wf' = wf
    BY <1>0 DEF WriteEnd, users
  <1>4. w \in Seq(Proc) /\ Len(w) = n
    BY <1>2
  <1>5. SubSeq(file', offset' + 1, Len(file')) = s \o w
    <2> HIDE DEF w
    <2> QED  BY <1>1, <1>3, <1>4, AppendMoves
  <1>6. CASE rf = {}
    <2>1. (IF rf = {} THEN <<>> ELSE s)' = IF rf = {} THEN <<>> ELSE s
      BY <1>3, <1>6
    <2> QED  BY <2>1, <1>3 DEF Stream!vars, s
  <1>7. CASE n = 0
    <2>1. w = <<>>
      BY <1>7, <1>2
    <2>2. file' = file
      <3> HIDE DEF w
      <3> QED  BY <1>1, <1>3, <2>1, ConcatEmptySeq
    <2> QED  BY <2>2, <1>3, Quiet
  <1>8. CASE rf # {} /\ n # 0
    <2>1. Stream!Write(p, n)
      BY <1>1, <1>3, <1>5, <1>8 DEF Stream!Write, s
    <2>2. n \in 1 .. PIPSIZ
      BY <1>2, <1>8, PipeAssumption
    <2> QED  BY <2>1, <2>2 DEF Stream!Next
  <1> QED  BY <1>6, <1>7, <1>8

\* The last close of a side closes it in the stream; what was not read goes
\* with the readers.
LEMMA CloseCloses ==
    ASSUME IInv, NEW p \in Proc, Close(p)
    PROVE  [Stream!Next]_(Stream!vars)
  <1>1. /\ pc[p] = "rclose" => rf = {p}
        /\ pc[p] = "wclose" => wf = {p}
    BY DEF IInv, Places
  <1>2. icount = (IF rf = {} THEN 0 ELSE 1) + (IF wf = {} THEN 0 ELSE 1)
    BY LockFree DEF Close, Plock
  <1>3. CASE pc[p] = "rclose"
    <2>1. rf # {} /\ rf' = {} /\ wf' = wf
      BY <1>1, <1>3 DEF Close, Plock, At
    <2>2. Stream!CloseRead
      BY <2>1 DEF Stream!CloseRead
    <2> QED  BY <2>2 DEF Stream!Next
  <1>4. CASE pc[p] = "wclose"
    <2>1. /\ wf # {} /\ wf' = {} /\ rf' = rf
          /\ file' = IF icount = 1 THEN <<>> ELSE file
          /\ offset' = IF icount = 1 THEN 0 ELSE offset
      BY <1>1, <1>4 DEF Close, Plock, At
    <2>2. rf # {} => file' = file /\ offset' = offset
      BY <1>2, <2>1
    <2>3. (IF rf = {} THEN <<>> ELSE SubSeq(file, offset + 1, Len(file)))'
            = IF rf = {} THEN <<>> ELSE SubSeq(file, offset + 1, Len(file))
      <3>1. CASE rf = {}
        BY <2>1, <3>1
      <3>2. CASE rf # {}
        BY <2>1, <2>2, <3>2
      <3> QED  BY <3>1, <3>2
    <2>4. Stream!CloseWrite
      BY <2>1, <2>3 DEF Stream!CloseWrite
    <2> QED  BY <2>4 DEF Stream!Next
  <1> QED  BY <1>3, <1>4 DEF Close, Plock, At

\* pipe makes a new stream, once nothing is left of the last one.
LEMMA MakePipeMakes ==
    ASSUME IInv, NEW p \in Proc, MakePipe(p)
    PROVE  [Stream!Next]_(Stream!vars)
  <1>1. rf = {} /\ wf = {}
    BY Nobody DEF MakePipe
  <1>2. rf' # {} /\ wf' # {} /\ file' = <<>> /\ offset' = 0
    BY DEF MakePipe
  <1>3. SubSeq(file', offset' + 1, Len(file')) = <<>>
    <2>1. Len(file') = 0 /\ offset' + 1 = 1
      BY <1>2
    <2> QED  BY <1>2, <2>1, SubSeqEmpty
  <1>4. Stream!Pipe
    BY <1>1, <1>2, <1>3 DEF Stream!Pipe
  <1> QED  BY <1>4 DEF Stream!Next

\* Everything else a process does leaves the stream alone.
LEMMA OthersAreQuiet ==
    ASSUME NEW p \in Proc,
           \/ WaitLock(p) \/ Read(p) \/ ReadEof(p) \/ ReadSleep(p) \/ ReadStart(p)
           \/ Write(p) \/ WriteDone(p) \/ WriteBroken(p) \/ WriteSleep(p) \/ WriteStart(p)
           \/ Interrupted(p) \/ CloseLast(p) \/ CloseShared(p)
           \/ (\E q \in Proc : Fork(p, q))
    PROVE  UNCHANGED Stream!vars
  <1>1. CASE CloseShared(p)
    <2>1. file' = file /\ offset' = offset
      BY <1>1 DEF CloseShared
    <2>2. ((rf' = {}) <=> (rf = {})) /\ ((wf' = {}) <=> (wf = {}))
      BY <1>1 DEF CloseShared
    <2> QED  BY <2>1, <2>2, Quiet
  <1>2. CASE \E q \in Proc : Fork(p, q)
    <2>1. file' = file /\ offset' = offset
      BY <1>2 DEF Fork
    <2>2. ((rf' = {}) <=> (rf = {})) /\ ((wf' = {}) <=> (wf = {}))
      BY <1>2 DEF Fork
    <2> QED  BY <2>1, <2>2, Quiet
  <1>3. CASE \/ WaitLock(p) \/ Read(p) \/ ReadEof(p) \/ ReadSleep(p) \/ ReadStart(p)
             \/ Write(p) \/ WriteDone(p) \/ WriteBroken(p) \/ WriteSleep(p)
             \/ WriteStart(p) \/ Interrupted(p) \/ CloseLast(p)
    <2>1. file' = file /\ offset' = offset /\ rf' = rf /\ wf' = wf
      BY <1>3 DEF WaitLock, Read, ReadEof, ReadSleep, ReadStart, Write, WriteDone, WriteBroken,
         WriteSleep, WriteStart, Interrupted, CloseLast, users
    <2> QED  BY <2>1, Quiet
  <1> QED  BY <1>1, <1>2, <1>3

\* A pipe just made is an empty stream with both sides open.
LEMMA StreamInit == Init => Stream!Init
  <1> SUFFICES ASSUME Init PROVE Stream!Init
    OBVIOUS
  <1>1. rf # {} /\ wf # {} /\ file = <<>> /\ offset = 0
    BY DEF Init
  <1>2. SubSeq(file, offset + 1, Len(file)) = <<>>
    <2>1. Len(file) = 0 /\ offset + 1 = 1
      BY <1>1
    <2> QED  BY <1>1, <2>1, SubSeqEmpty
  <1> QED  BY <1>1, <1>2 DEF Stream!Init

\* Every step of the pipe is a step of the stream or none.
LEMMA StreamStep == ASSUME IInv, [Next]_vars PROVE [Stream!Next]_(Stream!vars)
  <1>1. ASSUME UpdateStart \/ UpdateEnd \/ UNCHANGED vars PROVE UNCHANGED Stream!vars
    <2>1. file' = file /\ offset' = offset /\ rf' = rf /\ wf' = wf
      BY <1>1 DEF UpdateStart, UpdateEnd, vars, users
    <2> QED  BY <2>1, Quiet
  <1>2. ASSUME NEW p \in Proc, Advance(p) PROVE [Stream!Next]_(Stream!vars)
    BY <1>2, ReadEndReads, WriteEndWrites, CloseCloses, OthersAreQuiet DEF Advance
  <1>3. ASSUME NEW p \in Proc,
               \/ WaitLock(p) \/ MakePipe(p) \/ Read(p) \/ Write(p)
               \/ Interrupted(p) \/ CloseShared(p) \/ CloseLast(p)
               \/ (\E q \in Proc : Fork(p, q))
        PROVE  [Stream!Next]_(Stream!vars)
    BY <1>3, MakePipeMakes, OthersAreQuiet
  <1> QED  BY <1>1, <1>2, <1>3 DEF Next

\* A pipe is a stream, whatever PIPSIZ, the sizes of the reads and writes and
\* the number of processes that share it: no byte is lost, doubled or out of
\* its place, and a write of at most PIPSIZ bytes is not mixed with another.
THEOREM PipeImplementsStream == Spec => ImplementsStream
  <1>1. IInv /\ [Next]_vars => [Stream!Next]_(Stream!vars)
    BY StreamStep
  <1> QED  BY StreamInit, <1>1, Invariance, PTL DEF Spec, ImplementsStream, Stream!Spec

=============================================================================
