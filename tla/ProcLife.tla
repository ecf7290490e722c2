------------------------------ MODULE ProcLife ------------------------------
(***************************************************************************)
(* The life of processes: newproc of slp.c, exit and wait of sys1.c, and   *)
(* the tracing of one process by its parent, stop, ptrace and procxmt of   *)
(* sig.c.                                                                  *)
(*                                                                         *)
(* Processes are slots of proc[]; slot 1 is init, and the scheduler, which *)
(* is in slot 0, is left out.  In the kernel a process runs till it        *)
(* sleeps, stops or returns to its program; signals come at any time.      *)
(***************************************************************************)
EXTENDS Integers, FiniteSetsExt

CONSTANTS
    Systems   \* the systems looked at: the slots of proc[], that of the
              \* scheduler excepted; the number that process numbers stay
              \* below; what programs do; the groups a terminal may have
              \* that have died out; and who runs at first, family[s]
              \* being the parent of slot s, 0 if the slot is free, and all
              \* but the children of init being traced

\* There are more numbers than processes and groups, so a new one is found.
ASSUME ProcAssumption ==
    \A y \in Systems :
      /\ y.nproc \in Nat \ {0} /\ y.maxpid \in Nat /\ y.maxpid > 2 * y.nproc + 1
      /\ y.calls \subseteq {"fork", "exit", "lead", "trace"}
      /\ y.old \subseteq 1 .. y.maxpid - 1
      /\ y.family \in [2 .. y.nproc -> 0 .. y.nproc]
      /\ \A s \in 2 .. y.nproc : y.family[s] > 1 => y.family[y.family[s]] # 0

VARIABLES
    system,   \* the one of Systems that this is
    stat,     \* p_stat, "free" for NULL
    pid,      \* p_pid
    ppid,     \* p_ppid
    pgrp,     \* p_pgrp
    sig,      \* p_sig # 0
    traced,   \* STRC of p_flag
    told,     \* SWTED of p_flag
    pc,       \* where the process is
    other,    \* the child that newproc or ptrace works on, 0 if none
    mpid,     \* the last process number given out
    revived,  \* groups in use again that had died out, history
    lock,     \* ip_lock of ipc
    req       \* ip_req of ipc: a request if > 0, "none" for 0, "error" for -1

ipc == <<lock, req>>
names == <<pid, ppid, pgrp, mpid, revived>>
flags == <<traced, told>>
vars == <<system, stat, names, sig, flags, pc, other, ipc>>

NPROC == system.nproc
MAXPID == system.maxpid    \* 30000
Calls == system.calls

Slot == 1 .. NPROC
Pid == 1 .. MAXPID - 1
Requests == {"look", "continue", "exit"}

\* The parent of s at first, and whether there is s.
Ancestor(s) == IF s = 1 THEN 0 ELSE system.family[s]
There(s) == s = 1 \/ Ancestor(s) # 0

\* After boot there is init; with more of a family, the forks that made it
\* are over, the numbers being those of the slots.
Init ==
    /\ system \in Systems
    /\ stat = [s \in Slot |-> IF There(s) THEN "run" ELSE "free"]
    /\ pid = [s \in Slot |-> IF There(s) THEN s ELSE 0]
    /\ ppid = [s \in Slot |-> Ancestor(s)] /\ pgrp = [s \in Slot |-> 0]
    /\ sig = [s \in Slot |-> FALSE] /\ traced = [s \in Slot |-> Ancestor(s) > 1]
    /\ told = [s \in Slot |-> FALSE] /\ pc = [s \in Slot |-> "user"]
    /\ other = [s \in Slot |-> 0] /\ lock = 0 /\ req = "none"
    /\ mpid = Max({s \in Slot : There(s)}) /\ revived = {}

At(p, place) == stat[p] = "run" /\ pc[p] = place
Set(f, x, v) == [f EXCEPT ![x] = v]

Children(p) == {q \in Slot : ppid[q] = pid[p]}

\* The first process with number n.
Slots(n) == {s \in Slot : pid[s] = n}

-----------------------------------------------------------------------------
\* wakeup.

\* The slots among S that wait for a child: wakeup(p) of each p in S.
Waiters(S) == {s \in S : stat[s] = "sleep" /\ pc[s] = "wait"}

\* wakeup of p's parent.
Parent(p) == IF Slots(ppid[p]) = {} THEN {} ELSE Waiters({Min(Slots(ppid[p]))})

\* Wrong ptrace and procxmt: nobody is woken.
NoTracer == {}

\* wakeup(&ipc).
Tracers == {s \in Slot : stat[s] = "sleep" /\ pc[s] \in {"ptraceLock", "ptrace"}}

\* Those in S run, p has the state st.
Changes(S, p, st) ==
    stat' = [s \in Slot |-> IF s = p THEN st ELSE IF s \in S THEN "run" ELSE stat[s]]

-----------------------------------------------------------------------------
\* fork.

\* mpid++, which begins anew at MAXPID; 0 is passed over.
Following(n) == IF n + 1 >= MAXPID THEN 1 ELSE n + 1

\* The numbers that newproc tries, going back to retry.
Tried[i \in 1 .. MAXPID - 1] == IF i = 1 THEN Following(mpid) ELSE Following(Tried[i - 1])

\* Wrong newproc: the groups are not looked at.
TakenByProcess(n) == \E s \in Slot : pid[s] = n

\* It finds number n in the table.
Taken(n) == \E s \in Slot : pid[s] = n \/ pgrp[s] = n

\* Where it stops trying.
Retries == CHOOSE i \in 1 .. MAXPID - 1 :
    ~ Taken(Tried[i]) /\ \A j \in 1 .. i - 1 : Taken(Tried[j])

NextPid == Tried[Retries]

\* The entry of the new process; p_sig is not touched.
NewEntry(p, q) ==
    /\ mpid' = NextPid /\ pid' = Set(pid, q, NextPid)
    /\ ppid' = Set(ppid, q, pid[p]) /\ pgrp' = Set(pgrp, q, pgrp[p]) /\ UNCHANGED revived
    /\ traced' = Set(traced, q, FALSE) /\ told' = Set(told, q, FALSE)

FreeSlots == {s \in Slot : stat[s] = "free"}

\* There is core for a copy, or the copy is made on the swap device, while
\* the parent is SIDL and the new process sleeps in its place.
Fork(p) ==
    /\ "fork" \in Calls /\ At(p, "user") /\ FreeSlots # {}
    /\ LET q == Min(FreeSlots)
       IN  /\ NewEntry(p, q)
           /\ \/ stat' = Set(stat, q, "run") /\ UNCHANGED <<pc, other>>
              \/ /\ stat' = [stat EXCEPT ![p] = "idl", ![q] = "sleep"]
                 /\ pc' = [pc EXCEPT ![p] = "newproc", ![q] = "newproc"]
                 /\ other' = Set(other, p, q)
    /\ UNCHANGED <<sig, ipc>>

ForkSwapped(p) ==
    /\ stat[p] = "idl"
    /\ stat' = [stat EXCEPT ![p] = "run", ![other[p]] = "run"]
    /\ pc' = [pc EXCEPT ![p] = "user", ![other[p]] = "user"]
    /\ other' = Set(other, p, 0)
    /\ UNCHANGED <<names, sig, flags, ipc>>

\* The processes of group g, and the groups of S that still have one.
Members(g) == {s \in Slot : pgrp[s] = g}
StillGroups(S) == {g \in S : \E s \in Slot : pgrp'[s] = g}

\* A process without a group opens its first terminal: it leads a group of
\* its own, or joins the one the terminal belongs to.  That one may have died
\* out, as t_pgrp is cleared only when nobody has the terminal open.
Lead(p) == \E g \in {pid[p]} \cup {pgrp[s] : s \in Slot} \cup system.old :
    /\ "lead" \in Calls /\ At(p, "user") /\ p # 1 /\ pgrp[p] = 0
    /\ g # 0 /\ pgrp' = Set(pgrp, p, g)
    /\ revived' = IF g = pid[p] \/ Members(g) # {} THEN revived ELSE revived \cup {g}
    /\ UNCHANGED <<stat, pid, ppid, mpid, sig, flags, pc, other, ipc>>

-----------------------------------------------------------------------------
\* exit.

\* Signals are ignored and tracing ends; the files are closed, which may
\* sleep, out of reach of signals.
BeginsExit(p) ==
    /\ pc' = Set(pc, p, "exit") /\ traced' = Set(traced, p, FALSE)

Exit(p) ==
    /\ "exit" \in Calls /\ At(p, "user") /\ p # 1 /\ BeginsExit(p)
    /\ UNCHANGED <<stat, names, sig, told, other, ipc>>

\* Wrong exit: init is not made the parent of the children.
Disowned(p) == {}

\* The children that init inherits.
Orphans(p) == Children(p)

\* Those of them that setrun sets running.
Stopped(p) == {q \in Orphans(p) : stat[q] = "stop"}

ExitEnds(p) ==
    /\ At(p, "exit")
    /\ ppid' = [q \in Slot |-> IF q \in Orphans(p) THEN 1 ELSE ppid[q]]
    /\ Changes(Stopped(p) \cup Parent(p)
                   \cup (IF Orphans(p) = {} THEN {} ELSE Waiters({1})), p, "zomb")
    /\ UNCHANGED <<pid, pgrp, mpid, revived, sig, flags, pc, other, ipc>>

-----------------------------------------------------------------------------
\* wait.

\* The children that wait has something to tell of.
News(p) == {q \in Children(p) : stat[q] = "zomb" \/ (stat[q] = "stop" /\ ~ told[q])}

InWait(p) == At(p, "user") \/ (At(p, "wait") /\ ~ sig[p])

NoSig(q) == Set(sig, q, FALSE)

\* A zombie is laid to rest.
WaitReaps(p) ==
    /\ InWait(p) /\ News(p) # {} /\ stat[Min(News(p))] = "zomb"
    /\ LET q == Min(News(p))
       IN  /\ stat' = Set(stat, q, "free") /\ pid' = Set(pid, q, 0)
           /\ ppid' = Set(ppid, q, 0) /\ pgrp' = Set(pgrp, q, 0) /\ sig' = NoSig(q)
           /\ traced' = Set(traced, q, FALSE) /\ told' = Set(told, q, FALSE)
           /\ pc' = [pc EXCEPT ![p] = "user", ![q] = "user"]
    /\ revived' = StillGroups(revived)
    /\ UNCHANGED <<mpid, other, ipc>>

WaitTells(p) ==
    /\ InWait(p) /\ News(p) # {} /\ stat[Min(News(p))] = "stop"
    /\ told' = Set(told, Min(News(p)), TRUE) /\ pc' = Set(pc, p, "user")
    /\ UNCHANGED <<stat, names, sig, traced, other, ipc>>

\* There are children, or there were when wait began: it sleeps.
WaitSleeps(p) ==
    /\ InWait(p) /\ ~ sig[p] /\ News(p) = {}
    /\ Children(p) # {} \/ pc[p] = "wait"
    /\ stat' = Set(stat, p, "sleep") /\ pc' = Set(pc, p, "wait")
    /\ UNCHANGED <<names, sig, flags, other, ipc>>

\* A signal ends the sleep.
WaitAborts(p) ==
    /\ At(p, "wait") /\ sig[p] /\ pc' = Set(pc, p, "user")
    /\ UNCHANGED <<stat, names, sig, flags, other, ipc>>

-----------------------------------------------------------------------------
\* Signals.

\* psignal: from kill, the terminal or the clock.  Init ignores all.
Signal(s) ==
    /\ s # 1 /\ stat[s] # "free" /\ ~ sig[s]
    /\ sig' = Set(sig, s, TRUE)
    /\ stat' = IF s \in Waiters(Slot) THEN Set(stat, s, "run") ELSE stat
    /\ UNCHANGED <<names, flags, pc, other, ipc>>

\* issig and psig of a process that is not traced: the signal is ignored or
\* caught, or it ends the process.
Caught(p) ==
    /\ (At(p, "user") \/ At(p, "wait")) /\ sig[p] /\ ~ traced[p]
    /\ sig' = Set(sig, p, FALSE)
    /\ UNCHANGED <<stat, names, flags, pc, other, ipc>>

Dies(p) ==
    /\ At(p, "user") /\ sig[p] /\ ~ traced[p]
    /\ sig' = Set(sig, p, FALSE) /\ BeginsExit(p)
    /\ UNCHANGED <<stat, names, told, other, ipc>>

-----------------------------------------------------------------------------
\* Tracing.

\* ptrace(0).
TraceMe(p) ==
    /\ "trace" \in Calls /\ At(p, "user") /\ p # 1
    /\ traced' = Set(traced, p, TRUE)
    /\ UNCHANGED <<stat, names, sig, told, pc, other, ipc>>

\* stop: the parent is woken, and the process, of which S are woken as well,
\* waits for it; it exits if init is its parent.
Stops(p, S) ==
    IF ppid[p] # 1 /\ Slots(ppid[p]) # {}
    THEN /\ Changes(Parent(p) \cup S, p, "stop") /\ pc' = Set(pc, p, "stop")
         /\ UNCHANGED traced
    ELSE Changes(S, p, "run") /\ BeginsExit(p)

\* psig of a traced process.
Stop(p) ==
    /\ At(p, "user") /\ sig[p] /\ traced[p] /\ Stops(p, {})
    /\ UNCHANGED <<names, sig, told, other, ipc>>

\* procxmt, when the process has been set running by someone else.
StopNobody(p) ==
    /\ At(p, "stop") /\ lock # pid[p] /\ Stops(p, {})
    /\ UNCHANGED <<names, sig, told, other, ipc>>

\* Its parent wants to look at it, or to change it, which may be an error.
StopLooks(p) ==
    /\ At(p, "stop") /\ lock = pid[p] /\ req = "look"
    /\ req' \in {"none", "error"} /\ Stops(p, Tracers)
    /\ UNCHANGED <<names, sig, told, other, lock>>

\* It goes on, with a signal that is caught or deadly, or without one.
StopContinues(p) ==
    /\ At(p, "stop") /\ lock = pid[p] /\ req = "continue"
    /\ req' = "none" /\ Changes(Tracers, p, "run") /\ sig' = Set(sig, p, FALSE)
    /\ \/ pc' = Set(pc, p, "user") /\ UNCHANGED traced
       \/ BeginsExit(p)
    /\ UNCHANGED <<names, told, other, lock>>

StopExits(p) ==
    /\ At(p, "stop") /\ lock = pid[p] /\ req = "exit"
    /\ req' = "none" /\ Changes(Tracers, p, "run") /\ BeginsExit(p)
    /\ UNCHANGED <<names, sig, told, other, lock>>

\* ptrace, for a child that is stopped: first the lock.
Ptrace(p) ==
    /\ At(p, "user") /\ pc' = Set(pc, p, "ptraceLock")
    /\ \E q \in Children(p) : stat[q] = "stop" /\ other' = Set(other, p, q)
    /\ UNCHANGED <<stat, names, sig, flags, ipc>>

\* Wrong ptrace: the lock is taken for granted.
NeverLocked == FALSE

Locked == lock # 0

PtraceWaits(p) ==
    /\ At(p, "ptraceLock") /\ Locked
    /\ stat' = Set(stat, p, "sleep")
    /\ UNCHANGED <<names, sig, flags, pc, other, ipc>>

\* The request is stored, the child set running, and the answer waited for.
PtraceSends(p) ==
    /\ At(p, "ptraceLock") /\ ~ Locked
    /\ lock' = pid[other[p]] /\ req' \in Requests
    /\ told' = Set(told, other[p], FALSE)
    /\ Changes({other[p]}, p, "sleep") /\ pc' = Set(pc, p, "ptrace")
    /\ UNCHANGED <<names, sig, traced, other>>

\* The answer is there.  Nobody wakes p before, or PtraceReturns would fail.
PtraceEnds(p) ==
    /\ At(p, "ptrace") /\ req \notin Requests
    /\ lock' = 0 /\ Changes(Tracers, p, "run")
    /\ pc' = Set(pc, p, "user") /\ other' = Set(other, p, 0)
    /\ UNCHANGED <<names, sig, flags, req>>

-----------------------------------------------------------------------------
\* What a process does of its own accord.
Enters(p) ==
    \/ Fork(p) \/ Lead(p) \/ Exit(p) \/ TraceMe(p) \/ Ptrace(p)

Waits(p) ==
    \/ WaitReaps(p) \/ WaitTells(p) \/ WaitSleeps(p) \/ WaitAborts(p)

\* What it does once it is in the kernel.
Proceeds(p) ==
    \/ ForkSwapped(p) \/ ExitEnds(p) \/ Caught(p) \/ Dies(p) \/ Stop(p)
    \/ StopNobody(p) \/ StopLooks(p) \/ StopContinues(p) \/ StopExits(p)
    \/ PtraceWaits(p) \/ PtraceSends(p) \/ PtraceEnds(p)

Next ==
    /\ UNCHANGED system
    /\ \E p \in Slot : Enters(p) \/ Waits(p) \/ Proceeds(p) \/ Signal(p)

Spec == Init /\ [][Next]_vars

\* Who is awake in the kernel runs.
LiveSpec ==
    /\ Spec
    /\ \A p \in UNION {1 .. y.nproc : y \in Systems} :
         WF_vars(p \in Slot /\ Proceeds(p) /\ UNCHANGED system)

(***************************************************************************)
(* Properties.                                                             *)
(***************************************************************************)

\* Types.
TypeOK ==
    /\ stat \in [Slot -> {"free", "run", "sleep", "idl", "zomb", "stop"}]
    /\ {pid, ppid, pgrp} \subseteq [Slot -> Pid \cup {0}] /\ mpid \in Pid /\ revived \subseteq Pid
    /\ system \in Systems
    /\ {sig, traced, told} \subseteq [Slot -> BOOLEAN]
    /\ pc \in [Slot -> {"user", "newproc", "exit", "wait", "stop", "ptraceLock", "ptrace"}]
    /\ other \in [Slot -> Slot \cup {0}]
    /\ lock \in Pid \cup {0} /\ req \in Requests \cup {"none", "error"}

Alive(s) == stat[s] \notin {"free", "zomb"}

\* p_pid is a "unique process id" (proc.h), of zombies too, and each process
\* but init has one parent that is alive and can wait for it: exit leaves no
\* child without, and none stopped with init, which traces nobody.
ParentsAreAlive ==
    /\ TypeOK
    /\ \A s \in Slot : stat[s] # "free" =>
        /\ \A r \in Slot \ {s} : pid[r] # pid[s]
        /\ s # 1 => \E r \in Slot : Alive(r) /\ pid[r] = ppid[s]
        /\ stat[s] = "stop" => traced[s] /\ ppid[s] # 1

\* Whoever sleeps in wait has a child, and none that is dead or newly
\* stopped: exit and stop wake the parent after they have changed the state.
NobodyMissed == \A p \in Waiters(Slot) : Children(p) # {} /\ News(p) = {}

\* ptrace is a conversation of two: while ip_lock is set one parent waits,
\* for the child whose number it is, and a request that is not answered yet
\* has found the child running in stop.
OneConversation ==
    LET askers == {p \in Slot : pc[p] = "ptrace"}
    IN  /\ Cardinality(askers) = IF lock = 0 THEN 0 ELSE 1
        /\ \A p \in askers :
             /\ req \in Requests => lock = pid[other[p]] /\ At(other[p], "stop")
             /\ ppid[other[p]] = pid[p]

\* A free slot holds nothing of its last process: newproc does not clear
\* p_sig, a new process would start with the signals of a dead one.
FreeSlotsAreClean ==
    \A s \in FreeSlots : pid[s] = 0 /\ ppid[s] = 0 /\ pgrp[s] = 0 /\ ~ sig[s]

\* What exit, wait and newproc leave of the table between them, in slots that
\* are used and in free ones, for processes and for those that wait for them.
TableIsSound == ParentsAreAlive /\ FreeSlotsAreClean /\ NobodyMissed

\* p_pgrp is the "name of process group leader" (proc.h): whoever has the
\* number of a group leads it, though the leader may be long dead and numbers
\* begin anew; newproc sees to that by passing over the groups too.  It does
\* not see the group of a terminal, so one that had died out is excepted.
GroupsHaveLeaders ==
    \A s, t \in Slot :
        pgrp[s] # 0 /\ pgrp[s] = pid[t] /\ pgrp[s] \notin revived => pgrp[t] = pid[t]

\* A traced process answers: no conversation, of which there is one at a time,
\* goes on for ever.
PtraceReturns == []<>(\A p \in Slot : pc[p] # "ptrace")

=============================================================================
