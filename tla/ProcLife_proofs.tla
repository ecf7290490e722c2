-------------------------- MODULE ProcLife_proofs --------------------------
(***************************************************************************)
(* Proofs about ProcLife: the inductive invariant PInv, what follows from  *)
(* it (TableStaysSound, PtraceIsOneConversation), and that the numbers of  *)
(* groups are those of their leaders (GroupsStayLed).                      *)
(***************************************************************************)
EXTENDS ProcLife, WellFoundedInduction, FiniteSetTheorems, TLAPS

-----------------------------------------------------------------------------
(* The inductive invariant.                                                *)

\* A slot is free exactly if it has no number, and numbers are unique.
Numbers ==
    /\ \A s \in Slot : stat[s] = "free" <=> pid[s] = 0
    /\ \A r, s \in Slot : pid[r] = pid[s] /\ pid[s] # 0 => r = s

\* init has no parent, gets no signals and is not traced.
InitLives ==
    /\ pid[1] = 1 /\ ppid[1] = 0 /\ ~ sig[1] /\ ~ traced[1]
    /\ pc[1] \notin {"exit", "stop"}

\* Each process but init has a parent that is alive.
Family == \A s \in Slot \ {1} : stat[s] # "free" =>
    \E r \in Slot : Alive(r) /\ pid[r] = ppid[s]

\* What the state of a slot says of the place where the process is.
Places == \A s \in Slot :
    /\ stat[s] = "free" => /\ pc[s] = "user" /\ ppid[s] = 0 /\ pgrp[s] = 0
                           /\ ~ sig[s] /\ ~ traced[s]
    /\ stat[s] = "zomb" => pc[s] = "exit"
    /\ stat[s] = "stop" => pc[s] = "stop" /\ ppid[s] # 1
    /\ stat[s] = "idl" => pc[s] = "newproc"
    /\ stat[s] = "sleep" => pc[s] \in {"newproc", "wait", "ptraceLock", "ptrace"}
    /\ pc[s] = "stop" => traced[s] /\ stat[s] \in {"stop", "run"}
    /\ pc[s] = "exit" => stat[s] \in {"run", "zomb"}

\* A process that is SIDL has its copy asleep.
Copies ==
    /\ \A p \in Slot : stat[p] = "idl" => /\ other[p] \in Slot
                                          /\ stat[other[p]] = "sleep" /\ pc[other[p]] = "newproc"
    /\ \A p, r \in Slot : stat[p] = "idl" /\ stat[r] = "idl" /\ other[p] = other[r] => p = r

\* Who is in wait has a child, and when asleep no child to be told of.
Waiting ==
    /\ \A p \in Slot : pc[p] = "wait" => \E q \in Slot : ppid[q] = pid[p]
    /\ \A p, q \in Slot : stat[p] = "sleep" /\ pc[p] = "wait" /\ ppid[q] = pid[p] =>
          stat[q] # "zomb" /\ (stat[q] = "stop" => told[q])

\* Who is in ptrace has hold of a child, which stays as it was until the
\* request is made.
Tracing == \A p \in Slot :
    /\ pc[p] \in {"ptraceLock", "ptrace"} => other[p] \in Slot /\ ppid[other[p]] = pid[p]
    /\ pc[p] = "ptraceLock" => stat[other[p]] = "stop"

\* One process waits for an answer when ip_lock is set, and none otherwise.
Asking ==
    /\ \A p \in Slot : pc[p] = "ptrace" => lock # 0
    /\ lock # 0 => \E p \in Slot : pc[p] = "ptrace"
    /\ \A p, r \in Slot : pc[p] = "ptrace" /\ pc[r] = "ptrace" => p = r
    /\ \A p \in Slot : pc[p] = "ptrace" /\ req \in Requests =>
          /\ lock = pid[other[p]]
          /\ stat[other[p]] = "run" /\ pc[other[p]] = "stop"

PInv == /\ TypeOK /\ Numbers /\ InitLives /\ Family /\ Places /\ Copies /\ Waiting
        /\ Tracing /\ Asking

-----------------------------------------------------------------------------
(* Types, numbers and the slots.                                           *)

\* A set of natural numbers has a least element.
LEMMA Least ==
    ASSUME NEW S \in SUBSET Nat, S # {}
    PROVE  \E n \in S : \A k \in S : n <= k
  <1> DEFINE R == OpToRel(<, Nat)
  <1>1. IsWellFoundedOn(R, Nat)
    BY NatLessThanWellFounded
  <1>2. \A x, y \in Nat : x < y => <<x, y>> \in R
    BY DEF OpToRel
  <1> HIDE DEF R
  <1>3. PICK n \in S : \A y \in S : ~ (<<y, n>> \in R)
    BY <1>1, WFMin
  <1>4. ASSUME NEW k \in S PROVE n <= k
    <2>1. n \in Nat /\ k \in Nat /\ <<k, n>> \notin R
      BY <1>3
    <2>2. ~ (k < n)
      BY <1>2, <2>1
    <2> QED  BY <2>1, <2>2
  <1> QED  BY <1>4

\* The least that Min is.
LEMMA MinIs ==
    ASSUME NEW S \in SUBSET Nat, S # {}
    PROVE  Min(S) \in S /\ \A k \in S : Min(S) <= k
  BY Least DEF Min

\* What the types say, one variable at a time.
LEMMA Types ==
    ASSUME TypeOK
    PROVE  /\ system \in Systems /\ 1 \in Slot /\ Slot \subseteq Nat /\ 0 \notin Slot
           /\ 1 \in Pid /\ 0 \notin Pid /\ Pid \subseteq Nat
           /\ stat \in [Slot -> {"free", "run", "sleep", "idl", "zomb", "stop"}]
           /\ pid \in [Slot -> Pid \cup {0}] /\ ppid \in [Slot -> Pid \cup {0}]
           /\ pgrp \in [Slot -> Pid \cup {0}] /\ mpid \in Pid /\ revived \subseteq Pid
           /\ sig \in [Slot -> BOOLEAN] /\ traced \in [Slot -> BOOLEAN]
           /\ told \in [Slot -> BOOLEAN]
           /\ pc \in [Slot -> {"user", "newproc", "exit", "wait", "stop", "ptraceLock", "ptrace"}]
           /\ other \in [Slot -> Slot \cup {0}]
           /\ lock \in Pid \cup {0} /\ req \in Requests \cup {"none", "error"}
  <1>1. /\ system \in Systems /\ NPROC \in Nat \ {0} /\ MAXPID \in Nat /\ MAXPID > 2 * NPROC + 1
    BY ProcAssumption DEF TypeOK, NPROC, MAXPID
  <1>2. /\ 1 \in Slot /\ Slot \subseteq Nat /\ 0 \notin Slot
        /\ 1 \in Pid /\ 0 \notin Pid /\ Pid \subseteq Nat
    BY <1>1 DEF Slot, Pid
  <1> QED  BY <1>1, <1>2 DEF TypeOK

\* The types of the variables, as Types has them.
TypesAre ==
    /\ stat \in [Slot -> {"free", "run", "sleep", "idl", "zomb", "stop"}]
    /\ pid \in [Slot -> Pid \cup {0}] /\ ppid \in [Slot -> Pid \cup {0}]
    /\ pgrp \in [Slot -> Pid \cup {0}] /\ mpid \in Pid /\ revived \subseteq Pid
    /\ sig \in [Slot -> BOOLEAN] /\ traced \in [Slot -> BOOLEAN]
    /\ told \in [Slot -> BOOLEAN]
    /\ pc \in [Slot -> {"user", "newproc", "exit", "wait", "stop", "ptraceLock", "ptrace"}]
    /\ other \in [Slot -> Slot \cup {0}]
    /\ lock \in Pid \cup {0} /\ req \in Requests \cup {"none", "error"}

\* The same after a step, which leaves the system as it is.
LEMMA SameSystem ==
    ASSUME UNCHANGED system
    PROVE  Slot' = Slot /\ Pid' = Pid
  BY DEF Slot, Pid, NPROC, MAXPID

-----------------------------------------------------------------------------
(* Steps that have an effect in common.                                    *)

\* p begins to exit, from its program or from stop, and wakes who sleeps;
\* nobody who waits for an answer of p goes without.
LEMMA LeaveInv ==
    ASSUME PInv, UNCHANGED system, NEW p \in Slot \ {1}, stat[p] = "run", pc[p] \in {"user", "stop"},
           UNCHANGED <<names, told, other, lock>>,
           stat' \in [Slot -> {"free", "run", "sleep", "idl", "zomb", "stop"}], stat'[p] = "run",
           \A s \in Slot \ {p} : \/ stat'[s] = stat[s]
                                 \/ stat[s] = "sleep" /\ pc[s] # "newproc" /\ stat'[s] = "run",
           BeginsExit(p),
           sig' \in [Slot -> BOOLEAN], \A s \in Slot \ {p} : sig'[s] = sig[s],
           \/ req' \in {"none", "error"}
           \/ req' = req /\ ~ (pc[p] = "stop" /\ lock = pid[p])
    PROVE  PInv'
  <1> USE DEF PInv
  <1>s. Slot' = Slot /\ Pid' = Pid
    BY SameSystem
  <1>t. /\ TypesAre /\ 1 \in Slot /\ system' \in Systems
        /\ Numbers /\ InitLives /\ Family /\ Places /\ Copies /\ Waiting /\ Tracing /\ Asking
    BY Types DEF TypesAre
  <1>e. /\ pid' = pid /\ ppid' = ppid /\ pgrp' = pgrp /\ mpid' = mpid /\ revived' = revived /\ told' = told
        /\ other' = other /\ lock' = lock
    BY DEF names
  <1>c. /\ pc'[p] = "exit" /\ \A s \in Slot \ {p} : pc'[s] = pc[s]
        /\ traced'[p] = FALSE /\ \A s \in Slot \ {p} : traced'[s] = traced[s]
        /\ pc' \in [Slot -> {"user", "newproc", "exit", "wait", "stop", "ptraceLock", "ptrace"}]
        /\ traced' \in [Slot -> BOOLEAN]
    BY <1>t DEF BeginsExit, Set, TypesAre
  <1> HIDE DEF PInv
  <1>1. TypeOK'
    BY <1>s, <1>t, <1>e, <1>c DEF TypeOK, TypesAre
  <1>2. Numbers'
    BY <1>s, <1>t, <1>e DEF Numbers, TypesAre
  <1>3. InitLives'
    BY <1>s, <1>t, <1>e, <1>c DEF InitLives
  <1>4. Family'
    BY <1>s, <1>t, <1>e DEF Family, Alive
  <1>5. Places'
    BY <1>s, <1>t, <1>e, <1>c DEF Places
  <1>6. Copies'
    BY <1>s, <1>t, <1>e, <1>c DEF Copies
  <1>7. Waiting'
    BY <1>s, <1>t, <1>e, <1>c DEF Waiting
  <1>8. Tracing'
    BY <1>s, <1>t, <1>e, <1>c DEF Tracing
  <1>9. Asking'
    <2>1. \A a \in Slot : pc'[a] = "ptrace" <=> pc[a] = "ptrace"
      BY <1>c
    <2>2. ASSUME NEW a \in Slot, pc[a] = "ptrace", req' \in Requests
          PROVE  lock = pid[other[a]] /\ stat'[other[a]] = "run" /\ pc'[other[a]] = "stop"
      <3>1. req' = req /\ ~ (pc[p] = "stop" /\ lock = pid[p])
        BY <2>2 DEF Requests
      <3>2. /\ lock = pid[other[a]] /\ stat[other[a]] = "run" /\ pc[other[a]] = "stop"
            /\ other[a] \in Slot
        BY <1>t, <2>2, <3>1 DEF Asking, Tracing
      <3>3. other[a] # p
        BY <3>1, <3>2
      <3> QED  BY <1>c, <3>2, <3>3
    <2> QED  BY <1>s, <1>t, <1>e, <2>1, <2>2 DEF Asking
  <1> QED  BY <1>1, <1>2, <1>3, <1>4, <1>5, <1>6, <1>7, <1>8, <1>9 DEF PInv

\* Whom a wakeup sets running.
LEMMA ChangesIs ==
    ASSUME TypesAre, NEW p \in Slot, NEW S, NEW st, Changes(S, p, st),
           st \in {"run", "sleep", "zomb", "stop"},
           \A s \in S : stat[s] = "sleep" /\ pc[s] # "newproc"
    PROVE  /\ stat' \in [Slot -> {"free", "run", "sleep", "idl", "zomb", "stop"}]
           /\ stat'[p] = st
           /\ \A s \in Slot \ {p} : \/ stat'[s] = stat[s]
                                    \/ stat[s] = "sleep" /\ pc[s] # "newproc" /\ stat'[s] = "run"
           /\ \A s \in Slot \ {p} : s \in S => stat'[s] = "run"
           /\ \A s \in Slot \ {p} : s \notin S => stat'[s] = stat[s]
  BY DEF Changes, TypesAre

\* The parent of p, and whether it is woken.
LEMMA ParentIs ==
    ASSUME PInv, NEW p \in Slot, ppid[p] # 0
    PROVE  /\ \A s \in Parent(p) : s \in Slot /\ stat[s] = "sleep" /\ pc[s] = "wait"
           /\ \A r \in Slot : pid[r] = ppid[p] /\ stat[r] = "sleep" /\ pc[r] = "wait" => r \in Parent(p)
  <1> USE DEF PInv
  <1>1. Slots(ppid[p]) \in SUBSET Slot /\ Slot \in SUBSET Nat
    BY Types DEF Slots
  <1>2. Slots(ppid[p]) # {} => Min(Slots(ppid[p])) \in Slots(ppid[p])
    BY <1>1, MinIs
  <1>3. ASSUME NEW r \in Slot, pid[r] = ppid[p] PROVE Min(Slots(ppid[p])) = r
    <2>1. r \in Slots(ppid[p])
      BY <1>3 DEF Slots
    <2>2. \A s \in Slots(ppid[p]) : s \in Slot /\ pid[s] = pid[r]
      BY <1>3 DEF Slots
    <2> QED  BY <1>2, <1>3, <2>1, <2>2 DEF Numbers
  <1>4. \A s \in Parent(p) : s \in Slot /\ stat[s] = "sleep" /\ pc[s] = "wait"
    BY <1>1, <1>2 DEF Parent, Waiters
  <1>5. ASSUME NEW r \in Slot, pid[r] = ppid[p], stat[r] = "sleep", pc[r] = "wait"
        PROVE  r \in Parent(p)
    <2>1. r \in Slots(ppid[p]) /\ Min(Slots(ppid[p])) = r
      BY <1>3, <1>5 DEF Slots
    <2> QED  BY <1>5, <2>1 DEF Parent, Waiters
  <1> QED  BY <1>4, <1>5

\* p stops, from its program or again, and its parent is woken.
LEMMA HaltInv ==
    ASSUME PInv, UNCHANGED system, NEW p \in Slot, stat[p] = "run", pc[p] \in {"user", "stop"}, traced[p],
           UNCHANGED <<names, sig, flags, other, lock>>,
           NEW S, \A s \in S : stat[s] = "sleep" /\ pc[s] # "newproc",
           ppid[p] # 1, Changes(Parent(p) \cup S, p, "stop"), pc' = Set(pc, p, "stop"),
           \/ req' \in {"none", "error"}
           \/ req' = req /\ ~ (pc[p] = "stop" /\ lock = pid[p])
    PROVE  PInv'
  <1> USE DEF PInv
  <1>s. Slot' = Slot /\ Pid' = Pid
    BY SameSystem
  <1>t. /\ TypesAre /\ 1 \in Slot /\ system' \in Systems
        /\ Numbers /\ InitLives /\ Family /\ Places /\ Copies /\ Waiting /\ Tracing /\ Asking
    BY Types DEF TypesAre
  <1>e. /\ pid' = pid /\ ppid' = ppid /\ pgrp' = pgrp /\ mpid' = mpid /\ revived' = revived /\ told' = told
        /\ other' = other /\ lock' = lock /\ sig' = sig /\ traced' = traced
    BY DEF names, flags
  <1>p. p # 1 /\ ppid[p] # 0
    <2>1. p # 1
      BY <1>t DEF InitLives
    <2>2. PICK r \in Slot : Alive(r) /\ pid[r] = ppid[p]
      BY <1>t, <2>1 DEF Family
    <2> QED  BY <1>t, <2>1, <2>2 DEF Numbers, Alive
  <1>c. /\ pc'[p] = "stop" /\ \A s \in Slot \ {p} : pc'[s] = pc[s]
        /\ pc' \in [Slot -> {"user", "newproc", "exit", "wait", "stop", "ptraceLock", "ptrace"}]
    BY <1>t DEF Set, TypesAre
  <1>d. /\ stat' \in [Slot -> {"free", "run", "sleep", "idl", "zomb", "stop"}]
        /\ stat'[p] = "stop"
        /\ \A s \in Slot \ {p} : \/ stat'[s] = stat[s]
                                 \/ stat[s] = "sleep" /\ pc[s] # "newproc" /\ stat'[s] = "run"
        /\ \A r \in Slot \ {p} : pid[r] = ppid[p] /\ pc[r] = "wait" => stat'[r] # "sleep"
    <2>1. \A s \in Parent(p) \cup S : stat[s] = "sleep" /\ pc[s] # "newproc"
      BY <1>p, ParentIs
    <2>2. /\ stat' \in [Slot -> {"free", "run", "sleep", "idl", "zomb", "stop"}]
          /\ stat'[p] = "stop"
          /\ \A s \in Slot \ {p} : \/ stat'[s] = stat[s]
                                   \/ stat[s] = "sleep" /\ pc[s] # "newproc" /\ stat'[s] = "run"
          /\ \A s \in Slot \ {p} : s \in Parent(p) \cup S => stat'[s] = "run"
      <3> HIDE DEF PInv
      <3> QED  BY <1>t, <2>1, ChangesIs
    <2>3. \A r \in Slot : pid[r] = ppid[p] /\ stat[r] = "sleep" /\ pc[r] = "wait" => r \in Parent(p)
      BY <1>p, ParentIs
    <2> QED  BY <2>2, <2>3
  <1> HIDE DEF PInv
  <1>1. TypeOK'
    BY <1>s, <1>t, <1>e, <1>p, <1>c, <1>d DEF TypeOK, TypesAre
  <1>2. Numbers'
    BY <1>s, <1>t, <1>e, <1>p, <1>c, <1>d DEF Numbers, TypesAre
  <1>3. InitLives'
    BY <1>s, <1>t, <1>e, <1>p, <1>c, <1>d DEF InitLives
  <1>4. Family'
    BY <1>s, <1>t, <1>e, <1>p, <1>c, <1>d DEF Family, Alive
  <1>5. Places'
    BY <1>s, <1>t, <1>e, <1>p, <1>c, <1>d DEF Places
  <1>6. Copies'
    BY <1>s, <1>t, <1>e, <1>p, <1>c, <1>d DEF Copies
  <1>7. Waiting'
    BY <1>s, <1>t, <1>e, <1>p, <1>c, <1>d DEF Waiting
  <1>8. Tracing'
    BY <1>s, <1>t, <1>e, <1>p, <1>c, <1>d DEF Tracing
  <1>9. Asking'
    <2>1. \A a \in Slot : pc'[a] = "ptrace" <=> pc[a] = "ptrace"
      BY <1>c
    <2>2. ASSUME NEW a \in Slot, pc[a] = "ptrace", req' \in Requests
          PROVE  lock = pid[other[a]] /\ stat'[other[a]] = "run" /\ pc'[other[a]] = "stop"
      <3>1. req' = req /\ ~ (pc[p] = "stop" /\ lock = pid[p])
        BY <2>2 DEF Requests
      <3>2. /\ lock = pid[other[a]] /\ stat[other[a]] = "run" /\ pc[other[a]] = "stop"
            /\ other[a] \in Slot
        BY <1>t, <2>2, <3>1 DEF Asking, Tracing
      <3>3. other[a] # p
        BY <3>1, <3>2
      <3> QED  BY <1>c, <1>d, <3>2, <3>3
    <2> QED  BY <1>s, <1>t, <1>e, <2>1, <2>2 DEF Asking
  <1> QED  BY <1>1, <1>2, <1>3, <1>4, <1>5, <1>6, <1>7, <1>8, <1>9 DEF PInv

-----------------------------------------------------------------------------
(* Exit, stop and what comes after it.                                     *)

\* Who waits for ipc.
LEMMA TracersSleep ==
    \A s \in Tracers : stat[s] = "sleep" /\ pc[s] # "newproc"
  BY DEF Tracers

\* A process exits.
LEMMA ExitInv ==
    ASSUME PInv, UNCHANGED system, NEW p \in Slot, Exit(p)
    PROVE  PInv'
  <1>1. TypesAre
    BY Types DEF PInv, TypesAre
  <1>2. stat' = stat /\ sig' = sig /\ req' = req /\ pc[p] = "user"
    BY DEF Exit, ipc, At
  <1> QED  BY <1>1, <1>2, LeaveInv DEF Exit, ipc, At, TypesAre

\* A signal ends a process.
LEMMA DiesInv ==
    ASSUME PInv, UNCHANGED system, NEW p \in Slot, Dies(p)
    PROVE  PInv'
  <1>1. TypesAre /\ InitLives
    BY Types DEF PInv, TypesAre
  <1>2. stat' = stat /\ req' = req /\ pc[p] = "user" /\ p # 1
    BY <1>1 DEF Dies, ipc, At, InitLives
  <1>3. sig' \in [Slot -> BOOLEAN] /\ \A s \in Slot \ {p} : sig'[s] = sig[s]
    BY <1>1 DEF Dies, TypesAre, Set
  <1> QED  BY <1>1, <1>2, <1>3, LeaveInv DEF Dies, ipc, At, TypesAre

\* stop, from its program or again.
LEMMA StopsInv ==
    ASSUME PInv, UNCHANGED system, NEW p \in Slot, stat[p] = "run",
           (pc[p] = "user" /\ traced[p]) \/ pc[p] = "stop",
           NEW S, \A s \in S : stat[s] = "sleep" /\ pc[s] # "newproc", Stops(p, S),
           UNCHANGED <<names, sig, told, other, lock>>,
           \/ req' \in {"none", "error"}
           \/ req' = req /\ ~ (pc[p] = "stop" /\ lock = pid[p])
    PROVE  PInv'
  <1>1. TypesAre /\ InitLives /\ traced[p] /\ p # 1
    BY Types DEF PInv, TypesAre, InitLives, Places
  <1>2. CASE ppid[p] # 1 /\ Slots(ppid[p]) # {}
    BY <1>1, <1>2, HaltInv DEF Stops, flags
  <1>3. CASE ~ (ppid[p] # 1 /\ Slots(ppid[p]) # {})
    <2>1. Changes(S, p, "run") /\ BeginsExit(p)
      BY <1>3 DEF Stops
    <2>2. sig' = sig
      OBVIOUS
    <2>3. /\ stat' \in [Slot -> {"free", "run", "sleep", "idl", "zomb", "stop"}]
          /\ stat'[p] = "run"
          /\ \A s \in Slot \ {p} : \/ stat'[s] = stat[s]
                                   \/ stat[s] = "sleep" /\ pc[s] # "newproc" /\ stat'[s] = "run"
      BY <1>1, <2>1, ChangesIs
    <2> QED  BY <1>1, <2>1, <2>2, <2>3, LeaveInv DEF TypesAre
  <1> QED  BY <1>2, <1>3

\* A signal stops a traced process.
LEMMA StopInv ==
    ASSUME PInv, UNCHANGED system, NEW p \in Slot, Stop(p)
    PROVE  PInv'
  <1>1. Stops(p, {}) /\ stat[p] = "run" /\ pc[p] = "user" /\ traced[p]
        /\ UNCHANGED <<names, sig, told, other, lock>> /\ req' = req
    BY DEF Stop, At, ipc
  <1> QED  BY <1>1, StopsInv

\* A traced process is set running by someone who has no request: it stops again.
LEMMA StopNobodyInv ==
    ASSUME PInv, UNCHANGED system, NEW p \in Slot, StopNobody(p)
    PROVE  PInv'
  <1>1. Stops(p, {}) /\ stat[p] = "run" /\ pc[p] = "stop" /\ lock # pid[p]
        /\ UNCHANGED <<names, sig, told, other, lock>> /\ req' = req
    BY DEF StopNobody, At, ipc
  <1> QED  BY <1>1, StopsInv

\* It answers a request to look at it or to change it, and stops again.
LEMMA StopLooksInv ==
    ASSUME PInv, UNCHANGED system, NEW p \in Slot, StopLooks(p)
    PROVE  PInv'
  <1>1. Stops(p, Tracers) /\ stat[p] = "run" /\ pc[p] = "stop"
        /\ UNCHANGED <<names, sig, told, other, lock>> /\ req' \in {"none", "error"}
    BY DEF StopLooks, At
  <1> QED  BY <1>1, StopsInv, TracersSleep

\* It exits at its parent's request.
LEMMA StopExitsInv ==
    ASSUME PInv, UNCHANGED system, NEW p \in Slot, StopExits(p)
    PROVE  PInv'
  <1>1. TypesAre /\ InitLives
    BY Types DEF PInv, TypesAre
  <1>2. Changes(Tracers, p, "run") /\ stat[p] = "run" /\ pc[p] = "stop" /\ p # 1
        /\ BeginsExit(p)
        /\ UNCHANGED <<names, told, other, lock>> /\ sig' = sig /\ req' \in {"none", "error"}
    BY <1>1 DEF StopExits, At, InitLives
  <1>3. /\ stat' \in [Slot -> {"free", "run", "sleep", "idl", "zomb", "stop"}]
        /\ stat'[p] = "run"
        /\ \A s \in Slot \ {p} : \/ stat'[s] = stat[s]
                                 \/ stat[s] = "sleep" /\ pc[s] # "newproc" /\ stat'[s] = "run"
    BY <1>1, <1>2, ChangesIs, TracersSleep
  <1> QED  BY <1>1, <1>2, <1>3, LeaveInv DEF TypesAre

\* p goes on from stop, and whoever waits for ipc is woken.
LEMMA GoesOnInv ==
    ASSUME PInv, UNCHANGED system, NEW p \in Slot, At(p, "stop"), req' = "none", Changes(Tracers, p, "run"),
           sig' = Set(sig, p, FALSE), pc' = Set(pc, p, "user"), traced' = traced,
           UNCHANGED <<names, told, other, lock>>
    PROVE  PInv'
  <1> USE DEF PInv
  <1>s. Slot' = Slot /\ Pid' = Pid
    BY SameSystem
  <1>t. /\ TypesAre /\ 1 \in Slot /\ system' \in Systems
        /\ Numbers /\ InitLives /\ Family /\ Places /\ Copies /\ Waiting /\ Tracing /\ Asking
    BY Types DEF TypesAre
  <1>e. /\ pid' = pid /\ ppid' = ppid /\ pgrp' = pgrp /\ mpid' = mpid /\ revived' = revived /\ told' = told
        /\ other' = other /\ lock' = lock /\ traced' = traced /\ req' = "none"
    BY DEF names
  <1>c. /\ pc'[p] = "user" /\ \A s \in Slot \ {p} : pc'[s] = pc[s]
        /\ pc' \in [Slot -> {"user", "newproc", "exit", "wait", "stop", "ptraceLock", "ptrace"}]
        /\ sig' \in [Slot -> BOOLEAN] /\ sig'[p] = FALSE /\ \A s \in Slot \ {p} : sig'[s] = sig[s]
        /\ stat[p] = "run" /\ pc[p] = "stop"
    BY <1>t DEF Set, TypesAre, At
  <1>d. /\ stat' \in [Slot -> {"free", "run", "sleep", "idl", "zomb", "stop"}]
        /\ stat'[p] = "run"
        /\ \A s \in Slot \ {p} : \/ stat'[s] = stat[s]
                                 \/ stat[s] = "sleep" /\ pc[s] # "newproc" /\ stat'[s] = "run"
    <2> HIDE DEF PInv
    <2> QED  BY <1>t, ChangesIs, TracersSleep
  <1> HIDE DEF PInv
  <1>1. TypeOK'
    BY <1>s, <1>t, <1>e, <1>c, <1>d, ZenonT(60) DEF TypeOK, TypesAre
  <1>2. Numbers'
    BY <1>s, <1>t, <1>e, <1>c, <1>d DEF Numbers, TypesAre
  <1>3. InitLives'
    BY <1>s, <1>t, <1>e, <1>c, <1>d DEF InitLives
  <1>4. Family'
    BY <1>s, <1>t, <1>e, <1>c, <1>d DEF Family, Alive
  <1>5. Places'
    <2> SUFFICES ASSUME NEW s \in Slot PROVE Places!(s)'
      BY <1>s DEF Places
    <2>1. CASE s = p
      BY <1>c, <1>d, <2>1
    <2>2. CASE s # p
      <3>1. stat'[s] = "free" => stat[s] = "free" /\ ~ sig'[s]
        BY <1>t, <1>c, <1>d, <2>2 DEF Places
      <3>2. pc'[s] = pc[s] /\ traced'[s] = traced[s] /\ ppid'[s] = ppid[s] /\ pgrp'[s] = pgrp[s]
        BY <1>c, <1>e, <2>2
      <3> QED  BY <1>t, <1>d, <2>2, <3>1, <3>2 DEF Places
    <2> QED  BY <2>1, <2>2
  <1>6. Copies'
    BY <1>s, <1>t, <1>e, <1>c, <1>d DEF Copies
  <1>7. Waiting'
    BY <1>s, <1>t, <1>e, <1>c, <1>d DEF Waiting
  <1>8. Tracing'
    BY <1>s, <1>t, <1>e, <1>c, <1>d DEF Tracing
  <1>9. Asking'
    BY <1>s, <1>t, <1>e, <1>c, <1>d DEF Asking, Requests
  <1> QED  BY <1>1, <1>2, <1>3, <1>4, <1>5, <1>6, <1>7, <1>8, <1>9 DEF PInv

\* It goes on at its parent's request, with a signal or without.
LEMMA StopContinuesInv ==
    ASSUME PInv, UNCHANGED system, NEW p \in Slot, StopContinues(p)
    PROVE  PInv'
  <1>1. TypesAre /\ InitLives
    BY Types DEF PInv, TypesAre
  <1>2. Changes(Tracers, p, "run") /\ At(p, "stop") /\ stat[p] = "run" /\ pc[p] = "stop" /\ p # 1
        /\ UNCHANGED <<names, told, other, lock>> /\ sig' = Set(sig, p, FALSE) /\ req' = "none"
    BY <1>1 DEF StopContinues, At, InitLives
  <1>3. CASE pc' = Set(pc, p, "user") /\ UNCHANGED traced
    BY <1>2, <1>3, GoesOnInv
  <1>4. CASE BeginsExit(p)
    <2>1. /\ stat' \in [Slot -> {"free", "run", "sleep", "idl", "zomb", "stop"}]
          /\ stat'[p] = "run"
          /\ \A s \in Slot \ {p} : \/ stat'[s] = stat[s]
                                   \/ stat[s] = "sleep" /\ pc[s] # "newproc" /\ stat'[s] = "run"
      BY <1>1, <1>2, ChangesIs, TracersSleep
    <2>2. sig' \in [Slot -> BOOLEAN] /\ \A s \in Slot \ {p} : sig'[s] = sig[s]
      BY <1>1, <1>2 DEF TypesAre, Set
    <2> QED  BY <1>1, <1>2, <1>4, <2>1, <2>2, LeaveInv DEF TypesAre
  <1> QED  BY <1>3, <1>4 DEF StopContinues

-----------------------------------------------------------------------------
(* Signals, groups, tracing and wait.                                      *)

\* A process leads or joins a group.
LEMMA LeadInv ==
    ASSUME PInv, UNCHANGED system, NEW p \in Slot, Lead(p)
    PROVE  PInv'
  <1> USE DEF PInv
  <1>s. Slot' = Slot /\ Pid' = Pid
    BY SameSystem
  <1>t. /\ TypesAre /\ 1 \in Slot /\ system' \in Systems
        /\ Numbers /\ InitLives /\ Family /\ Places /\ Copies /\ Waiting /\ Tracing /\ Asking
    BY Types DEF TypesAre
  <1>e. /\ UNCHANGED <<stat, pid, ppid, mpid, sig, traced, told, pc, other, lock, req>>
        /\ stat[p] = "run" /\ pc[p] = "user"
    BY DEF Lead, flags, ipc, At
  <1>c. /\ pgrp' \in [Slot -> Pid \cup {0}] /\ revived' \subseteq Pid
        /\ \A s \in Slot \ {p} : pgrp'[s] = pgrp[s]
    <2>1. \A g \in {pid[p]} \cup {pgrp[s] : s \in Slot} \cup system.old : g # 0 => g \in Pid
      BY <1>t, ProcAssumption DEF TypesAre, TypeOK, Pid, MAXPID
    <2> QED  BY <1>t, <2>1 DEF Lead, Set, TypesAre
  <1> HIDE DEF PInv
  <1>1. TypeOK'
    BY <1>s, <1>t, <1>e, <1>c DEF TypeOK, TypesAre
  <1>2. Numbers'
    BY <1>s, <1>t, <1>e, <1>c DEF Numbers, TypesAre
  <1>3. InitLives'
    BY <1>s, <1>t, <1>e, <1>c DEF InitLives
  <1>4. Family'
    BY <1>s, <1>t, <1>e, <1>c DEF Family, Alive
  <1>5. Places'
    BY <1>s, <1>t, <1>e, <1>c DEF Places
  <1>6. Copies'
    BY <1>s, <1>t, <1>e, <1>c DEF Copies
  <1>7. Waiting'
    BY <1>s, <1>t, <1>e, <1>c DEF Waiting
  <1>8. Tracing'
    BY <1>s, <1>t, <1>e, <1>c DEF Tracing
  <1>9. Asking'
    BY <1>s, <1>t, <1>e, <1>c DEF Asking, Requests
  <1> QED  BY <1>1, <1>2, <1>3, <1>4, <1>5, <1>6, <1>7, <1>8, <1>9 DEF PInv

\* A signal is ignored or caught.
LEMMA CaughtInv ==
    ASSUME PInv, UNCHANGED system, NEW p \in Slot, Caught(p)
    PROVE  PInv'
  <1> USE DEF PInv
  <1>s. Slot' = Slot /\ Pid' = Pid
    BY SameSystem
  <1>t. /\ TypesAre /\ 1 \in Slot /\ system' \in Systems
        /\ Numbers /\ InitLives /\ Family /\ Places /\ Copies /\ Waiting /\ Tracing /\ Asking
    BY Types DEF TypesAre
  <1>e. UNCHANGED <<stat, pid, ppid, pgrp, mpid, revived, traced, told, pc, other, lock, req>>
    BY DEF Caught, names, flags, ipc
  <1>c. /\ sig' \in [Slot -> BOOLEAN] /\ sig'[p] = FALSE
        /\ \A s \in Slot \ {p} : sig'[s] = sig[s]
    BY <1>t DEF Caught, TypesAre, Set
  <1> HIDE DEF PInv
  <1>1. TypeOK'
    BY <1>s, <1>t, <1>e, <1>c DEF TypeOK, TypesAre
  <1>2. Numbers'
    BY <1>s, <1>t, <1>e, <1>c DEF Numbers, TypesAre
  <1>3. InitLives'
    BY <1>s, <1>t, <1>e, <1>c DEF InitLives
  <1>4. Family'
    BY <1>s, <1>t, <1>e, <1>c DEF Family, Alive
  <1>5. Places'
    <2>1. \A s \in Slot : ~ sig[s] => ~ sig'[s]
      BY <1>c
    <2> QED  BY <1>s, <1>t, <1>e, <2>1 DEF Places
  <1>6. Copies'
    BY <1>s, <1>t, <1>e, <1>c DEF Copies
  <1>7. Waiting'
    BY <1>s, <1>t, <1>e, <1>c DEF Waiting
  <1>8. Tracing'
    BY <1>s, <1>t, <1>e, <1>c DEF Tracing
  <1>9. Asking'
    BY <1>s, <1>t, <1>e, <1>c DEF Asking, Requests
  <1> QED  BY <1>1, <1>2, <1>3, <1>4, <1>5, <1>6, <1>7, <1>8, <1>9 DEF PInv

\* A process asks to be traced.
LEMMA TraceMeInv ==
    ASSUME PInv, UNCHANGED system, NEW p \in Slot, TraceMe(p)
    PROVE  PInv'
  <1> USE DEF PInv
  <1>s. Slot' = Slot /\ Pid' = Pid
    BY SameSystem
  <1>t. /\ TypesAre /\ 1 \in Slot /\ system' \in Systems
        /\ Numbers /\ InitLives /\ Family /\ Places /\ Copies /\ Waiting /\ Tracing /\ Asking
    BY Types DEF TypesAre
  <1>e. /\ UNCHANGED <<stat, pid, ppid, pgrp, mpid, revived, sig, told, pc, other, lock, req>>
        /\ p # 1 /\ stat[p] = "run" /\ pc[p] = "user"
    BY DEF TraceMe, names, ipc, At
  <1>c. /\ traced' \in [Slot -> BOOLEAN] /\ traced'[p] = TRUE
        /\ \A s \in Slot \ {p} : traced'[s] = traced[s]
    BY <1>t DEF TraceMe, TypesAre, Set
  <1> HIDE DEF PInv
  <1>1. TypeOK'
    BY <1>s, <1>t, <1>e, <1>c DEF TypeOK, TypesAre
  <1>2. Numbers'
    BY <1>s, <1>t, <1>e, <1>c DEF Numbers, TypesAre
  <1>3. InitLives'
    BY <1>s, <1>t, <1>e, <1>c DEF InitLives
  <1>4. Family'
    BY <1>s, <1>t, <1>e, <1>c DEF Family, Alive
  <1>5. Places'
    BY <1>s, <1>t, <1>e, <1>c DEF Places
  <1>6. Copies'
    BY <1>s, <1>t, <1>e, <1>c DEF Copies
  <1>7. Waiting'
    BY <1>s, <1>t, <1>e, <1>c DEF Waiting
  <1>8. Tracing'
    BY <1>s, <1>t, <1>e, <1>c DEF Tracing
  <1>9. Asking'
    BY <1>s, <1>t, <1>e, <1>c DEF Asking, Requests
  <1> QED  BY <1>1, <1>2, <1>3, <1>4, <1>5, <1>6, <1>7, <1>8, <1>9 DEF PInv

\* wait tells of a child that has stopped.
LEMMA WaitTellsInv ==
    ASSUME PInv, UNCHANGED system, NEW p \in Slot, WaitTells(p)
    PROVE  PInv'
  <1> USE DEF PInv
  <1>s. Slot' = Slot /\ Pid' = Pid
    BY SameSystem
  <1>t. /\ TypesAre /\ 1 \in Slot /\ system' \in Systems
        /\ Numbers /\ InitLives /\ Family /\ Places /\ Copies /\ Waiting /\ Tracing /\ Asking
    BY Types DEF TypesAre
  <1>e. /\ UNCHANGED <<stat, pid, ppid, pgrp, mpid, revived, sig, traced, other, lock, req>>
        /\ stat[p] = "run" /\ pc[p] \in {"user", "wait"}
    BY DEF WaitTells, InWait, names, ipc, At
  <1>c. /\ told' \in [Slot -> BOOLEAN] /\ \A s \in Slot : told[s] => told'[s]
        /\ pc' \in [Slot -> {"user", "newproc", "exit", "wait", "stop", "ptraceLock", "ptrace"}]
        /\ pc'[p] = "user" /\ \A s \in Slot \ {p} : pc'[s] = pc[s]
    BY <1>t DEF WaitTells, TypesAre, Set
  <1> HIDE DEF PInv
  <1>1. TypeOK'
    BY <1>s, <1>t, <1>e, <1>c DEF TypeOK, TypesAre
  <1>2. Numbers'
    BY <1>s, <1>t, <1>e, <1>c DEF Numbers, TypesAre
  <1>3. InitLives'
    BY <1>s, <1>t, <1>e, <1>c DEF InitLives
  <1>4. Family'
    BY <1>s, <1>t, <1>e, <1>c DEF Family, Alive
  <1>5. Places'
    BY <1>s, <1>t, <1>e, <1>c DEF Places
  <1>6. Copies'
    BY <1>s, <1>t, <1>e, <1>c DEF Copies
  <1>7. Waiting'
    BY <1>s, <1>t, <1>e, <1>c DEF Waiting
  <1>8. Tracing'
    BY <1>s, <1>t, <1>e, <1>c DEF Tracing
  <1>9. Asking'
    <2>1. \A a \in Slot : pc'[a] = "ptrace" <=> pc[a] = "ptrace"
      BY <1>c, <1>e
    <2>2. ASSUME NEW a \in Slot, pc[a] = "ptrace"
          PROVE  other'[a] = other[a]
      BY <1>c, <1>e, <2>2
    <2>3. ASSUME NEW a \in Slot, pc[a] = "ptrace", req \in Requests
          PROVE  lock = pid[other[a]] /\ stat'[other[a]] = "run" /\ pc'[other[a]] = "stop"
      <3>1. /\ lock = pid[other[a]] /\ stat[other[a]] = "run" /\ pc[other[a]] = "stop"
            /\ other[a] \in Slot
        BY <1>t, <2>3 DEF Asking, Tracing
      <3> QED  BY <1>c, <1>e, <3>1
    <2> QED  BY <1>s, <1>t, <1>e, <2>1, <2>2, <2>3 DEF Asking
  <1> QED  BY <1>1, <1>2, <1>3, <1>4, <1>5, <1>6, <1>7, <1>8, <1>9 DEF PInv

\* wait sleeps.
LEMMA WaitSleepsInv ==
    ASSUME PInv, UNCHANGED system, NEW p \in Slot, WaitSleeps(p)
    PROVE  PInv'
  <1> USE DEF PInv
  <1>s. Slot' = Slot /\ Pid' = Pid
    BY SameSystem
  <1>t. /\ TypesAre /\ 1 \in Slot /\ system' \in Systems
        /\ Numbers /\ InitLives /\ Family /\ Places /\ Copies /\ Waiting /\ Tracing /\ Asking
    BY Types DEF TypesAre
  <1>e. /\ UNCHANGED <<pid, ppid, pgrp, mpid, revived, sig, traced, told, other, lock, req>>
        /\ stat[p] = "run" /\ pc[p] \in {"user", "wait"}
    BY DEF WaitSleeps, InWait, names, flags, ipc, At
  <1>n. /\ \E q \in Slot : ppid[q] = pid[p]
        /\ \A q \in Slot : ppid[q] = pid[p] => stat[q] # "zomb" /\ (stat[q] = "stop" => told[q])
    BY <1>t DEF WaitSleeps, Children, News, Waiting
  <1>c. /\ stat' \in [Slot -> {"free", "run", "sleep", "idl", "zomb", "stop"}] /\ stat'[p] = "sleep"
        /\ \A s \in Slot \ {p} : stat'[s] = stat[s]
        /\ pc' \in [Slot -> {"user", "newproc", "exit", "wait", "stop", "ptraceLock", "ptrace"}]
        /\ pc'[p] = "wait" /\ \A s \in Slot \ {p} : pc'[s] = pc[s]
    BY <1>t DEF WaitSleeps, TypesAre, Set
  <1> HIDE DEF PInv
  <1>1. TypeOK'
    BY <1>s, <1>t, <1>e, <1>c, <1>n DEF TypeOK, TypesAre
  <1>2. Numbers'
    BY <1>s, <1>t, <1>e, <1>c, <1>n DEF Numbers, TypesAre
  <1>3. InitLives'
    BY <1>s, <1>t, <1>e, <1>c, <1>n DEF InitLives
  <1>4. Family'
    BY <1>s, <1>t, <1>e, <1>c, <1>n DEF Family, Alive
  <1>5. Places'
    BY <1>s, <1>t, <1>e, <1>c, <1>n DEF Places
  <1>6. Copies'
    BY <1>s, <1>t, <1>e, <1>c, <1>n DEF Copies
  <1>7. Waiting'
    BY <1>s, <1>t, <1>e, <1>c, <1>n DEF Waiting
  <1>8. Tracing'
    BY <1>s, <1>t, <1>e, <1>c, <1>n DEF Tracing
  <1>9. Asking'
    <2>1. \A a \in Slot : pc'[a] = "ptrace" <=> pc[a] = "ptrace"
      BY <1>c, <1>e
    <2>2. ASSUME NEW a \in Slot, pc[a] = "ptrace"
          PROVE  other'[a] = other[a]
      BY <1>c, <1>e, <2>2
    <2>3. ASSUME NEW a \in Slot, pc[a] = "ptrace", req \in Requests
          PROVE  lock = pid[other[a]] /\ stat'[other[a]] = "run" /\ pc'[other[a]] = "stop"
      <3>1. /\ lock = pid[other[a]] /\ stat[other[a]] = "run" /\ pc[other[a]] = "stop"
            /\ other[a] \in Slot
        BY <1>t, <2>3 DEF Asking, Tracing
      <3> QED  BY <1>c, <1>e, <3>1
    <2> QED  BY <1>s, <1>t, <1>e, <2>1, <2>2, <2>3 DEF Asking
  <1> QED  BY <1>1, <1>2, <1>3, <1>4, <1>5, <1>6, <1>7, <1>8, <1>9 DEF PInv

\* A signal ends the sleep in wait.
LEMMA WaitAbortsInv ==
    ASSUME PInv, UNCHANGED system, NEW p \in Slot, WaitAborts(p)
    PROVE  PInv'
  <1> USE DEF PInv
  <1>s. Slot' = Slot /\ Pid' = Pid
    BY SameSystem
  <1>t. /\ TypesAre /\ 1 \in Slot /\ system' \in Systems
        /\ Numbers /\ InitLives /\ Family /\ Places /\ Copies /\ Waiting /\ Tracing /\ Asking
    BY Types DEF TypesAre
  <1>e. /\ UNCHANGED <<stat, pid, ppid, pgrp, mpid, revived, sig, traced, told, other, lock, req>>
        /\ stat[p] = "run" /\ pc[p] = "wait"
    BY DEF WaitAborts, names, flags, ipc, At
  <1>c. /\ pc' \in [Slot -> {"user", "newproc", "exit", "wait", "stop", "ptraceLock", "ptrace"}]
        /\ pc'[p] = "user" /\ \A s \in Slot \ {p} : pc'[s] = pc[s]
    BY <1>t DEF WaitAborts, TypesAre, Set
  <1> HIDE DEF PInv
  <1>1. TypeOK'
    BY <1>s, <1>t, <1>e, <1>c DEF TypeOK, TypesAre
  <1>2. Numbers'
    BY <1>s, <1>t, <1>e, <1>c DEF Numbers, TypesAre
  <1>3. InitLives'
    BY <1>s, <1>t, <1>e, <1>c DEF InitLives
  <1>4. Family'
    BY <1>s, <1>t, <1>e, <1>c DEF Family, Alive
  <1>5. Places'
    BY <1>s, <1>t, <1>e, <1>c DEF Places
  <1>6. Copies'
    BY <1>s, <1>t, <1>e, <1>c DEF Copies
  <1>7. Waiting'
    BY <1>s, <1>t, <1>e, <1>c DEF Waiting
  <1>8. Tracing'
    BY <1>s, <1>t, <1>e, <1>c DEF Tracing
  <1>9. Asking'
    <2>1. \A a \in Slot : pc'[a] = "ptrace" <=> pc[a] = "ptrace"
      BY <1>c, <1>e
    <2>2. ASSUME NEW a \in Slot, pc[a] = "ptrace"
          PROVE  other'[a] = other[a]
      BY <1>c, <1>e, <2>2
    <2>3. ASSUME NEW a \in Slot, pc[a] = "ptrace", req \in Requests
          PROVE  lock = pid[other[a]] /\ stat'[other[a]] = "run" /\ pc'[other[a]] = "stop"
      <3>1. /\ lock = pid[other[a]] /\ stat[other[a]] = "run" /\ pc[other[a]] = "stop"
            /\ other[a] \in Slot
        BY <1>t, <2>3 DEF Asking, Tracing
      <3> QED  BY <1>c, <1>e, <3>1
    <2> QED  BY <1>s, <1>t, <1>e, <2>1, <2>2, <2>3 DEF Asking
  <1> QED  BY <1>1, <1>2, <1>3, <1>4, <1>5, <1>6, <1>7, <1>8, <1>9 DEF PInv

\* A signal is sent to p.
LEMMA SignalInv ==
    ASSUME PInv, UNCHANGED system, NEW p \in Slot, Signal(p)
    PROVE  PInv'
  <1> USE DEF PInv
  <1>s. Slot' = Slot /\ Pid' = Pid
    BY SameSystem
  <1>t. /\ TypesAre /\ 1 \in Slot /\ system' \in Systems
        /\ Numbers /\ InitLives /\ Family /\ Places /\ Copies /\ Waiting /\ Tracing /\ Asking
    BY Types DEF TypesAre
  <1>e. /\ UNCHANGED <<pid, ppid, pgrp, mpid, revived, traced, told, pc, other, lock, req>>
        /\ p # 1 /\ stat[p] # "free"
    BY DEF Signal, names, flags, ipc
  <1>c. /\ sig' \in [Slot -> BOOLEAN] /\ \A s \in Slot \ {p} : sig'[s] = sig[s]
        /\ stat' \in [Slot -> {"free", "run", "sleep", "idl", "zomb", "stop"}]
        /\ \A s \in Slot \ {p} : stat'[s] = stat[s]
        /\ stat'[p] = stat[p] \/ (stat[p] = "sleep" /\ pc[p] = "wait" /\ stat'[p] = "run")
    <2>1. stat' = IF p \in Waiters(Slot) THEN Set(stat, p, "run") ELSE stat
      BY DEF Signal
    <2>2. p \in Waiters(Slot) <=> stat[p] = "sleep" /\ pc[p] = "wait"
      BY DEF Waiters
    <2>3. sig' = Set(sig, p, TRUE)
      BY DEF Signal
    <2> QED  BY <1>t, <2>1, <2>2, <2>3 DEF TypesAre, Set
  <1> HIDE DEF PInv
  <1>1. TypeOK'
    BY <1>s, <1>t, <1>e, <1>c DEF TypeOK, TypesAre
  <1>2. Numbers'
    BY <1>s, <1>t, <1>e, <1>c DEF Numbers, TypesAre
  <1>3. InitLives'
    BY <1>s, <1>t, <1>e, <1>c DEF InitLives
  <1>4. Family'
    BY <1>s, <1>t, <1>e, <1>c DEF Family, Alive
  <1>5. Places'
    BY <1>s, <1>t, <1>e, <1>c DEF Places
  <1>6. Copies'
    BY <1>s, <1>t, <1>e, <1>c DEF Copies
  <1>7. Waiting'
    BY <1>s, <1>t, <1>e, <1>c DEF Waiting
  <1>8. Tracing'
    BY <1>s, <1>t, <1>e, <1>c DEF Tracing
  <1>9. Asking'
    <2>1. \A a \in Slot : pc'[a] = "ptrace" <=> pc[a] = "ptrace"
      BY <1>c, <1>e
    <2>2. ASSUME NEW a \in Slot, pc[a] = "ptrace"
          PROVE  other'[a] = other[a]
      BY <1>c, <1>e, <2>2
    <2>3. ASSUME NEW a \in Slot, pc[a] = "ptrace", req \in Requests
          PROVE  lock = pid[other[a]] /\ stat'[other[a]] = "run" /\ pc'[other[a]] = "stop"
      <3>1. /\ lock = pid[other[a]] /\ stat[other[a]] = "run" /\ pc[other[a]] = "stop"
            /\ other[a] \in Slot
        BY <1>t, <2>3 DEF Asking, Tracing
      <3> QED  BY <1>c, <1>e, <3>1
    <2> QED  BY <1>s, <1>t, <1>e, <2>1, <2>2, <2>3 DEF Asking
  <1> QED  BY <1>1, <1>2, <1>3, <1>4, <1>5, <1>6, <1>7, <1>8, <1>9 DEF PInv

\* ptrace finds its child.
LEMMA PtraceInv ==
    ASSUME PInv, UNCHANGED system, NEW p \in Slot, Ptrace(p)
    PROVE  PInv'
  <1> USE DEF PInv
  <1>s. Slot' = Slot /\ Pid' = Pid
    BY SameSystem
  <1>t. /\ TypesAre /\ 1 \in Slot /\ system' \in Systems
        /\ Numbers /\ InitLives /\ Family /\ Places /\ Copies /\ Waiting /\ Tracing /\ Asking
    BY Types DEF TypesAre
  <1>e. /\ UNCHANGED <<stat, pid, ppid, pgrp, mpid, revived, sig, traced, told, lock, req>>
        /\ stat[p] = "run" /\ pc[p] = "user"
    BY DEF Ptrace, names, flags, ipc, At
  <1>c. /\ pc' \in [Slot -> {"user", "newproc", "exit", "wait", "stop", "ptraceLock", "ptrace"}]
        /\ pc'[p] = "ptraceLock" /\ \A s \in Slot \ {p} : pc'[s] = pc[s]
        /\ other' \in [Slot -> Slot \cup {0}] /\ \A s \in Slot \ {p} : other'[s] = other[s]
        /\ other'[p] \in Slot /\ ppid[other'[p]] = pid[p] /\ stat[other'[p]] = "stop"
    BY <1>t DEF Ptrace, Children, TypesAre, Set
  <1> HIDE DEF PInv
  <1>1. TypeOK'
    BY <1>s, <1>t, <1>e, <1>c DEF TypeOK, TypesAre
  <1>2. Numbers'
    BY <1>s, <1>t, <1>e, <1>c DEF Numbers, TypesAre
  <1>3. InitLives'
    BY <1>s, <1>t, <1>e, <1>c DEF InitLives
  <1>4. Family'
    BY <1>s, <1>t, <1>e, <1>c DEF Family, Alive
  <1>5. Places'
    BY <1>s, <1>t, <1>e, <1>c DEF Places
  <1>6. Copies'
    BY <1>s, <1>t, <1>e, <1>c DEF Copies
  <1>7. Waiting'
    BY <1>s, <1>t, <1>e, <1>c DEF Waiting
  <1>8. Tracing'
    BY <1>s, <1>t, <1>e, <1>c DEF Tracing
  <1>9. Asking'
    <2>1. \A a \in Slot : pc'[a] = "ptrace" <=> pc[a] = "ptrace"
      BY <1>c, <1>e
    <2>2. ASSUME NEW a \in Slot, pc[a] = "ptrace"
          PROVE  other'[a] = other[a]
      BY <1>c, <1>e, <2>2
    <2>3. ASSUME NEW a \in Slot, pc[a] = "ptrace", req \in Requests
          PROVE  lock = pid[other[a]] /\ stat'[other[a]] = "run" /\ pc'[other[a]] = "stop"
      <3>1. /\ lock = pid[other[a]] /\ stat[other[a]] = "run" /\ pc[other[a]] = "stop"
            /\ other[a] \in Slot
        BY <1>t, <2>3 DEF Asking, Tracing
      <3> QED  BY <1>c, <1>e, <3>1
    <2> QED  BY <1>s, <1>t, <1>e, <2>1, <2>2, <2>3 DEF Asking
  <1> QED  BY <1>1, <1>2, <1>3, <1>4, <1>5, <1>6, <1>7, <1>8, <1>9 DEF PInv

\* ptrace waits for the lock.
LEMMA PtraceWaitsInv ==
    ASSUME PInv, UNCHANGED system, NEW p \in Slot, PtraceWaits(p)
    PROVE  PInv'
  <1> USE DEF PInv
  <1>s. Slot' = Slot /\ Pid' = Pid
    BY SameSystem
  <1>t. /\ TypesAre /\ 1 \in Slot /\ system' \in Systems
        /\ Numbers /\ InitLives /\ Family /\ Places /\ Copies /\ Waiting /\ Tracing /\ Asking
    BY Types DEF TypesAre
  <1>e. /\ UNCHANGED <<pid, ppid, pgrp, mpid, revived, sig, traced, told, pc, other, lock, req>>
        /\ stat[p] = "run" /\ pc[p] = "ptraceLock"
    BY DEF PtraceWaits, names, flags, ipc, At
  <1>c. /\ stat' \in [Slot -> {"free", "run", "sleep", "idl", "zomb", "stop"}] /\ stat'[p] = "sleep"
        /\ \A s \in Slot \ {p} : stat'[s] = stat[s]
    BY <1>t DEF PtraceWaits, TypesAre, Set
  <1> HIDE DEF PInv
  <1>1. TypeOK'
    BY <1>s, <1>t, <1>e, <1>c DEF TypeOK, TypesAre
  <1>2. Numbers'
    BY <1>s, <1>t, <1>e, <1>c DEF Numbers, TypesAre
  <1>3. InitLives'
    BY <1>s, <1>t, <1>e, <1>c DEF InitLives
  <1>4. Family'
    BY <1>s, <1>t, <1>e, <1>c DEF Family, Alive
  <1>5. Places'
    BY <1>s, <1>t, <1>e, <1>c DEF Places
  <1>6. Copies'
    BY <1>s, <1>t, <1>e, <1>c DEF Copies
  <1>7. Waiting'
    BY <1>s, <1>t, <1>e, <1>c DEF Waiting
  <1>8. Tracing'
    BY <1>s, <1>t, <1>e, <1>c DEF Tracing
  <1>9. Asking'
    <2>1. \A a \in Slot : pc'[a] = "ptrace" <=> pc[a] = "ptrace"
      BY <1>c, <1>e
    <2>2. ASSUME NEW a \in Slot, pc[a] = "ptrace"
          PROVE  other'[a] = other[a]
      BY <1>c, <1>e, <2>2
    <2>3. ASSUME NEW a \in Slot, pc[a] = "ptrace", req \in Requests
          PROVE  lock = pid[other[a]] /\ stat'[other[a]] = "run" /\ pc'[other[a]] = "stop"
      <3>1. /\ lock = pid[other[a]] /\ stat[other[a]] = "run" /\ pc[other[a]] = "stop"
            /\ other[a] \in Slot
        BY <1>t, <2>3 DEF Asking, Tracing
      <3> QED  BY <1>c, <1>e, <3>1
    <2> QED  BY <1>s, <1>t, <1>e, <2>1, <2>2, <2>3 DEF Asking
  <1> QED  BY <1>1, <1>2, <1>3, <1>4, <1>5, <1>6, <1>7, <1>8, <1>9 DEF PInv

\* ptrace makes its request, and sets the child running.
LEMMA PtraceSendsInv ==
    ASSUME PInv, UNCHANGED system, NEW p \in Slot, PtraceSends(p)
    PROVE  PInv'
  <1> USE DEF PInv
  <1>s. Slot' = Slot /\ Pid' = Pid
    BY SameSystem
  <1>t. /\ TypesAre /\ 1 \in Slot /\ system' \in Systems
        /\ Numbers /\ InitLives /\ Family /\ Places /\ Copies /\ Waiting /\ Tracing /\ Asking
    BY Types DEF TypesAre
  <1>e. /\ UNCHANGED <<pid, ppid, pgrp, mpid, revived, sig, traced, other>>
        /\ stat[p] = "run" /\ pc[p] = "ptraceLock" /\ lock = 0
    BY DEF PtraceSends, names, At, Locked
  <1>q. /\ other[p] \in Slot /\ ppid[other[p]] = pid[p] /\ stat[other[p]] = "stop"
        /\ pc[other[p]] = "stop" /\ pid[other[p]] # 0 /\ other[p] # p
    BY <1>t, <1>e DEF Tracing, Numbers, Places
  <1>c. /\ lock' = pid[other[p]] /\ req' \in Requests
        /\ told' \in [Slot -> BOOLEAN] /\ \A s \in Slot \ {other[p]} : told'[s] = told[s]
        /\ pc' \in [Slot -> {"user", "newproc", "exit", "wait", "stop", "ptraceLock", "ptrace"}]
        /\ pc'[p] = "ptrace" /\ \A s \in Slot \ {p} : pc'[s] = pc[s]
        /\ stat' \in [Slot -> {"free", "run", "sleep", "idl", "zomb", "stop"}]
        /\ stat'[p] = "sleep" /\ stat'[other[p]] = "run"
        /\ \A s \in Slot \ {p, other[p]} : stat'[s] = stat[s]
    BY <1>t, <1>q DEF PtraceSends, Changes, TypesAre, Set
  <1>l. \A s \in Slot : pc[s] # "ptrace"
    BY <1>t, <1>e DEF Asking
  <1> HIDE DEF PInv
  <1>1. TypeOK'
    BY <1>s, <1>t, <1>e, <1>c, <1>q, <1>l DEF TypeOK, TypesAre
  <1>2. Numbers'
    BY <1>s, <1>t, <1>e, <1>c, <1>q, <1>l DEF Numbers, TypesAre
  <1>3. InitLives'
    BY <1>s, <1>t, <1>e, <1>c, <1>q, <1>l DEF InitLives
  <1>4. Family'
    BY <1>s, <1>t, <1>e, <1>c, <1>q, <1>l DEF Family, Alive
  <1>5. Places'
    BY <1>s, <1>t, <1>e, <1>c, <1>q, <1>l DEF Places
  <1>6. Copies'
    BY <1>s, <1>t, <1>e, <1>c, <1>q, <1>l DEF Copies
  <1>7. Waiting'
    BY <1>s, <1>t, <1>e, <1>c, <1>q, <1>l DEF Waiting
  <1>8. Tracing'
    <2> SUFFICES ASSUME NEW a \in Slot PROVE Tracing!(a)'
      BY <1>s DEF Tracing
    <2>0. other' = other /\ ppid' = ppid /\ pid' = pid
      BY <1>e
    <2>1. CASE a = p
      <3>1. pc'[a] = "ptrace" /\ other'[a] \in Slot /\ ppid'[other'[a]] = pid'[a]
        BY <1>q, <1>c, <2>0, <2>1
      <3> QED  BY <1>s, <3>1
    <2>2. CASE a # p /\ pc[a] = "ptraceLock"
      <3>1. other[a] \in Slot /\ ppid[other[a]] = pid[a] /\ stat[other[a]] = "stop"
        BY <1>t, <2>2 DEF Tracing
      <3>2. other[a] # other[p]
        <4>1. pid[a] # pid[p]
          BY <1>t, <1>e, <2>2 DEF Numbers
        <4> QED  BY <1>q, <3>1, <4>1
      <3>3. other[a] # p
        BY <1>e, <3>1
      <3> QED  BY <1>s, <1>c, <2>0, <3>1, <3>2, <3>3
    <2>3. CASE a # p /\ pc[a] # "ptraceLock"
      <3>1. pc'[a] \notin {"ptraceLock", "ptrace"}
        BY <1>c, <1>l, <2>3
      <3> QED  BY <3>1
    <2> QED  BY <2>1, <2>2, <2>3
  <1>9. Asking'
    <2>1. \A s \in Slot : pc'[s] = "ptrace" <=> s = p
      BY <1>c, <1>l
    <2>2. pc'[other[p]] = "stop"
      BY <1>c, <1>q
    <2> QED  BY <1>s, <1>e, <1>q, <1>c, <2>1, <2>2 DEF Asking
  <1> QED  BY <1>1, <1>2, <1>3, <1>4, <1>5, <1>6, <1>7, <1>8, <1>9 DEF PInv

\* ptrace has its answer and gives up the lock.
LEMMA PtraceEndsInv ==
    ASSUME PInv, UNCHANGED system, NEW p \in Slot, PtraceEnds(p)
    PROVE  PInv'
  <1> USE DEF PInv
  <1>s. Slot' = Slot /\ Pid' = Pid
    BY SameSystem
  <1>t. /\ TypesAre /\ 1 \in Slot /\ system' \in Systems
        /\ Numbers /\ InitLives /\ Family /\ Places /\ Copies /\ Waiting /\ Tracing /\ Asking
    BY Types DEF TypesAre
  <1>e. /\ UNCHANGED <<pid, ppid, pgrp, mpid, revived, sig, traced, told, req>>
        /\ stat[p] = "run" /\ pc[p] = "ptrace" /\ lock' = 0
    BY DEF PtraceEnds, names, flags, At
  <1>c. /\ pc' \in [Slot -> {"user", "newproc", "exit", "wait", "stop", "ptraceLock", "ptrace"}]
        /\ pc'[p] = "user" /\ \A s \in Slot \ {p} : pc'[s] = pc[s]
        /\ other' \in [Slot -> Slot \cup {0}] /\ \A s \in Slot \ {p} : other'[s] = other[s]
    BY <1>t DEF PtraceEnds, TypesAre, Set
  <1>d. /\ stat' \in [Slot -> {"free", "run", "sleep", "idl", "zomb", "stop"}] /\ stat'[p] = "run"
        /\ \A s \in Slot \ {p} : \/ stat'[s] = stat[s]
                                 \/ stat[s] = "sleep" /\ pc[s] # "newproc" /\ stat'[s] = "run"
    <2>1. Changes(Tracers, p, "run")
      BY DEF PtraceEnds
    <2> HIDE DEF PInv
    <2> QED  BY <1>t, <2>1, ChangesIs, TracersSleep
  <1>l. \A s \in Slot : pc[s] = "ptrace" => s = p
    BY <1>t, <1>e DEF Asking
  <1> HIDE DEF PInv
  <1>1. TypeOK'
    BY <1>s, <1>t, <1>e, <1>c, <1>d, <1>l DEF TypeOK, TypesAre
  <1>2. Numbers'
    BY <1>s, <1>t, <1>e, <1>c, <1>d, <1>l DEF Numbers, TypesAre
  <1>3. InitLives'
    BY <1>s, <1>t, <1>e, <1>c, <1>d, <1>l DEF InitLives
  <1>4. Family'
    BY <1>s, <1>t, <1>e, <1>c, <1>d, <1>l DEF Family, Alive
  <1>5. Places'
    BY <1>s, <1>t, <1>e, <1>c, <1>d, <1>l DEF Places
  <1>6. Copies'
    BY <1>s, <1>t, <1>e, <1>c, <1>d, <1>l DEF Copies
  <1>7. Waiting'
    BY <1>s, <1>t, <1>e, <1>c, <1>d, <1>l DEF Waiting
  <1>8. Tracing'
    BY <1>s, <1>t, <1>e, <1>c, <1>d, <1>l DEF Tracing
  <1>9. Asking'
    BY <1>s, <1>t, <1>e, <1>c, <1>d, <1>l DEF Asking, Requests
  <1> QED  BY <1>1, <1>2, <1>3, <1>4, <1>5, <1>6, <1>7, <1>8, <1>9 DEF PInv

\* The copy on the swap device is made: both run.
LEMMA ForkSwappedInv ==
    ASSUME PInv, UNCHANGED system, NEW p \in Slot, ForkSwapped(p)
    PROVE  PInv'
  <1> USE DEF PInv
  <1>s. Slot' = Slot /\ Pid' = Pid
    BY SameSystem
  <1>t. /\ TypesAre /\ 1 \in Slot /\ system' \in Systems
        /\ Numbers /\ InitLives /\ Family /\ Places /\ Copies /\ Waiting /\ Tracing /\ Asking
    BY Types DEF TypesAre
  <1>e. /\ UNCHANGED <<pid, ppid, pgrp, mpid, revived, sig, traced, told, lock, req>>
        /\ stat[p] = "idl" /\ pc[p] = "newproc"
    BY <1>t DEF ForkSwapped, names, flags, ipc, Places
  <1>q. /\ other[p] \in Slot /\ stat[other[p]] = "sleep" /\ pc[other[p]] = "newproc" /\ other[p] # p
        /\ \A r \in Slot \ {p} : stat[r] = "idl" => other[r] # other[p]
    BY <1>t, <1>e DEF Copies
  <1>c. /\ pc' \in [Slot -> {"user", "newproc", "exit", "wait", "stop", "ptraceLock", "ptrace"}]
        /\ pc'[p] = "user" /\ pc'[other[p]] = "user"
        /\ \A s \in Slot \ {p, other[p]} : pc'[s] = pc[s]
        /\ stat' \in [Slot -> {"free", "run", "sleep", "idl", "zomb", "stop"}]
        /\ stat'[p] = "run"
        /\ stat'[other[p]] = "run"
        /\ \A s \in Slot \ {p, other[p]} : stat'[s] = stat[s]
        /\ other' \in [Slot -> Slot \cup {0}] /\ \A s \in Slot \ {p} : other'[s] = other[s]
    BY <1>t, <1>q DEF ForkSwapped, TypesAre, Set
  <1> HIDE DEF PInv
  <1>1. TypeOK'
    BY <1>s, <1>t, <1>e, <1>c, <1>q DEF TypeOK, TypesAre
  <1>2. Numbers'
    BY <1>s, <1>t, <1>e, <1>c, <1>q DEF Numbers, TypesAre
  <1>3. InitLives'
    BY <1>s, <1>t, <1>e, <1>c, <1>q DEF InitLives
  <1>4. Family'
    BY <1>s, <1>t, <1>e, <1>c, <1>q DEF Family, Alive
  <1>5. Places'
    BY <1>s, <1>t, <1>e, <1>c, <1>q DEF Places
  <1>6. Copies'
    BY <1>s, <1>t, <1>e, <1>c, <1>q DEF Copies
  <1>7. Waiting'
    BY <1>s, <1>t, <1>e, <1>c, <1>q DEF Waiting
  <1>8. Tracing'
    BY <1>s, <1>t, <1>e, <1>c, <1>q DEF Tracing
  <1>9. Asking'
    <2>1. \A a \in Slot : pc'[a] = "ptrace" <=> pc[a] = "ptrace"
      BY <1>c, <1>e, <1>q
    <2>2. ASSUME NEW a \in Slot, pc[a] = "ptrace"
          PROVE  other'[a] = other[a]
      BY <1>c, <1>e, <1>q, <2>2
    <2>3. ASSUME NEW a \in Slot, pc[a] = "ptrace", req \in Requests
          PROVE  lock = pid[other[a]] /\ stat'[other[a]] = "run" /\ pc'[other[a]] = "stop"
      <3>1. /\ lock = pid[other[a]] /\ stat[other[a]] = "run" /\ pc[other[a]] = "stop"
            /\ other[a] \in Slot
        BY <1>t, <2>3 DEF Asking, Tracing
      <3> QED  BY <1>c, <1>e, <1>q, <3>1
    <2> QED  BY <1>s, <1>t, <1>e, <2>1, <2>2, <2>3 DEF Asking
  <1> QED  BY <1>1, <1>2, <1>3, <1>4, <1>5, <1>6, <1>7, <1>8, <1>9 DEF PInv

-----------------------------------------------------------------------------
(* The end of exit, wait and fork.                                         *)

\* A process becomes a zombie: init inherits its children.
LEMMA ExitEndsInv ==
    ASSUME PInv, UNCHANGED system, NEW p \in Slot, ExitEnds(p)
    PROVE  PInv'
  <1> USE DEF PInv
  <1>s. Slot' = Slot /\ Pid' = Pid
    BY SameSystem
  <1>t. /\ TypesAre /\ 1 \in Slot /\ system' \in Systems
        /\ Numbers /\ InitLives /\ Family /\ Places /\ Copies /\ Waiting /\ Tracing /\ Asking
    BY Types DEF TypesAre
  <1>e. /\ UNCHANGED <<pid, pgrp, mpid, revived, sig, traced, told, pc, other, lock, req>>
        /\ stat[p] = "run" /\ pc[p] = "exit"
    BY DEF ExitEnds, flags, ipc, At
  <1>q. /\ p # 1 /\ pid[p] # 0 /\ pid[1] = 1 /\ ppid[p] # 0
        /\ \A r \in Slot : pid[r] = pid[p] => r = p
    BY <1>t, <1>e DEF InitLives, Numbers, Family, TypesAre, Alive
  <1>c. /\ ppid' \in [Slot -> Pid \cup {0}]
        /\ \A s \in Slot : ppid[s] = pid[p] => ppid'[s] = 1
        /\ \A s \in Slot : ppid[s] # pid[p] => ppid'[s] = ppid[s]
    <2>1. ppid' = [s \in Slot |-> IF ppid[s] = pid[p] THEN 1 ELSE ppid[s]]
      BY DEF ExitEnds, Orphans, Children
    <2> QED  BY <1>t, <2>1, Types DEF TypesAre
  <1>d. /\ stat' \in [Slot -> {"free", "run", "sleep", "idl", "zomb", "stop"}] /\ stat'[p] = "zomb"
        /\ \A s \in Slot \ {p} :
             \/ stat'[s] = stat[s] /\ ~ (stat[s] = "stop" /\ ppid[s] = pid[p])
             \/ stat'[s] = "run" /\ stat[s] = "sleep" /\ pc[s] = "wait"
             \/ stat'[s] = "run" /\ stat[s] = "stop" /\ ppid[s] = pid[p]
        /\ \A w \in Slot \ {p} : stat[w] = "sleep" /\ pc[w] = "wait"
              /\ (pid[w] = ppid[p] \/ (w = 1 /\ \E s \in Slot : ppid[s] = pid[p]))
              => stat'[w] = "run"
    <2> DEFINE S == Stopped(p) \cup Parent(p) \cup (IF Orphans(p) = {} THEN {} ELSE Waiters({1}))
    <2>1. Changes(S, p, "zomb")
      BY DEF ExitEnds
    <2> HIDE DEF PInv
    <2>2. /\ \A s \in Parent(p) : s \in Slot /\ stat[s] = "sleep" /\ pc[s] = "wait"
          /\ \A r \in Slot : pid[r] = ppid[p] /\ stat[r] = "sleep" /\ pc[r] = "wait" => r \in Parent(p)
      BY <1>q, ParentIs
    <2>3. \A s \in Slot : s \in Stopped(p) <=> stat[s] = "stop" /\ ppid[s] = pid[p]
      BY DEF Stopped, Orphans, Children
    <2>4. (Orphans(p) = {}) <=> ~ \E s \in Slot : ppid[s] = pid[p]
      BY DEF Orphans, Children
    <2>5. \A s : s \in Waiters({1}) <=> s = 1 /\ stat[1] = "sleep" /\ pc[1] = "wait"
      BY DEF Waiters
    <2>6. \A s \in S : \/ s \in Slot /\ stat[s] = "stop" /\ ppid[s] = pid[p]
                       \/ stat[s] = "sleep" /\ pc[s] = "wait"
      BY <2>2, <2>3, <2>5 DEF Stopped, Orphans, Children
    <2>7. \A w \in Slot : stat[w] = "sleep" /\ pc[w] = "wait"
              /\ (pid[w] = ppid[p] \/ (w = 1 /\ \E s \in Slot : ppid[s] = pid[p]))
              => w \in S
      BY <2>2, <2>4, <2>5
    <2>8. \A s \in Slot : stat[s] = "stop" /\ ppid[s] = pid[p] => s \in S
      BY <2>3
    <2> HIDE DEF S
    <2>9. stat' = [s \in Slot |-> IF s = p THEN "zomb" ELSE IF s \in S THEN "run" ELSE stat[s]]
      BY <2>1 DEF Changes
    <2> QED  BY <1>t, <2>6, <2>7, <2>8, <2>9 DEF TypesAre
  <1> HIDE DEF PInv
  <1>1. TypeOK'
    BY <1>s, <1>t, <1>e, <1>q, <1>c, <1>d DEF TypeOK, TypesAre
  <1>2. Numbers'
    BY <1>s, <1>t, <1>e, <1>q, <1>c, <1>d DEF Numbers, TypesAre
  <1>3. InitLives'
    BY <1>s, <1>t, <1>e, <1>q, <1>c, <1>d DEF InitLives
  <1>4. Family'
    <2>1. ASSUME NEW s \in Slot \ {1}, stat'[s] # "free"
          PROVE  \E r \in Slot : Alive(r)' /\ pid[r] = ppid'[s]
      <3>1. PICK r \in Slot : Alive(r) /\ pid[r] = ppid[s]
        BY <1>t, <1>d, <1>e, <2>1 DEF Family
      <3>2. CASE ppid[s] = pid[p]
        <4>1. stat[1] # "free" /\ stat[1] # "zomb"
          BY <1>t, <1>q DEF Numbers, InitLives, Places
        <4>2. Alive(1)'
          BY <1>t, <1>d, <1>q, <4>1 DEF Alive
        <4> QED  BY <1>t, <1>c, <1>q, <3>2, <4>2
      <3>3. CASE ppid[s] # pid[p]
        <4>1. r # p
          BY <3>1, <3>3
        <4>2. Alive(r)'
          BY <1>d, <3>1, <4>1 DEF Alive
        <4> QED  BY <1>c, <3>1, <3>3, <4>2
      <3> QED  BY <3>2, <3>3
    <2> QED  BY <1>s, <1>e, <2>1 DEF Family
  <1>5. Places'
    BY <1>s, <1>t, <1>e, <1>q, <1>c, <1>d DEF Places
  <1>6. Copies'
    BY <1>s, <1>t, <1>e, <1>q, <1>c, <1>d DEF Copies
  <1>7. Waiting'
    <2>1. ASSUME NEW w \in Slot, pc[w] = "wait" PROVE \E x \in Slot : ppid'[x] = pid[w]
      <3>1. PICK x \in Slot : ppid[x] = pid[w]
        BY <1>t, <2>1 DEF Waiting
      <3>2. ppid[x] # pid[p]
        BY <1>e, <1>q, <2>1, <3>1
      <3> QED  BY <1>c, <3>1, <3>2
    <2>2. ASSUME NEW w \in Slot, NEW x \in Slot, stat'[w] = "sleep", pc[w] = "wait", ppid'[x] = pid[w]
          PROVE  stat'[x] # "zomb" /\ (stat'[x] = "stop" => told[x])
      <3>1. w # p /\ stat[w] = "sleep"
        BY <1>d, <2>2
      <3>2. ppid[x] # pid[p]
        <4>1. SUFFICES ASSUME ppid[x] = pid[p] PROVE FALSE
          OBVIOUS
        <4>2. pid[w] = 1
          BY <1>c, <2>2, <4>1
        <4>3. w = 1
          BY <1>t, <1>q, <4>2 DEF Numbers
        <4> QED  BY <1>d, <2>2, <3>1, <4>1, <4>3
      <3>3. ppid[x] = pid[w]
        BY <1>c, <2>2, <3>2
      <3>4. x # p
        BY <1>d, <2>2, <3>1, <3>3
      <3>5. stat[x] # "zomb" /\ (stat[x] = "stop" => told[x])
        BY <1>t, <2>2, <3>1, <3>3 DEF Waiting
      <3> QED  BY <1>d, <3>4, <3>5
    <2> QED  BY <1>s, <1>e, <2>1, <2>2 DEF Waiting
  <1>8. Tracing'
    <2>1. ASSUME NEW a \in Slot, pc[a] \in {"ptraceLock", "ptrace"}
          PROVE  /\ other[a] \in Slot /\ ppid'[other[a]] = pid[a]
                 /\ pc[a] = "ptraceLock" => stat'[other[a]] = "stop"
      <3>1. /\ other[a] \in Slot
            /\ ppid[other[a]] = pid[a]
            /\ pc[a] = "ptraceLock" => stat[other[a]] = "stop"
        BY <1>t, <2>1 DEF Tracing
      <3>2. ppid[other[a]] # pid[p]
        BY <1>e, <1>q, <2>1, <3>1
      <3>3. ppid'[other[a]] = pid[a]
        BY <1>c, <3>1, <3>2
      <3>4. ASSUME pc[a] = "ptraceLock" PROVE stat'[other[a]] = "stop"
        BY <1>d, <1>e, <3>1, <3>2, <3>4
      <3> QED  BY <3>1, <3>3, <3>4
    <2> QED  BY <1>s, <1>e, <2>1 DEF Tracing
  <1>9. Asking'
    <2>1. ASSUME NEW a \in Slot, pc[a] = "ptrace", req \in Requests
          PROVE  lock = pid[other[a]] /\ stat'[other[a]] = "run" /\ pc[other[a]] = "stop"
      <3>1. /\ lock = pid[other[a]] /\ stat[other[a]] = "run" /\ pc[other[a]] = "stop"
            /\ other[a] \in Slot
        BY <1>t, <2>1 DEF Asking, Tracing
      <3> QED  BY <1>d, <1>e, <3>1
    <2> QED  BY <1>s, <1>t, <1>e, <2>1 DEF Asking
  <1> QED  BY <1>1, <1>2, <1>3, <1>4, <1>5, <1>6, <1>7, <1>8, <1>9 DEF PInv

\* wait lays a zombie to rest.
LEMMA WaitReapsInv ==
    ASSUME PInv, UNCHANGED system, NEW p \in Slot, WaitReaps(p)
    PROVE  PInv'
  <1> USE DEF PInv
  <1>s. Slot' = Slot /\ Pid' = Pid
    BY SameSystem
  <1>t. /\ TypesAre /\ 1 \in Slot /\ system' \in Systems
        /\ Numbers /\ InitLives /\ Family /\ Places /\ Copies /\ Waiting /\ Tracing /\ Asking
    BY Types DEF TypesAre
  <1> DEFINE q == Min(News(p))
  <1>e. /\ UNCHANGED <<mpid, other, lock, req>>
        /\ stat[p] = "run" /\ pc[p] \in {"user", "wait"}
    BY DEF WaitReaps, InWait, ipc, At
  <1>q. /\ q \in Slot /\ q # p /\ stat[q] = "zomb" /\ pc[q] = "exit" /\ ppid[q] = pid[p] /\ q # 1
        /\ pid[p] # 0 /\ pid[q] # 0 /\ \A r \in Slot : pid[r] = pid[p] => r = p
    <2>1. News(p) \in SUBSET Nat /\ News(p) # {}
      BY Types DEF News, Children, WaitReaps
    <2>2. q \in News(p) /\ stat[q] = "zomb"
      BY <2>1, MinIs DEF WaitReaps
    <2>3. q \in Slot /\ ppid[q] = pid[p]
      BY <2>2 DEF News, Children
    <2> HIDE DEF q
    <2> QED  BY <1>t, <1>e, <2>2, <2>3 DEF InitLives, Numbers, Places
  <1>w. /\ stat' = Set(stat, q, "free") /\ pid' = Set(pid, q, 0)
        /\ ppid' = Set(ppid, q, 0) /\ pgrp' = Set(pgrp, q, 0) /\ sig' = Set(sig, q, FALSE)
        /\ traced' = Set(traced, q, FALSE) /\ told' = Set(told, q, FALSE)
        /\ pc' = [pc EXCEPT ![p] = "user", ![q] = "user"]
    BY DEF WaitReaps, NoSig
  <1> HIDE DEF q
  <1>c. /\ stat' \in [Slot -> {"free", "run", "sleep", "idl", "zomb", "stop"}] /\ stat'[q] = "free"
        /\ pid' \in [Slot -> Pid \cup {0}] /\ pid'[q] = 0
        /\ ppid' \in [Slot -> Pid \cup {0}] /\ ppid'[q] = 0
        /\ pgrp' \in [Slot -> Pid \cup {0}] /\ pgrp'[q] = 0
        /\ sig' \in [Slot -> BOOLEAN] /\ sig'[q] = FALSE
        /\ traced' \in [Slot -> BOOLEAN] /\ traced'[q] = FALSE
        /\ told' \in [Slot -> BOOLEAN]
        /\ pc' \in [Slot -> {"user", "newproc", "exit", "wait", "stop", "ptraceLock", "ptrace"}]
        /\ pc'[q] = "user"
        /\ pc'[p] = "user"
        /\ revived' \subseteq Pid
    <2>1. revived' \subseteq Pid
      BY <1>t DEF WaitReaps, StillGroups, TypesAre
    <2> QED  BY <1>t, <1>q, <1>w, <2>1 DEF TypesAre, Set
  <1>d. \A s \in Slot \ {q} :
          /\ stat'[s] = stat[s] /\ pid'[s] = pid[s] /\ ppid'[s] = ppid[s] /\ pgrp'[s] = pgrp[s]
          /\ sig'[s] = sig[s] /\ traced'[s] = traced[s] /\ told'[s] = told[s]
          /\ (s # p => pc'[s] = pc[s])
    BY <1>t, <1>q, <1>w DEF TypesAre, Set
  <1> HIDE DEF PInv
  <1>1. TypeOK'
    BY <1>s, <1>t, <1>e, <1>q, <1>c, <1>d DEF TypeOK, TypesAre
  <1>2. Numbers'
    BY <1>s, <1>t, <1>e, <1>q, <1>c, <1>d DEF Numbers, TypesAre
  <1>3. InitLives'
    BY <1>s, <1>t, <1>e, <1>q, <1>c, <1>d DEF InitLives
  <1>4. Family'
    BY <1>s, <1>t, <1>e, <1>q, <1>c, <1>d DEF Family, Alive
  <1>5. Places'
    BY <1>s, <1>t, <1>e, <1>q, <1>c, <1>d DEF Places
  <1>6. Copies'
    BY <1>s, <1>t, <1>e, <1>q, <1>c, <1>d DEF Copies
  <1>7. Waiting'
    <2>1. ASSUME NEW w \in Slot, pc'[w] = "wait" PROVE \E x \in Slot : ppid'[x] = pid'[w]
      <3>1. w # p /\ w # q /\ pc[w] = "wait"
        BY <1>c, <1>d, <2>1
      <3>2. PICK x \in Slot : ppid[x] = pid[w]
        BY <1>t, <3>1 DEF Waiting
      <3>3. x # q
        BY <1>q, <3>1, <3>2
      <3> QED  BY <1>d, <3>1, <3>2, <3>3
    <2>2. ASSUME NEW w \in Slot, NEW x \in Slot, stat'[w] = "sleep", pc'[w] = "wait", ppid'[x] = pid'[w]
          PROVE  stat'[x] # "zomb" /\ (stat'[x] = "stop" => told'[x])
      <3>1. w # p /\ w # q /\ pc[w] = "wait" /\ stat[w] = "sleep" /\ pid'[w] = pid[w]
        BY <1>c, <1>d, <2>2
      <3>2. pid[w] # 0
        BY <1>t, <3>1 DEF Numbers
      <3>3. x # q
        BY <1>c, <2>2, <3>1, <3>2
      <3>4. stat[x] # "zomb" /\ (stat[x] = "stop" => told[x])
        BY <1>t, <1>d, <2>2, <3>1, <3>3 DEF Waiting
      <3> QED  BY <1>d, <3>3, <3>4
    <2> QED  BY <1>s, <2>1, <2>2 DEF Waiting
  <1>8. Tracing'
    <2>1. ASSUME NEW a \in Slot, pc'[a] \in {"ptraceLock", "ptrace"}
          PROVE  /\ other[a] \in Slot /\ ppid'[other[a]] = pid'[a]
                 /\ pc'[a] = "ptraceLock" => stat'[other[a]] = "stop"
      <3>1. a # p /\ a # q /\ pc'[a] = pc[a] /\ pid'[a] = pid[a]
        BY <1>c, <1>d, <2>1
      <3>2. /\ other[a] \in Slot
            /\ ppid[other[a]] = pid[a]
            /\ pc[a] = "ptraceLock" => stat[other[a]] = "stop"
        BY <1>t, <2>1, <3>1 DEF Tracing
      <3>3. other[a] # q
        BY <1>q, <3>1, <3>2
      <3> QED  BY <1>d, <3>1, <3>2, <3>3
    <2> QED  BY <1>s, <1>e, <2>1 DEF Tracing
  <1>9. Asking'
    <2>1. \A a \in Slot : pc'[a] = "ptrace" <=> pc[a] = "ptrace"
      BY <1>c, <1>d, <1>e, <1>q
    <2>2. ASSUME NEW a \in Slot, pc[a] = "ptrace", req \in Requests
          PROVE  lock = pid'[other[a]] /\ stat'[other[a]] = "run" /\ pc'[other[a]] = "stop"
      <3>1. /\ lock = pid[other[a]] /\ stat[other[a]] = "run" /\ pc[other[a]] = "stop"
            /\ other[a] \in Slot
        BY <1>t, <2>2 DEF Asking, Tracing
      <3>2. other[a] # q /\ other[a] # p
        BY <1>e, <1>q, <3>1
      <3> QED  BY <1>d, <3>1, <3>2
    <2> QED  BY <1>s, <1>t, <1>e, <2>1, <2>2 DEF Asking
  <1> QED  BY <1>1, <1>2, <1>3, <1>4, <1>5, <1>6, <1>7, <1>8, <1>9 DEF PInv

-----------------------------------------------------------------------------
(* fork and its numbers.                                                   *)

\* There are fewer than MAXPID - 1 numbers of processes and groups in use.
LEMMA NumbersAreLeft ==
    ASSUME TypeOK
    PROVE  \E n \in Pid : ~ Taken(n)
  <1>1. /\ NPROC \in Nat \ {0} /\ MAXPID \in Nat /\ MAXPID > 2 * NPROC + 1
    BY ProcAssumption DEF TypeOK, NPROC, MAXPID
  <1> DEFINE Has(n, k) == \E s \in Slot : (k = s /\ pid[s] = n) \/ (k = NPROC + s /\ pgrp[s] = n)
             f == [n \in Pid |-> CHOOSE k \in 1 .. 2 * NPROC : Has(n, k)]
  <1>2. SUFFICES ASSUME \A n \in Pid : Taken(n) PROVE FALSE
    OBVIOUS
  <1>3. ASSUME NEW n \in Pid PROVE f[n] \in 1 .. 2 * NPROC /\ Has(n, f[n])
    <2>1. PICK s \in Slot : pid[s] = n \/ pgrp[s] = n
      BY <1>2 DEF Taken
    <2>2. s \in 1 .. 2 * NPROC /\ NPROC + s \in 1 .. 2 * NPROC
      BY <1>1 DEF Slot
    <2>3. \E k \in 1 .. 2 * NPROC : Has(n, k)
      BY <2>1, <2>2
    <2> HIDE DEF Has
    <2> QED  BY <2>3
  <1>4. f \in [Pid -> 1 .. 2 * NPROC]
    BY <1>3
  <1>5. ASSUME NEW m \in Pid, NEW n \in Pid, f[m] = f[n] PROVE m = n
    <2> DEFINE k == f[m]
    <2>1. Has(m, k) /\ Has(n, k)
      BY <1>3, <1>5
    <2> HIDE DEF k, f
    <2>2. PICK r \in Slot : (k = r /\ pid[r] = m) \/ (k = NPROC + r /\ pgrp[r] = m)
      BY <2>1
    <2>3. PICK s \in Slot : (k = s /\ pid[s] = n) \/ (k = NPROC + s /\ pgrp[s] = n)
      BY <2>1
    <2>4. r \in 1 .. NPROC /\ s \in 1 .. NPROC
      BY DEF Slot
    <2>5. \/ r = s /\ pid[r] = m /\ pid[s] = n
          \/ r = s /\ pgrp[r] = m /\ pgrp[s] = n
      BY <1>1, <2>2, <2>3, <2>4
    <2> QED  BY <2>5
  <1>6. f \in Injection(Pid, 1 .. 2 * NPROC)
    BY <1>4, <1>5 DEF Injection, IsInjective
  <1>7. Cardinality(1 .. 2 * NPROC) = 2 * NPROC /\ IsFiniteSet(1 .. 2 * NPROC)
    BY <1>1, FS_Interval
  <1>8. Cardinality(Pid) = MAXPID - 1
    BY <1>1, FS_Interval DEF Pid
  <1> HIDE DEF f
  <1>9. Cardinality(Pid) <= Cardinality(1 .. 2 * NPROC)
    BY <1>6, <1>7, FS_Injection
  <1> QED  BY <1>1, <1>7, <1>8, <1>9

\* What newproc tries are numbers, and all there are.
LEMMA AllAreTried ==
    ASSUME TypeOK
    PROVE  /\ \A i \in 1 .. MAXPID - 1 : Tried[i] \in Pid
           /\ \A n \in Pid : \E i \in 1 .. MAXPID - 1 : Tried[i] = n
  <1> DEFINE I == 1 .. MAXPID - 1
             T(g) == [i \in I |-> IF i = 1 THEN Following(mpid) ELSE Following(g[i - 1])]
             c == [i \in I |-> IF mpid + i < MAXPID THEN mpid + i ELSE mpid + i - (MAXPID - 1)]
  <1>1. /\ MAXPID \in Nat /\ MAXPID > 2 /\ mpid \in 1 .. MAXPID - 1
    BY ProcAssumption DEF TypeOK, Pid, NPROC, MAXPID
  <1>2. c = T(c)
    <2>1. ASSUME NEW i \in I PROVE c[i] = IF i = 1 THEN Following(mpid) ELSE Following(c[i - 1])
      <3>1. CASE i = 1
        BY <1>1, <3>1 DEF Following
      <3>2. CASE i # 1
        <4>1. i - 1 \in I
          BY <1>1, <3>2
        <4>2. c[i - 1] = IF mpid + (i - 1) < MAXPID THEN mpid + (i - 1)
                         ELSE mpid + (i - 1) - (MAXPID - 1)
          BY <4>1
        <4> QED  BY <1>1, <3>2, <4>2 DEF Following
      <3> QED  BY <3>1, <3>2
    <2> QED  BY <2>1
  <1>3. Tried = T(Tried)
    <2>1. Tried = CHOOSE g : g = T(g)
      BY DEF Tried
    <2> HIDE DEF c, T
    <2> QED  BY <1>2, <2>1
  <1>4. \A i \in I : Tried[i] = IF i = 1 THEN Following(mpid) ELSE Following(Tried[i - 1])
    <2>1. ASSUME NEW i \in I PROVE Tried[i] = T(Tried)[i]
      BY <1>3
    <2> QED  BY <2>1
  <1>5. \A i \in I : c[i] = IF i = 1 THEN Following(mpid) ELSE Following(c[i - 1])
    <2>1. ASSUME NEW i \in I PROVE c[i] = T(c)[i]
      BY <1>2
    <2> QED  BY <2>1
  <1>6. \A i \in I : Tried[i] = c[i]
    <2> DEFINE S == {i \in I : Tried[i] # c[i]}
    <2> SUFFICES ASSUME S # {} PROVE FALSE
      BY DEF S
    <2>1. S \in SUBSET Nat
      BY <1>1
    <2>2. PICK i \in S : \A k \in S : i <= k
      <3> HIDE DEF S
      <3> QED  BY <2>1, Least
    <2> HIDE DEF c
    <2>3. CASE i = 1
      BY <1>4, <1>5, <2>2, <2>3
    <2>4. CASE i # 1
      <3>1. i - 1 \in I /\ i - 1 \notin S
        BY <1>1, <2>2, <2>4
      <3>2. Tried[i - 1] = c[i - 1]
        BY <3>1
      <3> QED  BY <1>4, <1>5, <2>2, <2>4, <3>2
    <2> QED  BY <2>3, <2>4
  <1>7. ASSUME NEW n \in Pid PROVE \E i \in I : c[i] = n
    <2>1. n \in 1 .. MAXPID - 1
      BY DEF Pid
    <2>2. CASE n > mpid
      <3>1. n - mpid \in I /\ c[n - mpid] = n
        BY <1>1, <2>1, <2>2
      <3> QED  BY <3>1
    <2>3. CASE ~ (n > mpid)
      <3>1. n - mpid + (MAXPID - 1) \in I /\ c[n - mpid + (MAXPID - 1)] = n
        BY <1>1, <2>1, <2>3
      <3> QED  BY <3>1
    <2> QED  BY <2>2, <2>3
  <1>8. \A i \in I : c[i] \in Pid
    BY <1>1 DEF Pid
  <1> HIDE DEF c
  <1> QED  BY <1>6, <1>7, <1>8

\* newproc finds a number that no process and no group has.
LEMMA NextPidIsNew ==
    ASSUME TypeOK
    PROVE  NextPid \in Pid /\ \A s \in Slot : pid[s] # NextPid /\ pgrp[s] # NextPid
  <1> DEFINE I == 1 .. MAXPID - 1
             S == {i \in I : ~ Taken(Tried[i])}
             P(i) == ~ Taken(Tried[i]) /\ \A j \in 1 .. i - 1 : Taken(Tried[j])
  <1>1. MAXPID \in Nat /\ MAXPID > 2 /\ mpid \in 1 .. MAXPID - 1
    BY ProcAssumption DEF TypeOK, Pid, NPROC, MAXPID
  <1>2. S \in SUBSET Nat /\ S # {}
    <2>1. PICK n \in Pid : ~ Taken(n)
      BY NumbersAreLeft
    <2>2. PICK i \in I : Tried[i] = n
      BY AllAreTried
    <2> QED  BY <1>1, <2>1, <2>2
  <1>3. PICK i \in S : \A k \in S : i <= k
    <2> HIDE DEF S
    <2> QED  BY <1>2, Least
  <1>4. i \in I /\ P(i)
    <2>1. ASSUME NEW j \in 1 .. i - 1 PROVE Taken(Tried[j])
      <3>1. j \in I /\ j \notin S
        BY <1>1, <1>3
      <3> QED  BY <3>1
    <2> QED  BY <1>3, <2>1
  <1>5. Retries \in I /\ P(Retries)
    <2>1. Retries = CHOOSE k \in I : P(k)
      BY DEF Retries
    <2> HIDE DEF P, I
    <2> QED  BY <1>4, <2>1
  <1>6. ~ Taken(NextPid)
    BY <1>5 DEF NextPid
  <1>7. NextPid \in Pid
    <2>1. \A k \in I : Tried[k] \in Pid
      BY AllAreTried
    <2> QED  BY <1>5, <2>1 DEF NextPid
  <1> QED  BY <1>6, <1>7 DEF Taken

\* The slot that newproc takes.
LEMMA ForkSlot ==
    ASSUME TypeOK, FreeSlots # {}
    PROVE  Min(FreeSlots) \in Slot /\ stat[Min(FreeSlots)] = "free"
  <1>1. FreeSlots \in SUBSET Nat
    BY Types DEF FreeSlots
  <1>2. Min(FreeSlots) \in FreeSlots
    BY <1>1, MinIs
  <1> QED  BY <1>2 DEF FreeSlots

\* A new process gets the first free slot.
LEMMA ForkInv ==
    ASSUME PInv, UNCHANGED system, NEW p \in Slot, Fork(p)
    PROVE  PInv'
  <1> USE DEF PInv
  <1>s. Slot' = Slot /\ Pid' = Pid
    BY SameSystem
  <1>t. /\ TypesAre /\ 1 \in Slot /\ system' \in Systems
        /\ Numbers /\ InitLives /\ Family /\ Places /\ Copies /\ Waiting /\ Tracing /\ Asking
    BY Types DEF TypesAre
  <1> DEFINE q == Min(FreeSlots)
  <1>e. /\ UNCHANGED <<sig, lock, req>>
        /\ stat[p] = "run" /\ pc[p] = "user"
    BY DEF Fork, ipc, At
  <1>q. /\ q \in Slot /\ stat[q] = "free" /\ q # p /\ q # 1
        /\ pc[q] = "user" /\ ~ sig[q] /\ pid[q] = 0 /\ ppid[q] = 0
        /\ pid[p] # 0
    <2>1. q \in Slot /\ stat[q] = "free"
      BY ForkSlot DEF Fork
    <2> HIDE DEF q
    <2> QED  BY <1>t, <1>e, <2>1 DEF InitLives, Numbers, Places
  <1>n. NextPid \in Pid /\ NextPid # 0 /\ \A s \in Slot : pid[s] # NextPid /\ pgrp[s] # NextPid
    BY NextPidIsNew, Types
  <1>w. /\ NewEntry(p, q)
        /\ \/ stat' = Set(stat, q, "run") /\ UNCHANGED <<pc, other>>
           \/ /\ stat' = [stat EXCEPT ![p] = "idl", ![q] = "sleep"]
              /\ pc' = [pc EXCEPT ![p] = "newproc", ![q] = "newproc"]
              /\ other' = Set(other, p, q)
    BY DEF Fork
  <1> HIDE DEF q
  <1>c. /\ mpid' \in Pid /\ revived' = revived
        /\ pid' \in [Slot -> Pid \cup {0}] /\ pid'[q] = NextPid
        /\ ppid' \in [Slot -> Pid \cup {0}] /\ ppid'[q] = pid[p]
        /\ pgrp' \in [Slot -> Pid \cup {0}]
        /\ traced' \in [Slot -> BOOLEAN] /\ traced'[q] = FALSE
        /\ told' \in [Slot -> BOOLEAN]
        /\ \A s \in Slot \ {q} : pid'[s] = pid[s] /\ ppid'[s] = ppid[s] /\ pgrp'[s] = pgrp[s]
                                 /\ traced'[s] = traced[s] /\ told'[s] = told[s]
    BY <1>t, <1>q, <1>n, <1>w DEF TypesAre, Set, NewEntry
  <1>d. /\ stat' \in [Slot -> {"free", "run", "sleep", "idl", "zomb", "stop"}]
        /\ pc' \in [Slot -> {"user", "newproc", "exit", "wait", "stop", "ptraceLock", "ptrace"}]
        /\ other' \in [Slot -> Slot \cup {0}]
        /\ \A s \in Slot \ {p, q} : stat'[s] = stat[s] /\ pc'[s] = pc[s] /\ other'[s] = other[s]
    BY <1>t, <1>q, <1>w DEF TypesAre, Set
  <1>f. \/ stat'[p] = "run" /\ pc'[p] = "user" /\ stat'[q] = "run" /\ pc'[q] = "user"
        \/ /\ stat'[p] = "idl" /\ pc'[p] = "newproc" /\ other'[p] = q
           /\ stat'[q] = "sleep" /\ pc'[q] = "newproc"
    BY <1>t, <1>q, <1>e, <1>w DEF TypesAre, Set
  <1> HIDE DEF PInv
  <1>1. TypeOK'
    BY <1>s, <1>t, <1>e, <1>q, <1>c, <1>d, <1>f DEF TypeOK, TypesAre
  <1>2. Numbers'
    BY <1>s, <1>t, <1>q, <1>n, <1>c, <1>d, <1>f DEF Numbers, TypesAre
  <1>3. InitLives'
    BY <1>s, <1>t, <1>e, <1>q, <1>c, <1>d, <1>f DEF InitLives
  <1>4. Family'
    <2>1. ASSUME NEW s \in Slot \ {1}, stat'[s] # "free"
          PROVE  \E r \in Slot : Alive(r)' /\ pid'[r] = ppid'[s]
      <3>1. CASE s = q
        BY <1>c, <1>q, <1>f, <3>1 DEF Alive
      <3>2. CASE s # q
        <4>1. stat[s] # "free"
          BY <1>d, <1>e, <2>1, <3>2
        <4>2. PICK r \in Slot : Alive(r) /\ pid[r] = ppid[s]
          BY <1>t, <2>1, <4>1 DEF Family
        <4>3. r # q /\ Alive(r)'
          BY <1>d, <1>f, <1>q, <4>2 DEF Alive
        <4> QED  BY <1>c, <3>2, <4>2, <4>3
      <3> QED  BY <3>1, <3>2
    <2> QED  BY <1>s, <2>1 DEF Family
  <1>5. Places'
    BY <1>s, <1>t, <1>e, <1>q, <1>c, <1>d, <1>f DEF Places
  <1>6. Copies'
    BY <1>s, <1>t, <1>e, <1>q, <1>c, <1>d, <1>f DEF Copies
  <1>7. Waiting'
    <2>1. ASSUME NEW w \in Slot, pc'[w] = "wait" PROVE \E x \in Slot : ppid'[x] = pid'[w]
      <3>1. w # p /\ w # q /\ pc[w] = "wait"
        BY <1>d, <1>f, <2>1
      <3>2. PICK x \in Slot : ppid[x] = pid[w]
        BY <1>t, <3>1 DEF Waiting
      <3>3. pid[w] # 0
        BY <1>t, <3>1 DEF Numbers, Places
      <3>4. x # q
        BY <1>q, <3>2, <3>3
      <3> QED  BY <1>c, <3>1, <3>2, <3>4
    <2>2. ASSUME NEW w \in Slot, NEW x \in Slot, stat'[w] = "sleep", pc'[w] = "wait", ppid'[x] = pid'[w]
          PROVE  stat'[x] # "zomb" /\ (stat'[x] = "stop" => told'[x])
      <3>1. w # p /\ w # q /\ pc[w] = "wait" /\ stat[w] = "sleep" /\ pid'[w] = pid[w]
        BY <1>c, <1>d, <1>f, <2>2
      <3>2. x # q
        BY <1>t, <1>c, <1>q, <2>2, <3>1 DEF Numbers
      <3>3. x # p => stat[x] # "zomb" /\ (stat[x] = "stop" => told[x])
        BY <1>t, <1>c, <2>2, <3>1, <3>2 DEF Waiting
      <3> QED  BY <1>c, <1>d, <1>f, <3>2, <3>3
    <2> QED  BY <1>s, <2>1, <2>2 DEF Waiting
  <1>8. Tracing'
    <2>1. ASSUME NEW a \in Slot, pc'[a] \in {"ptraceLock", "ptrace"}
          PROVE  /\ other'[a] \in Slot /\ ppid'[other'[a]] = pid'[a]
                 /\ pc'[a] = "ptraceLock" => stat'[other'[a]] = "stop"
      <3>1. a # p /\ a # q /\ pc'[a] = pc[a] /\ pid'[a] = pid[a] /\ other'[a] = other[a]
        BY <1>c, <1>d, <1>f, <2>1
      <3>2. /\ other[a] \in Slot
            /\ ppid[other[a]] = pid[a]
            /\ pc[a] = "ptraceLock" => stat[other[a]] = "stop"
        BY <1>t, <2>1, <3>1 DEF Tracing
      <3>3. pid[a] # 0
        BY <1>t, <2>1, <3>1 DEF Numbers, Places
      <3>4. other[a] # q
        BY <1>q, <3>2, <3>3
      <3>5. ppid'[other[a]] = pid[a]
        BY <1>c, <3>2, <3>4
      <3>6. ASSUME pc[a] = "ptraceLock" PROVE stat'[other[a]] = "stop"
        BY <1>d, <1>e, <3>2, <3>4, <3>6
      <3> QED  BY <3>1, <3>2, <3>5, <3>6
    <2> QED  BY <1>s, <2>1 DEF Tracing
  <1>9. Asking'
    <2>1. \A a \in Slot : pc'[a] = "ptrace" <=> pc[a] = "ptrace"
      BY <1>d, <1>e, <1>f, <1>q
    <2>2. ASSUME NEW a \in Slot, pc[a] = "ptrace"
          PROVE  other'[a] = other[a]
      BY <1>d, <1>e, <1>q, <2>2
    <2>3. ASSUME NEW a \in Slot, pc[a] = "ptrace", req \in Requests
          PROVE  lock = pid'[other[a]] /\ stat'[other[a]] = "run" /\ pc'[other[a]] = "stop"
      <3>1. /\ lock = pid[other[a]] /\ stat[other[a]] = "run" /\ pc[other[a]] = "stop"
            /\ other[a] \in Slot
        BY <1>t, <2>3 DEF Asking, Tracing
      <3>2. other[a] # p /\ other[a] # q
        BY <1>e, <1>q, <3>1
      <3> QED  BY <1>c, <1>d, <3>1, <3>2
    <2> QED  BY <1>s, <1>t, <1>e, <2>1, <2>2, <2>3 DEF Asking
  <1> QED  BY <1>1, <1>2, <1>3, <1>4, <1>5, <1>6, <1>7, <1>8, <1>9 DEF PInv

-----------------------------------------------------------------------------
(* The invariant, and what follows from it.                                *)

\* After boot.
LEMMA InitPInv ==
    ASSUME Init
    PROVE  PInv
  <1>1. /\ system \in Systems /\ NPROC \in Nat \ {0} /\ MAXPID \in Nat /\ MAXPID > 2 * NPROC + 1
        /\ system.family \in [2 .. NPROC -> 0 .. NPROC]
        /\ \A s \in 2 .. NPROC : system.family[s] > 1 => system.family[system.family[s]] # 0
    BY ProcAssumption DEF Init, NPROC, MAXPID
  <1>2. /\ 1 \in Slot /\ Slot \subseteq Nat /\ 0 \notin Slot
        /\ 1 \in Pid /\ 0 \notin Pid /\ Slot \subseteq Pid
    BY <1>1 DEF Slot, Pid
  <1>3. /\ There(1) /\ Ancestor(1) = 0
        /\ \A s \in Slot : Ancestor(s) \in Slot \cup {0}
        /\ \A s \in Slot : Ancestor(s) # 0 => There(Ancestor(s))
        /\ \A s \in Slot \ {1} : There(s) <=> Ancestor(s) # 0
    BY <1>1, <1>2 DEF There, Ancestor, Slot
  <1>4. mpid \in Slot
    <2> DEFINE T == {s \in Slot : There(s)}
               U == {NPROC - s : s \in T}
    <2>1. U \in SUBSET Nat /\ U # {}
      BY <1>1, <1>2, <1>3 DEF Slot
    <2>2. PICK u \in U : \A k \in U : u <= k
      BY <2>1, Least
    <2>3. PICK m \in T : u = NPROC - m
      BY <2>2
    <2>4. ASSUME NEW s \in T PROVE m >= s
      <3>1. NPROC - s \in U /\ s \in 1 .. NPROC /\ m \in 1 .. NPROC
        BY DEF Slot
      <3>2. NPROC - m <= NPROC - s
        BY <2>2, <2>3, <3>1
      <3> HIDE DEF T, U
      <3> QED  BY <1>1, <3>1, <3>2
    <2> HIDE DEF T, U
    <2>5. Max(T) \in T
      BY <2>3, <2>4 DEF Max
    <2> QED  BY <2>5 DEF T, Init
  <1>5. /\ stat = [s \in Slot |-> IF There(s) THEN "run" ELSE "free"]
        /\ pid = [s \in Slot |-> IF There(s) THEN s ELSE 0]
        /\ ppid = [s \in Slot |-> Ancestor(s)] /\ pgrp = [s \in Slot |-> 0]
        /\ sig = [s \in Slot |-> FALSE] /\ traced = [s \in Slot |-> Ancestor(s) > 1]
        /\ told = [s \in Slot |-> FALSE] /\ pc = [s \in Slot |-> "user"]
        /\ other = [s \in Slot |-> 0] /\ lock = 0 /\ req = "none" /\ revived = {}
    BY DEF Init
  <1> HIDE DEF There, Ancestor
  <1>6. \A s \in Slot : /\ stat[s] \in {"run", "free"} /\ (stat[s] = "free" <=> ~ There(s))
                        /\ pid[s] = IF There(s) THEN s ELSE 0
                        /\ ppid[s] = Ancestor(s) /\ pgrp[s] = 0 /\ ~ sig[s]
                        /\ (traced[s] <=> Ancestor(s) > 1) /\ pc[s] = "user"
    BY <1>5
  <1>7. TypeOK
    <2>1. /\ stat \in [Slot -> {"free", "run"}] /\ pid \in [Slot -> Pid \cup {0}]
          /\ ppid \in [Slot -> Pid \cup {0}] /\ pgrp \in [Slot -> Pid \cup {0}]
          /\ pc \in [Slot -> {"user"}] /\ other \in [Slot -> Slot \cup {0}]
      BY <1>2, <1>3, <1>5
    <2>2. sig \in [Slot -> BOOLEAN] /\ told \in [Slot -> BOOLEAN]
      BY <1>5
    <2>3. traced \in [Slot -> BOOLEAN]
      BY <1>5
    <2> QED  BY <1>1, <1>2, <1>4, <1>5, <2>1, <2>2, <2>3 DEF TypeOK
  <1>8. Numbers
    BY <1>2, <1>6 DEF Numbers
  <1>9. InitLives
    BY <1>2, <1>3, <1>6 DEF InitLives
  <1>10. Family
    <2>1. ASSUME NEW s \in Slot \ {1}, stat[s] # "free"
          PROVE  \E r \in Slot : Alive(r) /\ pid[r] = ppid[s]
      <3>1. Ancestor(s) \in Slot /\ There(Ancestor(s)) /\ ppid[s] = Ancestor(s)
        BY <1>3, <1>6, <2>1
      <3>2. Alive(Ancestor(s)) /\ pid[Ancestor(s)] = Ancestor(s)
        BY <1>6, <3>1 DEF Alive
      <3> QED  BY <3>1, <3>2
    <2> QED  BY <2>1 DEF Family
  <1>11. Places
    BY <1>2, <1>3, <1>6 DEF Places
  <1>12. Copies /\ Waiting /\ Tracing /\ Asking
    BY <1>5, <1>6 DEF Copies, Waiting, Tracing, Asking
  <1> QED  BY <1>7, <1>8, <1>9, <1>10, <1>11, <1>12 DEF PInv

\* Every step keeps the invariant.
LEMMA NextPInv ==
    ASSUME PInv, [Next]_vars
    PROVE  PInv'
  <1>1. CASE UNCHANGED vars
    BY <1>1 DEF vars, names, flags, ipc, PInv, TypeOK, Numbers, InitLives, Family, Places, Copies,
         Waiting, Tracing, Asking, Alive, Slot, Pid, NPROC, MAXPID
  <1>2. CASE Next
    <2>1. UNCHANGED system
      BY <1>2 DEF Next
    <2>2. PICK p \in Slot : Enters(p) \/ Waits(p) \/ Proceeds(p) \/ Signal(p)
      BY <1>2 DEF Next
    <2>3. CASE Enters(p)
      BY <2>1, <2>3, ForkInv, LeadInv, ExitInv, TraceMeInv, PtraceInv DEF Enters
    <2>4. CASE Waits(p)
      BY <2>1, <2>4, WaitReapsInv, WaitTellsInv, WaitSleepsInv, WaitAbortsInv DEF Waits
    <2>5. CASE Proceeds(p)
      BY <2>1, <2>5, ForkSwappedInv, ExitEndsInv, CaughtInv, DiesInv, StopInv, StopNobodyInv,
         StopLooksInv, StopContinuesInv, StopExitsInv, PtraceWaitsInv, PtraceSendsInv, PtraceEndsInv
         DEF Proceeds
    <2>6. CASE Signal(p)
      BY <2>1, <2>6, SignalInv
    <2> QED  BY <2>2, <2>3, <2>4, <2>5, <2>6
  <1> QED  BY <1>1, <1>2

\* PInv holds always, for every size of the table.
THEOREM ProcInvariance == Spec => []PInv
  <1>1. Init => PInv
    BY InitPInv
  <1>2. PInv /\ [Next]_vars => PInv'
    BY NextPInv
  <1> QED  BY <1>1, <1>2, PTL DEF Spec

\* The table of processes is sound in every state with PInv.
LEMMA PInvIsSound ==
    ASSUME PInv
    PROVE  TableIsSound
  <1>1. /\ TypeOK /\ TypesAre /\ Numbers /\ InitLives /\ Family /\ Places /\ Waiting
    BY Types DEF PInv, TypesAre
  <1>2. ParentsAreAlive
    BY <1>1 DEF ParentsAreAlive, Numbers, Family, Places
  <1>3. FreeSlotsAreClean
    BY <1>1 DEF FreeSlotsAreClean, FreeSlots, Numbers, Places
  <1>4. NobodyMissed
    BY <1>1 DEF NobodyMissed, Waiters, Waiting, Children, News
  <1> QED  BY <1>2, <1>3, <1>4 DEF TableIsSound

\* exit, wait and newproc keep the table of processes sound: numbers are
\* unique, parents alive, free slots clean, and nobody in wait is forgotten.
THEOREM TableStaysSound == Spec => []TableIsSound
  <1>1. PInv => TableIsSound
    BY PInvIsSound
  <1> QED  BY <1>1, ProcInvariance, PTL

\* One process at a time waits for an answer, and has hold of its child.
LEMMA PInvIsOneConversation ==
    ASSUME PInv
    PROVE  OneConversation
  <1> DEFINE askers == {p \in Slot : pc[p] = "ptrace"}
  <1>1. TypesAre /\ Asking /\ Tracing
    BY Types DEF PInv, TypesAre
  <1>2. Cardinality(askers) = IF lock = 0 THEN 0 ELSE 1
    <2>1. CASE lock = 0
      <3>1. askers = {}
        BY <1>1, <2>1 DEF Asking
      <3> QED  BY <2>1, <3>1, FS_EmptySet
    <2>2. CASE lock # 0
      <3>1. PICK p \in Slot : pc[p] = "ptrace"
        BY <1>1, <2>2 DEF Asking
      <3>2. askers = {p}
        BY <1>1, <3>1 DEF Asking
      <3> QED  BY <2>2, <3>2, FS_Singleton
    <2> QED  BY <2>1, <2>2
  <1>3. ASSUME NEW p \in askers
        PROVE  /\ req \in Requests => lock = pid[other[p]] /\ At(other[p], "stop")
               /\ ppid[other[p]] = pid[p]
    BY <1>1 DEF Asking, Tracing, At
  <1> QED  BY <1>2, <1>3 DEF OneConversation

\* ptrace is a conversation of two, of which there is one at a time: the
\* request of one parent never reaches another's child.
THEOREM PtraceIsOneConversation == Spec => []OneConversation
  <1>1. PInv => OneConversation
    BY PInvIsOneConversation
  <1> QED  BY <1>1, ProcInvariance, PTL

\* Nobody has the number of a group of others, when fork makes a process.
LEMMA ForkKeepsLeaders ==
    ASSUME PInv, GroupsHaveLeaders, UNCHANGED system, NEW p \in Slot, Fork(p)
    PROVE  GroupsHaveLeaders'
  <1> DEFINE q == Min(FreeSlots)
  <1>s. Slot' = Slot
    BY SameSystem
  <1>t. TypesAre /\ TypeOK /\ Numbers /\ 0 \notin Pid
    BY Types DEF PInv, TypesAre
  <1>n. NextPid \in Pid /\ \A s \in Slot : pid[s] # NextPid /\ pgrp[s] # NextPid
    BY <1>t, NextPidIsNew
  <1>q. q \in Slot /\ stat[q] = "free" /\ stat[p] = "run"
    BY <1>t, ForkSlot DEF Fork, At
  <1>w. /\ pid' = Set(pid, q, NextPid) /\ pgrp' = Set(pgrp, q, pgrp[p]) /\ revived' = revived
    BY DEF Fork, NewEntry
  <1> HIDE DEF q
  <1>c. /\ pid'[q] = NextPid /\ pgrp'[q] = pgrp[p] /\ p # q
        /\ \A s \in Slot \ {q} : pid'[s] = pid[s] /\ pgrp'[s] = pgrp[s]
    BY <1>t, <1>q, <1>w DEF TypesAre, Set
  <1>1. ASSUME NEW s \in Slot, NEW t \in Slot,
               pgrp'[s] # 0, pgrp'[s] = pid'[t], pgrp'[s] \notin revived'
        PROVE  pgrp'[t] = pid'[t]
    <2>1. PICK r \in Slot : pgrp'[s] = pgrp[r]
      BY <1>c
    <2>2. t # q
      BY <1>c, <1>n, <1>1, <2>1
    <2> QED  BY <1>c, <1>w, <1>1, <2>1, <2>2 DEF GroupsHaveLeaders
  <1> QED  BY <1>s, <1>1 DEF GroupsHaveLeaders

\* A process that gets a group leads it, or it has members, or it died out.
LEMMA LeadKeepsLeaders ==
    ASSUME PInv, GroupsHaveLeaders, UNCHANGED system, NEW p \in Slot, Lead(p)
    PROVE  GroupsHaveLeaders'
  <1>s. Slot' = Slot
    BY SameSystem
  <1>t. TypesAre /\ Numbers /\ 0 \notin Pid
    BY Types DEF PInv, TypesAre
  <1>1. PICK g : /\ g # 0 /\ pgrp[p] = 0 /\ pgrp' = Set(pgrp, p, g) /\ pid' = pid
                 /\ revived' = IF g = pid[p] \/ Members(g) # {} THEN revived ELSE revived \cup {g}
    BY DEF Lead
  <1>2. pgrp'[p] = g /\ \A s \in Slot \ {p} : pgrp'[s] = pgrp[s]
    BY <1>t, <1>1 DEF TypesAre, Set
  <1>3. ASSUME NEW s \in Slot, NEW t \in Slot,
               pgrp'[s] # 0, pgrp'[s] = pid[t], pgrp'[s] \notin revived'
        PROVE  pgrp'[t] = pid[t]
    <2>0. pgrp'[s] \notin revived
      BY <1>1, <1>3
    <2>1. CASE s # p
      <3>1. pgrp[t] = pid[t]
        BY <1>2, <1>3, <2>0, <2>1 DEF GroupsHaveLeaders
      <3> QED  BY <1>1, <1>2, <1>3, <2>1, <3>1
    <2>2. CASE s = p /\ g = pid[p]
      BY <1>t, <1>1, <1>2, <1>3, <2>2 DEF Numbers
    <2>3. CASE s = p /\ g # pid[p]
      <3>1. PICK r \in Slot : pgrp[r] = g
        BY <1>1, <1>2, <1>3, <2>3 DEF Members
      <3>2. pgrp[t] = pid[t]
        BY <1>1, <1>2, <1>3, <2>0, <2>3, <3>1 DEF GroupsHaveLeaders
      <3>3. t # p
        BY <1>1, <1>2, <1>3, <2>3
      <3> QED  BY <1>2, <3>2, <3>3
    <2> QED  BY <2>1, <2>2, <2>3
  <1> QED  BY <1>s, <1>1, <1>3 DEF GroupsHaveLeaders

\* A zombie that is laid to rest has no number and no group any more.
LEMMA ReapKeepsLeaders ==
    ASSUME PInv, GroupsHaveLeaders, UNCHANGED system, NEW p \in Slot, WaitReaps(p)
    PROVE  GroupsHaveLeaders'
  <1> DEFINE q == Min(News(p))
  <1>s. Slot' = Slot
    BY SameSystem
  <1>t. TypesAre
    BY Types DEF PInv, TypesAre
  <1>w. /\ pid' = Set(pid, q, 0) /\ pgrp' = Set(pgrp, q, 0) /\ revived' = StillGroups(revived)
    BY DEF WaitReaps
  <1> HIDE DEF q
  <1>1. \A s \in Slot : /\ pid'[s] = IF s = q THEN 0 ELSE pid[s]
                        /\ pgrp'[s] = IF s = q THEN 0 ELSE pgrp[s]
    BY <1>t, <1>w DEF TypesAre, Set
  <1>2. \A s \in Slot : pgrp'[s] \in revived => pgrp'[s] \in revived'
    BY <1>w DEF StillGroups
  <1>3. ASSUME NEW s \in Slot, NEW t \in Slot,
               pgrp'[s] # 0, pgrp'[s] = pid'[t], pgrp'[s] \notin revived'
        PROVE  pgrp'[t] = pid'[t]
    BY <1>1, <1>2, <1>3 DEF GroupsHaveLeaders
  <1> QED  BY <1>s, <1>3 DEF GroupsHaveLeaders

\* Whoever has the number of a group that has not died out leads it.
THEOREM GroupsStayLed == Spec => []GroupsHaveLeaders
  <1>1. Init => GroupsHaveLeaders
    BY DEF Init, GroupsHaveLeaders
  <1>2. PInv /\ GroupsHaveLeaders /\ [Next]_vars => GroupsHaveLeaders'
    <2> SUFFICES ASSUME PInv, GroupsHaveLeaders, [Next]_vars PROVE GroupsHaveLeaders'
      OBVIOUS
    <2>1. CASE UNCHANGED vars
      BY <2>1 DEF vars, names, GroupsHaveLeaders, Slot, NPROC
    <2>2. CASE Next
      <3>1. PICK p \in Slot : Enters(p) \/ Waits(p) \/ Proceeds(p) \/ Signal(p)
        BY <2>2 DEF Next
      <3>2. UNCHANGED system
        BY <2>2 DEF Next
      <3>3. CASE Fork(p)
        BY <3>2, <3>3, ForkKeepsLeaders
      <3>4. CASE Lead(p)
        BY <3>2, <3>4, LeadKeepsLeaders
      <3>5. CASE WaitReaps(p)
        BY <3>2, <3>5, ReapKeepsLeaders
      <3>6. CASE ~ Fork(p) /\ ~ Lead(p) /\ ~ WaitReaps(p)
        <4>1. UNCHANGED <<pid, pgrp, revived>>
          BY <3>1, <3>6 DEF Enters, Waits, Proceeds, Signal, Exit, TraceMe, Ptrace, WaitTells, WaitSleeps,
             WaitAborts, ForkSwapped, ExitEnds, Caught, Dies, Stop, StopNobody, StopLooks, StopContinues,
             StopExits, PtraceWaits, PtraceSends, PtraceEnds, names
        <4> QED  BY <3>2, <4>1, SameSystem DEF GroupsHaveLeaders
      <3> QED  BY <3>3, <3>4, <3>5, <3>6
    <2> QED  BY <2>1, <2>2
  <1> QED  BY <1>1, <1>2, ProcInvariance, PTL DEF Spec

=============================================================================
