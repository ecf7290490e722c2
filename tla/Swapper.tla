------------------------------ MODULE Swapper ------------------------------
(***************************************************************************)
(* Core, swap space and shared text: text.c, and from slp.c sleep, wakeup, *)
(* setrun, swtch, expand, the swapping part of newproc, and sched with     *)
(* swapin, which is process 0.                                             *)
(*                                                                         *)
(* A process holds the processor till it sleeps.  todo[a] is what actor a  *)
(* has still to do before it is back in user mode: the steps of the        *)
(* functions it is in, innermost first.  Core is counted in units of       *)
(* SWAPSIZE clicks, and a text is one unit; u-areas and page tables are    *)
(* left out.  Swap space is never exhausted: the system panics if it is.   *)
(***************************************************************************)
EXTENDS Integers, SequencesExt

CONSTANTS
    Proc,     \* processes, but the one that swaps
    Sched,    \* process 0
    Prog,     \* files with pure text
    NoProg,   \* no file
    NoProc,   \* nobody
    Systems   \* the systems looked at: core, slots of text[], the most that a
              \* process may have, what each may exec, the sticky files, the
              \* calls made, who may ask for more core, who there is at first, and
              \* whether no text has two users

Actor == Proc \cup {Sched}

ASSUME SwapperAssumption ==
    /\ Sched \notin Proc /\ NoProc \notin Actor /\ NoProg \notin Prog
    /\ \A y \in Systems :
         /\ {y.core, y.ntext, y.most} \subseteq Nat
         /\ y.progs \in [Proc -> SUBSET (Prog \cup {NoProg})]
         /\ y.sticky \subseteq Prog /\ y.growers \subseteq Proc
         /\ y.calls \subseteq {"sleep", "grow", "shrink", "fork", "exec", "exit", "unlink", "umount"}
         /\ y.first \in [Proc -> [prog : Prog \cup {NoProg}, size : 0 .. y.most]]
         /\ y.alone \in BOOLEAN

VARIABLES
    system,    \* the one of Systems that this is
    stat,      \* p_stat: "none", "live" for SSLEEP and SRUN, "idl", "zomb"
    flag,      \* p_flag: SLOAD, SLOCK, SSPART
    size,      \* p_size
    swsize,    \* p_swsize
    prog,      \* the file whose text the process wants or has
    textp,     \* p_textp, 0 if NULL
    ptext,     \* the slot whose text the page table of the process maps
    pages,     \* the core that its page table maps beside that
    x,         \* text[]
    tcore,     \* the slots whose text is in core
    saved,     \* the slots whose text is on the swap device
    freemem,   \* free core
    swaplock,  \* xswaplock: the page table maps 1 and 2 in use
    swapwant,  \* xswapwant
    chan,      \* p_wchan of a sleeping process, "none" if it is runnable
    todo,      \* the steps that each actor has to do
    loc,       \* its local variables
    cpu,       \* who has the processor
    runout,    \* sched waits for somebody who wants in
    runin,     \* sched waits for core
    panic      \* the message of panic; or what goes wrong without one

procs == <<stat, flag, size, swsize, prog, textp, ptext, pages>>
texts == <<x, tcore, saved>>
maps == <<swaplock, swapwant>>
waits == <<chan, runout, runin>>
vars == <<system, procs, texts, freemem, maps, waits, todo, loc, cpu, panic>>

NTEXT == system.ntext
Text == 1 .. NTEXT
FreeText == [iptr |-> NoProg, count |-> 0, ccount |-> 0, caddr |-> NoProc, flag |-> {}]
Nothing == [t |-> 0, s |-> 0, v |-> NoProc, ff |-> 0, n |-> 0, g |-> NoProg]

\* Who is there at first has been started in core; text i is that of the
\* i-th file that somebody runs, loaded from the file and not yet written out.
Running(y) == {y.first[p].prog : p \in {q \in Proc : y.first[q].size > 0}} \ {NoProg}
SlotAtFirst(y, g) == IF g = NoProg THEN 0
                     ELSE CHOOSE i \in Text : SetToSeq(Running(y))[i] = g
Users(y, g) == {p \in Proc : y.first[p].size > 0 /\ y.first[p].prog = g}

Init ==
    /\ system \in Systems
    /\ LET first == system.first
           used == SetToSeq(Running(system))
           there == {p \in Proc : first[p].size > 0}
       IN  /\ stat = [p \in Proc |-> IF p \in there THEN "live" ELSE "none"]
           /\ flag = [p \in Proc |-> IF p \in there THEN {"SLOAD"} ELSE {}]
           /\ size = [p \in Proc |-> first[p].size] /\ pages = size
           /\ prog = [p \in Proc |-> first[p].prog]
           /\ textp = [p \in Proc |-> IF p \in there THEN SlotAtFirst(system, prog[p]) ELSE 0]
           /\ ptext = textp
           /\ x = [t \in Text |->
                IF t > Len(used) THEN FreeText
                ELSE LET n == Cardinality(Users(system, used[t]))
                     IN  [iptr |-> used[t], count |-> n, ccount |-> n, flag |-> {"XWRIT"},
                          caddr |-> CHOOSE p \in Users(system, used[t]) : TRUE]]
           /\ tcore = 1 .. Len(used)
           /\ freemem = system.core - Len(used) - FoldFunction(+, 0, size)
    /\ saved = {} /\ swsize = [p \in Proc |-> 0]
    /\ swaplock = {} /\ swapwant = {}
    /\ chan = [a \in Actor |-> "none"] /\ cpu = NoProc
    /\ todo = [a \in Actor |-> IF a = Sched THEN <<"sched">> ELSE <<>>]
    /\ loc = [a \in Actor |-> Nothing]
    /\ runout = FALSE /\ runin = FALSE /\ panic = "none"

Set(f, a, v) == [f EXCEPT ![a] = v]
Loaded(p) == "SLOAD" \in flag[p]
Locked(t) == "XLOCK" \in x[t].flag

-----------------------------------------------------------------------------
\* sleep, wakeup and swtch.

\* In newproc the system takes a parent that is idl for its child: it sleeps
\* and runs under the child's entry.
Entry(a) == IF a \in Proc /\ stat[a] = "idl" THEN loc[a].v ELSE a

\* swtch resumes a runnable process that is in core; while it has the
\* processor nobody else runs.
CanRun(a) == IF a = Sched THEN TRUE ELSE stat[a] \in {"live", "idl"} /\ Loaded(Entry(a))
Runs(a) == chan[a] = "none" /\ (cpu = a \/ (cpu = NoProc /\ CanRun(a)))

At(a, step) == todo[a] # <<>> /\ Runs(a) /\ Head(todo[a]) = step
InUser(p, call) == todo[p] = <<>> /\ Runs(p) /\ stat[p] = "live" /\ call \in system.calls

\* a goes on with these steps and then with what followed.
Then(a, steps) == todo' = Set(todo, a, steps \o Tail(todo[a]))

\* It keeps the processor, unless it is back in user mode.
Goes(a) == cpu' = IF todo'[a] = <<>> THEN NoProc ELSE a

\* It sleeps on c.
Sleeps(a, c) == chan' = Set(chan, a, c) /\ cpu' = NoProc /\ UNCHANGED <<runout, runin>>

\* setrun tells sched, if it waits for that, of a process that is out.
TellsSched(S) == runout /\ \E p \in S \ {Sched} : ~ Loaded(Entry(p))

\* wakeup of the sleepers S.
Wakeup(S) ==
    /\ chan' = [a \in Actor |->
                  IF a \in S \/ (a = Sched /\ TellsSched(S)) THEN "none" ELSE chan[a]]
    /\ runout' = (runout /\ ~ TellsSched(S)) /\ UNCHANGED runin

OnText(t) == {a \in Actor : chan[a] = "text" /\ loc[a].t = t}
OnMap(s) == {a \in Actor : chan[a] = "map" /\ loc[a].s = s}

\* Nobody is woken.
Quiet == UNCHANGED waits

\* A transfer of the swap device or a file ends.
IoDone(a) ==
    /\ chan[a] = "io" /\ Wakeup({a})
    /\ UNCHANGED <<procs, texts, freemem, maps, todo, loc, cpu, panic>>

\* A process sleeps at a priority that lets it be swapped, say for a
\* terminal, and sched may look again for core.
Sleep(p) ==
    /\ InUser(p, "sleep")
    /\ chan' = [a \in Actor |-> IF a = p THEN "event"
                               ELSE IF a = Sched /\ runin THEN "none" ELSE chan[a]]
    /\ runin' = FALSE /\ cpu' = NoProc
    /\ UNCHANGED <<procs, texts, freemem, maps, todo, loc, runout, panic>>

Event(p) ==
    /\ chan[p] = "event" /\ Wakeup({p})
    /\ UNCHANGED <<procs, texts, freemem, maps, todo, loc, cpu, panic>>

\* Once a second the clock wakes sched.
Second ==
    /\ runin /\ runin' = FALSE /\ chan' = Set(chan, Sched, "none")
    /\ UNCHANGED <<procs, texts, freemem, maps, todo, loc, cpu, runout, panic>>

-----------------------------------------------------------------------------
\* xlock and xunlock, of the slot loc[a].t.

Xlock(a) ==
    /\ At(a, "xlock")
    /\ LET t == loc[a].t IN
       \/ /\ Locked(t) /\ x' = [x EXCEPT ![t].flag = @ \cup {"XWANT"}]
          /\ Sleeps(a, "text") /\ UNCHANGED todo
       \/ /\ ~ Locked(t) /\ x' = [x EXCEPT ![t].flag = @ \cup {"XLOCK"}]
          /\ Then(a, <<>>) /\ Goes(a) /\ Quiet
    /\ UNCHANGED <<procs, tcore, saved, freemem, maps, loc, panic>>

\* Who waits for slot t.
UnlockWakes(t) == IF "XWANT" \in x[t].flag THEN OnText(t) ELSE {}
Unlock(f) == f \ {"XLOCK", "XWANT"}

Xunlock(a) ==
    /\ At(a, "xunlock")
    /\ x' = [x EXCEPT ![loc[a].t].flag = Unlock(@)]
    /\ Wakeup(UnlockWakes(loc[a].t)) /\ Then(a, <<>>) /\ Goes(a)
    /\ UNCHANGED <<procs, tcore, saved, freemem, maps, loc, panic>>

-----------------------------------------------------------------------------
\* xccdec(t, v): the loaded process v no longer counts, and the core of a text
\* that nobody loaded uses is freed.

Xccdec(a) ==
    /\ At(a, "xccdec")
    /\ Then(a, IF loc[a].t \in {t \in Text : x[t].ccount > 0}
               THEN <<"xlock", "xccdecLocked">> ELSE <<>>)
    /\ Goes(a) /\ Quiet
    /\ UNCHANGED <<procs, texts, freemem, maps, loc, panic>>

\* Wrong xccdec: the core is freed without a look at XWRIT.
NeverWritten(f) == FALSE

\* The text has not been written to the swap device yet.
MustWrite(f) == "XWRIT" \in f

\* The page table of v is no longer valid.
Leaves(c, v) == IF c = v THEN NoProc ELSE c

XccdecLocked(a) ==
    /\ At(a, "xccdecLocked")
    /\ LET t == loc[a].t
           last == x[t].ccount = 1
       IN  \/ /\ last /\ MustWrite(x[t].flag)
              /\ x' = [x EXCEPT ![t].ccount = 0, ![t].flag = @ \ {"XWRIT"}]
              /\ Then(a, <<"xccdecWritten">>) /\ Sleeps(a, "io")
           \/ /\ last /\ ~ MustWrite(x[t].flag)
              /\ x' = [x EXCEPT ![t].ccount = 0]
              /\ Then(a, <<"xccdecFree">>) /\ Goes(a) /\ Quiet
           \/ /\ ~ last
              /\ x' = [x EXCEPT ![t].ccount = @ - 1,
                                ![t].caddr = Leaves(@, loc[a].v)]
              /\ Then(a, <<"xunlock">>) /\ Goes(a) /\ Quiet
    /\ UNCHANGED <<procs, tcore, saved, freemem, maps, loc, panic>>

XccdecWritten(a) ==
    /\ At(a, "xccdecWritten")
    /\ saved' = saved \cup {loc[a].t} /\ Then(a, <<"xccdecFree">>) /\ Goes(a) /\ Quiet
    /\ UNCHANGED <<procs, x, tcore, freemem, maps, loc, panic>>

\* The core is that which the page table of v maps.
XccdecFree(a) ==
    /\ At(a, "xccdecFree")
    /\ LET t == loc[a].t
           v == loc[a].v
       IN  /\ panic' = IF ptext[v] = t THEN panic ELSE "bad mem free"
           /\ tcore' = tcore \ {t} /\ freemem' = freemem + 1
           /\ ptext' = Set(ptext, v, 0)
           /\ x' = [x EXCEPT ![t].caddr = Leaves(@, v)]
    /\ Then(a, <<"xunlock">>) /\ Goes(a) /\ Quiet
    /\ UNCHANGED <<stat, flag, size, swsize, prog, textp, pages, saved, maps, loc>>

-----------------------------------------------------------------------------
\* xswap(v, ff, n): the process v is swapped out.  All its core is freed if
\* ff > 0, which is n units, -ff units of it if ff < 0, and none if ff = 0.

\* The map that is free, and the first if both are not.
Xswap(a) ==
    /\ At(a, "xswap")
    /\ loc' = [loc EXCEPT ![a].s = IF 1 \in swaplock /\ 2 \notin swaplock THEN 2 ELSE 1]
    /\ Then(a, <<"xswapMap">>) /\ Goes(a) /\ Quiet
    /\ UNCHANGED <<procs, texts, freemem, maps, panic>>

\* The victim is locked.
LocksVictim(f) == f \cup {"SLOCK"}

\* The map is taken, and the text given up unless that was done when the first
\* part of the process was swapped out.
XswapMap(a) ==
    /\ At(a, "xswapMap")
    /\ LET s == loc[a].s
           v == loc[a].v
           part == "SSPART" \in flag[v]
       IN  \/ /\ s \in swaplock
              /\ swapwant' = swapwant \cup {s} /\ Sleeps(a, "map")
              /\ UNCHANGED <<swaplock, flag, swsize, loc, todo>>
           \/ /\ s \notin swaplock
              /\ swaplock' = swaplock \cup {s}
              /\ flag' = Set(flag, v, LocksVictim(flag[v]))
              /\ swsize' = IF part THEN swsize ELSE Set(swsize, v, 0)
              /\ loc' = [loc EXCEPT ![a].t = IF part THEN 0 ELSE textp[v]]
              /\ Then(a, <<"xccdec", "xswapIo">>) /\ Goes(a) /\ Quiet
              /\ UNCHANGED swapwant
    /\ UNCHANGED <<stat, size, prog, textp, ptext, pages, texts, freemem, panic>>

XswapIo(a) ==
    /\ At(a, "xswapIo")
    /\ flag' = IF loc[a].ff < 0 THEN Set(flag, loc[a].v, flag[loc[a].v] \cup {"SSPART"}) ELSE flag
    /\ Then(a, <<"xswapEnd">>) /\ Sleeps(a, "io")
    /\ UNCHANGED <<stat, size, swsize, prog, textp, ptext, pages, texts, freemem, maps, loc, panic>>

\* Who waits for the page table map s.
MapWakes(s) == IF s \in swapwant THEN OnMap(s) ELSE {}

\* Wrong xswap: sched is not told.
NeverOut == FALSE

\* Sched waits for somebody that is out.
SchedWaits == runout

\* The size that is out after this swap, and the core that it frees.
OutNow(a) == IF loc[a].ff < 0 THEN swsize[loc[a].v] - loc[a].ff ELSE swsize[loc[a].v]
Frees(a) == IF loc[a].ff < 0 THEN - loc[a].ff ELSE IF loc[a].ff > 0 THEN loc[a].n ELSE 0

XswapEnd(a) ==
    /\ At(a, "xswapEnd")
    /\ LET v == loc[a].v
           s == loc[a].s
           woken == MapWakes(s) \cup (IF SchedWaits THEN {Sched} ELSE {})
       IN  /\ swsize' = Set(swsize, v, OutNow(a))
           /\ flag' = Set(flag, v, (flag[v] \ {"SLOAD", "SLOCK"})
                                   \ (IF OutNow(a) = size[v] THEN {"SSPART"} ELSE {}))
           /\ pages' = Set(pages, v, pages[v] - Frees(a))
           /\ freemem' = freemem + Frees(a)
           /\ panic' = IF Frees(a) > pages[v] THEN "dup mem free" ELSE panic
           /\ ptext' = Set(ptext, v, 0)
           /\ swaplock' = swaplock \ {s} /\ swapwant' = swapwant \ {s}
           /\ chan' = [b \in Actor |-> IF b \in woken THEN "none" ELSE chan[b]]
           /\ runout' = (runout /\ ~ SchedWaits) /\ UNCHANGED runin
    /\ Then(a, <<>>) /\ Goes(a)
    /\ UNCHANGED <<stat, size, prog, textp, texts, loc>>

\* qswtch: the process gives the processor away.
Qswtch(a) ==
    /\ At(a, "qswtch")
    /\ Then(a, <<>>) /\ cpu' = NoProc /\ Quiet
    /\ UNCHANGED <<procs, texts, freemem, maps, loc, panic>>

-----------------------------------------------------------------------------
\* expand: brk and the growth of the stack.

\* p asks for n units more, or gives n back.
Grow(p, n) ==
    /\ InUser(p, "grow") /\ p \in system.growers /\ size[p] + n <= system.most
    /\ size' = Set(size, p, size[p] + n)
    /\ \/ /\ freemem >= n
          /\ pages' = Set(pages, p, pages[p] + n) /\ freemem' = freemem - n
          /\ UNCHANGED <<loc, todo, cpu>>
       \/ /\ freemem < n
          /\ loc' = Set(loc, p, [Nothing EXCEPT !.v = p, !.ff = 1, !.n = size[p]])
          /\ todo' = Set(todo, p, <<"xswap", "qswtch">>) /\ cpu' = p
          /\ UNCHANGED <<pages, freemem>>
    /\ Quiet
    /\ UNCHANGED <<stat, flag, swsize, prog, textp, ptext, texts, maps, panic>>

Shrink(p, n) ==
    /\ InUser(p, "shrink") /\ p \in system.growers /\ n < size[p]
    /\ size' = Set(size, p, size[p] - n) /\ pages' = Set(pages, p, pages[p] - n)
    /\ freemem' = freemem + n
    /\ panic' = IF n > pages[p] THEN "dup mem free" ELSE panic
    /\ Quiet
    /\ UNCHANGED <<stat, flag, swsize, prog, textp, ptext, texts, maps, loc, todo, cpu>>

-----------------------------------------------------------------------------
\* newproc.

\* Wrong newproc: the child does not count as a loaded user of the text.
CountsOnce(r) == [r EXCEPT !.count = @ + 1]

\* The text has one user more, who is loaded.
CountsChild(r) == [r EXCEPT !.count = @ + 1, !.ccount = @ + 1]

\* The child is in core, with the parent's text; if there is no core for a
\* copy, it is made on the swap device from the core of the parent.
Fork(p, c) ==
    /\ InUser(p, "fork") /\ stat[c] = "none"
    /\ size' = Set(size, c, size[p]) /\ prog' = Set(prog, c, prog[p])
    /\ textp' = Set(textp, c, textp[p]) /\ ptext' = Set(ptext, c, ptext[p])
    /\ flag' = Set(flag, c, {"SLOAD"})
    /\ x' = [t \in Text |-> IF t = textp[p] THEN CountsChild(x[t]) ELSE x[t]]
    /\ \/ /\ freemem >= size[p]
          /\ pages' = Set(pages, c, size[p]) /\ freemem' = freemem - size[p]
          /\ stat' = Set(stat, c, "live")
          /\ UNCHANGED <<loc, todo, cpu, chan>>
       \/ /\ freemem < size[p]
          /\ stat' = [stat EXCEPT ![p] = "idl", ![c] = "live"]
          /\ chan' = Set(chan, c, "newproc")
          /\ loc' = Set(loc, p, [Nothing EXCEPT !.v = c])
          /\ todo' = Set(todo, p, <<"xswap", "newproc">>) /\ cpu' = p
          /\ UNCHANGED <<pages, freemem>>
    /\ UNCHANGED <<swsize, tcore, saved, maps, runout, runin, panic>>

\* The copy is made and the child put on the run queue.
NewprocEnd(p) ==
    /\ At(p, "newproc")
    /\ stat' = Set(stat, p, "live") /\ chan' = Set(chan, loc[p].v, "none")
    /\ Then(p, <<>>) /\ Goes(p)
    /\ UNCHANGED <<flag, size, swsize, prog, textp, ptext, pages, texts, freemem, maps,
                   loc, runout, runin, panic>>

-----------------------------------------------------------------------------
\* exec and exit: xfree, getxfile, xalloc, xexpand.

\* The inode of file g is locked by exec or unlink.
FileLocked(g) == g # NoProg /\ \E p \in Proc : todo[p] # <<>> /\ loc[p].g = g

\* A program is exec'ed, which gives n units of data and stack.
Exec(p, g, n) ==
    /\ InUser(p, "exec") /\ ~ FileLocked(g)
    /\ system.alone => \A q \in Proc \ {p} : stat[q] # "none" => prog[q] # g
    /\ loc' = Set(loc, p, [Nothing EXCEPT !.v = p, !.ff = 1, !.n = n, !.g = g])
    /\ todo' = Set(todo, p, <<"xfree", "getxfile", "xalloc">>) /\ cpu' = p
    /\ Quiet /\ UNCHANGED <<procs, texts, freemem, maps, panic>>

Exit(p) ==
    /\ InUser(p, "exit")
    /\ loc' = Set(loc, p, [Nothing EXCEPT !.v = p])
    /\ todo' = Set(todo, p, <<"xfree", "exit">>) /\ cpu' = p
    /\ Quiet /\ UNCHANGED <<procs, texts, freemem, maps, panic>>

Xfree(p) ==
    /\ At(p, "xfree")
    /\ loc' = [loc EXCEPT ![p].t = textp[p]]
    /\ Then(p, IF textp[p] = 0 THEN <<>> ELSE <<"xlock", "xfreeLocked">>)
    /\ Goes(p) /\ Quiet /\ UNCHANGED <<procs, texts, freemem, maps, panic>>

\* Nobody else uses the text, and its file is not sticky.
LastUser(t) == x[t].count = 1 /\ x[t].iptr \notin system.sticky

\* The last user frees the slot with its core; another counts one down, and
\* goes on to xccdec.
XfreeLocked(p) ==
    /\ At(p, "xfreeLocked")
    /\ LET t == loc[p].t IN
       /\ textp' = Set(textp, p, 0)
       /\ \/ /\ LastUser(t)
             /\ x' = Set(x, t, FreeText) /\ saved' = saved \ {t}
             /\ tcore' = tcore \ {t} /\ ptext' = Set(ptext, p, 0)
             /\ freemem' = freemem + 1
             /\ panic' = IF ptext[p] = t /\ t \in tcore THEN panic ELSE "bad mem free"
             /\ Then(p, <<>>)
          \/ /\ ~ LastUser(t)
             /\ x' = [x EXCEPT ![t].count = @ - 1, ![t].flag = @ \ {"XLOCK"}]
             /\ Then(p, <<"xccdec">>)
             /\ UNCHANGED <<saved, tcore, ptext, freemem, panic>>
    /\ Goes(p) /\ Quiet
    /\ UNCHANGED <<stat, flag, size, swsize, prog, pages, maps, loc>>

\* Data and stack are freed, and allocated for the new program.  The file is
\* not attached yet: if there is no core the process is out without text.
Getxfile(p) ==
    /\ At(p, "getxfile")
    /\ LET n == loc[p].n
           free == freemem + pages[p]
       IN  /\ size' = Set(size, p, n) /\ prog' = Set(prog, p, loc[p].g)
           /\ ptext' = Set(ptext, p, 0)
           /\ panic' = IF pages[p] = size[p] THEN panic ELSE "dup mem free"
           /\ \/ /\ free >= n
                 /\ pages' = Set(pages, p, n) /\ freemem' = free - n
                 /\ Then(p, <<>>) /\ UNCHANGED loc
              \/ /\ free < n
                 /\ pages' = Set(pages, p, 0) /\ freemem' = free
                 /\ loc' = [loc EXCEPT ![p].n = 0]
                 /\ Then(p, <<"xswap", "qswtch">>)
    /\ Goes(p) /\ Quiet
    /\ UNCHANGED <<stat, flag, swsize, textp, texts, maps>>

\* The slots of the file and the free ones.
SlotsOf(g) == {t \in Text : x[t].iptr = g}
FirstOf(T) == CHOOSE t \in T : \A u \in T : t <= u

\* The text is found, or has the first free slot; if there is none the process
\* gets SIGKIL.
Xalloc(p) ==
    /\ At(p, "xalloc")
    /\ LET g == loc[p].g
           old == SlotsOf(g)
           free == SlotsOf(NoProg)
           t == IF old # {} THEN FirstOf(old) ELSE FirstOf(free)
       IN  \/ /\ g = NoProg \/ (old \cup free = {})
              /\ Then(p, IF g = NoProg THEN <<>> ELSE <<"exit">>)
              /\ UNCHANGED <<loc, x, textp>>
           \/ /\ g # NoProg /\ old # {}
              /\ loc' = [loc EXCEPT ![p].t = t]
              /\ Then(p, <<"xlock", "xattach">>) /\ UNCHANGED <<x, textp>>
           \/ /\ g # NoProg /\ old = {} /\ free # {}
              /\ loc' = [loc EXCEPT ![p].t = t] /\ textp' = Set(textp, p, t)
              /\ x' = Set(x, t, [FreeText EXCEPT !.iptr = g, !.count = 1,
                                                 !.flag = {"XLOAD", "XLOCK"}])
              /\ Then(p, <<"xexpand", "xload">>)
    /\ Goes(p) /\ Quiet
    /\ UNCHANGED <<stat, flag, size, swsize, prog, ptext, pages, tcore, saved, freemem, maps, panic>>

\* Whose page table leads to the loaded text t, for p: x_caddr, or another.
Holders(t, p) == IF x[t].caddr # NoProc THEN {x[t].caddr}
                 ELSE {q \in Proc \ {p} : Loaded(q) /\ "SLOCK" \notin flag[q] /\ textp[q] = t}
Attached(t, h) == IF h = {} THEN NoProc ELSE CHOOSE q \in h : TRUE
Lost(h) == IF h = {} THEN "lost text" ELSE panic

Xattach(p) ==
    /\ At(p, "xattach")
    /\ LET t == loc[p].t
           h == Attached(t, Holders(t, p))
       IN  /\ textp' = Set(textp, p, t)
           /\ \/ /\ x[t].ccount = 0
                 /\ x' = [x EXCEPT ![t].count = @ + 1]
                 /\ Then(p, <<"xexpand", "xunlock">>) /\ UNCHANGED <<ptext, panic>>
              \/ /\ x[t].ccount > 0
                 /\ x' = [x EXCEPT ![t].count = @ + 1, ![t].ccount = @ + 1, ![t].caddr = h]
                 /\ ptext' = IF h = NoProc THEN ptext ELSE Set(ptext, p, ptext[h])
                 /\ panic' = Lost(Holders(t, p)) /\ Then(p, <<"xunlock">>)
    /\ Goes(p) /\ Quiet
    /\ UNCHANGED <<stat, flag, size, swsize, prog, pages, tcore, saved, freemem, maps, loc>>

\* Core for the text, which is read from the swap device unless the caller is
\* about to read the file; with no core, the process is swapped out.
Xexpand(p) ==
    /\ At(p, "xexpand")
    /\ LET t == loc[p].t IN
       \/ /\ freemem > 0
          /\ freemem' = freemem - 1 /\ tcore' = tcore \cup {t}
          /\ ptext' = Set(ptext, p, t) /\ x' = [x EXCEPT ![t].caddr = p]
          /\ Then(p, <<"xexpandRead">>) /\ UNCHANGED loc
          /\ IF "XLOAD" \in x[t].flag THEN Goes(p) /\ Quiet ELSE Sleeps(p, "io")
       \/ /\ freemem = 0
          /\ loc' = [loc EXCEPT ![p].ff = 1, ![p].n = size[p]]
          /\ Then(p, <<"xswap", "xunlock", "qswtch">>) /\ Goes(p) /\ Quiet
          /\ UNCHANGED <<x, tcore, ptext, freemem>>
    /\ UNCHANGED <<stat, flag, size, swsize, prog, textp, pages, saved, maps, panic>>

XexpandRead(p) ==
    /\ At(p, "xexpandRead")
    /\ x' = [x EXCEPT ![loc[p].t].ccount = @ + 1]
    /\ Then(p, <<"xunlock">>) /\ Goes(p) /\ Quiet
    /\ UNCHANGED <<procs, tcore, saved, freemem, maps, loc, panic>>

\* The new text is read from its file.
Xload(p) ==
    /\ At(p, "xload")
    /\ flag' = Set(flag, p, flag[p] \cup {"SLOCK"})
    /\ Then(p, <<"xloadEnd">>) /\ Sleeps(p, "io")
    /\ UNCHANGED <<stat, size, swsize, prog, textp, ptext, pages, texts, freemem, maps, loc, panic>>

XloadEnd(p) ==
    /\ At(p, "xloadEnd")
    /\ flag' = Set(flag, p, flag[p] \ {"SLOCK"})
    /\ x' = [x EXCEPT ![loc[p].t].flag = {"XWRIT"}]
    /\ Then(p, <<>>) /\ Goes(p) /\ Quiet
    /\ UNCHANGED <<stat, size, swsize, prog, textp, ptext, pages, tcore, saved, freemem, maps,
                   loc, panic>>

ExitEnd(p) ==
    /\ At(p, "exit")
    /\ stat' = Set(stat, p, "zomb") /\ prog' = Set(prog, p, NoProg)
    /\ pages' = Set(pages, p, 0) /\ freemem' = freemem + pages[p]
    /\ panic' = IF pages[p] = size[p] THEN panic ELSE "dup mem free"
    /\ todo' = Set(todo, p, <<>>) /\ cpu' = NoProc /\ Quiet
    /\ UNCHANGED <<flag, size, swsize, textp, ptext, texts, maps, loc>>

\* wait, by a process or by init.
Reap(p) ==
    /\ stat[p] = "zomb" /\ cpu = NoProc
    /\ stat' = Set(stat, p, "none") /\ flag' = Set(flag, p, {})
    /\ UNCHANGED <<size, swsize, prog, textp, ptext, pages, texts, freemem, maps, waits, todo,
                   loc, cpu, panic>>

-----------------------------------------------------------------------------
\* xrele and xumount.

\* A link of g is removed, or the file system unmounted that has all the files.
Unlink(p, g) ==
    /\ InUser(p, "unlink") /\ ~ FileLocked(g)
    /\ loc' = Set(loc, p, [Nothing EXCEPT !.g = g])
    /\ todo' = Set(todo, p, <<"xrele">>) /\ cpu' = p
    /\ Quiet /\ UNCHANGED <<procs, texts, freemem, maps, panic>>

Umount(p) ==
    /\ InUser(p, "umount")
    /\ loc' = Set(loc, p, Nothing) /\ todo' = Set(todo, p, <<"xrele">>) /\ cpu' = p
    /\ Quiet /\ UNCHANGED <<procs, texts, freemem, maps, panic>>

\* The next slot of the file, or of the file system, and so on to the last.
Xrele(p) ==
    /\ At(p, "xrele")
    /\ LET left == {t \in Text : t > loc[p].t /\ x[t].iptr # NoProg
                                 /\ loc[p].g \in {NoProg, x[t].iptr}}
       IN  \/ /\ left = {} /\ Then(p, <<>>) /\ UNCHANGED loc
           \/ /\ left # {} /\ loc' = [loc EXCEPT ![p].t = FirstOf(left)]
              /\ Then(p, <<"xlock", "xuntext", "xrele">>)
    /\ Goes(p) /\ Quiet /\ UNCHANGED <<procs, texts, freemem, maps, panic>>

\* Nobody uses the text.
Unused(t) == x[t].count = 0

\* Who slept in xlock may find that another has given the slot up.  The code does
\* not look, and gives its swap space up again and the inode of a NULL pointer.
Stale(t) == Unused(t) /\ x[t].iptr = NoProg

Xuntext(p) ==
    /\ At(p, "xuntext")
    /\ LET t == loc[p].t IN
       /\ \/ /\ ~ Unused(t) /\ Then(p, <<"xunlock">>) /\ UNCHANGED <<x, saved>>
          \/ /\ Unused(t) /\ x' = Set(x, t, FreeText) /\ saved' = saved \ {t} /\ Then(p, <<>>)
       /\ panic' = IF Stale(t) THEN "no text" ELSE panic
    /\ Goes(p) /\ Quiet
    /\ UNCHANGED <<procs, tcore, freemem, maps, loc>>

-----------------------------------------------------------------------------
\* sched and swapin.

\* Who is in state SRUN: the child whose copy is being made is, while its
\* parent does not sleep.
Copying(c) == {p \in Proc : stat[p] = "idl" /\ loc[p].v = c}
Ready(p) == /\ stat[p] = "live"
            /\ \/ chan[p] = "none"
               \/ chan[p] = "newproc" /\ \A q \in Copying(p) : chan[q] = "none"

\* The process that comes in; which one, depends on the time it has been out
\* and is left open.  If there is none, sched sleeps.
SchedLooks ==
    /\ At(Sched, "sched")
    /\ \/ \E p \in {q \in Proc : Ready(q) /\ ~ Loaded(q)} :
            /\ loc' = Set(loc, Sched, [Nothing EXCEPT !.v = p, !.t = textp[p]])
            /\ todo' = Set(todo, Sched, (IF textp[p] = 0 THEN <<>> ELSE <<"xlock">>) \o <<"swapin", "sched">>)
            /\ Goes(Sched) /\ Quiet
       \/ /\ \A q \in Proc : ~ (Ready(q) /\ ~ Loaded(q))
          /\ runout' = TRUE /\ chan' = Set(chan, Sched, "runout") /\ cpu' = NoProc
          /\ UNCHANGED <<loc, todo, runin>>
    /\ UNCHANGED <<procs, texts, freemem, maps, panic>>

\* What process p lacks: itself, or the part of it that is out, and its text.
Lacks(p) == (IF "SSPART" \in flag[p] THEN swsize[p] ELSE size[p])
            + (IF textp[p] # 0 /\ x[textp[p]].ccount = 0 THEN 1 ELSE 0)

\* Core for it, and its text; or its text is unlocked and a victim looked for.
Swapin ==
    /\ At(Sched, "swapin")
    /\ LET p == loc[Sched].v
           t == loc[Sched].t
           h == Attached(t, Holders(t, p))
           new == t # 0 /\ x[t].ccount = 0
       IN  \/ /\ freemem < Lacks(p)
              /\ Then(Sched, (IF t = 0 THEN <<>> ELSE <<"xunlock">>) \o <<"victim">>)
              /\ Goes(Sched) /\ Quiet
              /\ UNCHANGED <<pages, ptext, freemem, x, tcore, panic>>
           \/ /\ freemem >= Lacks(p)
              /\ pages' = Set(pages, p, size[p])
              /\ freemem' = freemem - Lacks(p)
              /\ \/ /\ new
                    /\ x' = [x EXCEPT ![t].caddr = p] /\ tcore' = tcore \cup {t}
                    /\ ptext' = Set(ptext, p, t) /\ UNCHANGED panic
                 \/ /\ ~ new /\ t # 0
                    /\ x' = [x EXCEPT ![t].caddr = h]
                    /\ ptext' = IF h = NoProc THEN ptext ELSE Set(ptext, p, ptext[h])
                    /\ panic' = Lost(Holders(t, p)) /\ UNCHANGED tcore
                 \/ t = 0 /\ UNCHANGED <<x, tcore, ptext, panic>>
              /\ Then(Sched, (IF t = 0 THEN <<>> ELSE <<"swapinCount", "xunlock">>) \o <<"swapinIo">>)
              /\ IF new /\ "XLOAD" \notin x[t].flag
                 THEN Sleeps(Sched, "io") ELSE Goes(Sched) /\ Quiet
    /\ UNCHANGED <<stat, flag, size, swsize, prog, textp, saved, maps, loc>>

\* The text has been read, if it had to be, and has a loaded user more.
SwapinCount ==
    /\ At(Sched, "swapinCount")
    /\ x' = [x EXCEPT ![loc[Sched].t].ccount = @ + 1]
    /\ Then(Sched, <<>>) /\ Goes(Sched) /\ Quiet
    /\ UNCHANGED <<procs, tcore, saved, freemem, maps, loc, panic>>

SwapinIo ==
    /\ At(Sched, "swapinIo")
    /\ Then(Sched, <<"swapinEnd">>) /\ Sleeps(Sched, "io")
    /\ UNCHANGED <<procs, texts, freemem, maps, loc, panic>>

SwapinEnd ==
    /\ At(Sched, "swapinEnd")
    /\ LET p == loc[Sched].v
       IN  flag' = Set(flag, p, (flag[p] \ {"SSPART"}) \cup {"SLOAD"})
    /\ Then(Sched, <<>>) /\ Goes(Sched) /\ Quiet
    /\ UNCHANGED <<stat, size, swsize, prog, textp, ptext, pages, texts, freemem, maps, loc, panic>>

\* The text of a victim is not locked.
TextFree(p) == textp[p] = 0 \/ ~ Locked(textp[p])

\* Who may be swapped out for p: the rest of one that is partly out; else the
\* largest of those that sleep for long; else, if it has been in core and p out
\* for long enough, which is left open, another.
Others(p) == {q \in Proc \ {p} : stat[q] \notin {"none", "zomb"}}
Partly(p) == {q \in Others(p) : "SSPART" \in flag[q]}
Whole(p) == {q \in Others(p) : /\ Loaded(q) /\ "SLOCK" \notin flag[q] /\ stat[q] = "live"
                              /\ TextFree(q)}
Idle(p) == {q \in Whole(p) : chan[q] = "event"}
Victims(p) == IF Partly(p) # {} THEN Partly(p)
              ELSE IF Idle(p) # {} THEN {q \in Idle(p) : \A r \in Idle(p) : size[r] <= size[q]}
              ELSE Whole(p)
MustTake(p) == Partly(p) \cup Idle(p) # {}

\* One unit more than what p lacks is swapped out of v, and the whole of v if
\* less than two would be left.
Share(p, v) == LET left == size[v] - (IF "SSPART" \in flag[v] THEN swsize[v] ELSE 0)
                   need == Lacks(p) - freemem + 1
               IN  IF left - need < 2 THEN left ELSE need

SchedSwapsOut ==
    /\ At(Sched, "victim")
    /\ LET p == loc[Sched].v IN
       \E v \in Victims(p) :
         /\ loc' = Set(loc, Sched, [Nothing EXCEPT !.v = v, !.ff = - Share(p, v)])
         /\ flag' = Set(flag, v, flag[v] \ {"SLOAD"})
    /\ Then(Sched, <<"xswap">>) /\ Goes(Sched) /\ Quiet
    /\ UNCHANGED <<stat, size, swsize, prog, textp, ptext, pages, texts, freemem, maps, panic>>

\* Sched waits for the clock, or for somebody to fall asleep.
SchedWaitsForCore ==
    /\ At(Sched, "victim") /\ ~ MustTake(loc[Sched].v)
    /\ Then(Sched, <<>>) /\ runin' = TRUE /\ chan' = Set(chan, Sched, "runin") /\ cpu' = NoProc
    /\ UNCHANGED <<procs, texts, freemem, maps, loc, runout, panic>>

-----------------------------------------------------------------------------
Sizes == 1 .. system.most

Calls(p) ==
    \/ Sleep(p) \/ Exit(p) \/ Umount(p)
    \/ \E n \in Sizes : Grow(p, n) \/ Shrink(p, n)
    \/ \E c \in Proc \ {p} : Fork(p, c)
    \/ \E g \in system.progs[p], n \in Sizes : Exec(p, g, n)
    \/ \E g \in system.progs[p] \ {NoProg} : Unlink(p, g)

Continues(p) ==
    \/ NewprocEnd(p) \/ Xfree(p) \/ XfreeLocked(p) \/ Getxfile(p) \/ Xalloc(p) \/ Xattach(p)
    \/ Xexpand(p) \/ XexpandRead(p) \/ Xload(p) \/ XloadEnd(p) \/ ExitEnd(p)
    \/ Xrele(p) \/ Xuntext(p)

Both(a) ==
    \/ Xlock(a) \/ Xunlock(a) \/ Xccdec(a) \/ XccdecLocked(a) \/ XccdecWritten(a) \/ XccdecFree(a)
    \/ Xswap(a) \/ XswapMap(a) \/ XswapIo(a) \/ XswapEnd(a) \/ Qswtch(a) \/ IoDone(a)

Next ==
    /\ panic = "none" /\ UNCHANGED system
    /\ \/ \E p \in Proc : Calls(p) \/ Continues(p) \/ Event(p) \/ Reap(p)
       \/ \E a \in Actor : Both(a)
       \/ SchedLooks \/ Swapin \/ SwapinCount \/ SwapinIo \/ SwapinEnd
       \/ SchedSwapsOut \/ SchedWaitsForCore \/ Second

Spec == Init /\ [][Next]_vars

-----------------------------------------------------------------------------
\* Types.
TypeOK ==
    /\ system \in Systems
    /\ stat \in [Proc -> {"none", "live", "idl", "zomb"}]
    /\ flag \in [Proc -> SUBSET {"SLOAD", "SLOCK", "SSPART"}]
    /\ {size, swsize, pages} \subseteq [Proc -> 0 .. system.most]
    /\ prog \in [Proc -> Prog \cup {NoProg}]
    /\ {textp, ptext} \subseteq [Proc -> Text \cup {0}]
    /\ x \in [Text -> [iptr : Prog \cup {NoProg}, count : 0 .. Cardinality(Proc),
                       ccount : 0 .. Cardinality(Proc), caddr : Proc \cup {NoProc},
                       flag : SUBSET {"XLOCK", "XWANT", "XLOAD", "XWRIT"}]]
    /\ {tcore, saved} \subseteq SUBSET Text /\ freemem \in 0 .. system.core
    /\ {swaplock, swapwant} \subseteq SUBSET {1, 2}
    /\ chan \in [Actor -> {"none", "io", "event", "text", "map", "runout", "runin",
                           "newproc"}]
    /\ cpu \in Actor \cup {NoProc} /\ {runout, runin} \subseteq BOOLEAN

\* Between two actions of interest: who is in user mode, and which texts and
\* processes nobody works on.
InUserMode(p) == stat[p] = "live" /\ todo[p] = <<>> /\ chan[p] \in {"none", "event"}
Working == {a \in Actor : todo[a] \notin {<<>>, <<"sched">>}}
Busy(p) == \E a \in Working : a = p \/ loc[a].v = p
UsersOf(t) == {p \in Proc : textp[p] = t}
Settled(t) == /\ ~ Locked(t) /\ \A a \in Working : loc[a].t # t
              /\ \A p \in UsersOf(t) : ~ Busy(p)

\* Core is freed once, that was allocated, and sched and exec find a loaded
\* text where it is: no panic of memfree or of "lost text".  When two have waited
\* in xuntext for one slot, the second gives it up again (Stale), and what the
\* code does after that is not followed.
NoPanic == panic \in {"none", "no text"}

\* The assertion of xalloc and swapin: when a text is loaded, a process is found
\* that is in core and has it.
NeverLost == panic # "lost text"

\* A process that can run in user mode has its whole image in core, and its
\* page table leads to the loaded text of the file that it runs.
RunsInCore ==
    \A p \in Proc : InUserMode(p) /\ Loaded(p) =>
        /\ pages[p] = size[p] /\ "SSPART" \notin flag[p]
        /\ ptext[p] = textp[p]
        /\ IF textp[p] = 0 THEN prog[p] = NoProg
           ELSE x[textp[p]].iptr = prog[p] /\ textp[p] \in tcore

\* Nothing is freed twice, whatever was swapped out while somebody slept with a
\* text or a process locked.
\* x_count is the number of users of a text, x_ccount that of the loaded ones,
\* and a text has core while it has such.  No core is lost: what is neither
\* free nor that of a text belongs to a process, all of it if it is loaded, none
\* if it is out, and what is left of one that is partly out.  A text can be had
\* without its file: it is on the swap device, or marked to be written there.
Accounted ==
    /\ TypeOK /\ RunsInCore /\ NoPanic
    /\ \A t \in Text :
         /\ x[t].count = Cardinality(UsersOf(t)) /\ (x[t].iptr = NoProg => x[t].count = 0)
         /\ Settled(t) /\ x[t].iptr # NoProg =>
               /\ x[t].ccount = Cardinality({p \in UsersOf(t) : Loaded(p)})
               /\ x[t].ccount > 0 <=> t \in tcore
         /\ x[t].iptr # NoProg /\ ~ Locked(t) /\ "XLOAD" \notin x[t].flag =>
               t \in saved \/ (t \in tcore /\ "XWRIT" \in x[t].flag)
    /\ freemem + Cardinality(tcore) + FoldFunction(+, 0, pages) = system.core
    /\ \A p \in Proc : ~ Busy(p) =>
          pages[p] = CASE stat[p] \in {"none", "zomb"} -> 0
                       [] "SSPART" \in flag[p] -> size[p] - swsize[p]
                       [] Loaded(p) -> size[p]
                       [] OTHER -> 0

\* Who waits for a text or a page table map waits for one that is locked, and
\* its owner knows; sched does not wait for work while somebody is out and
\* ready.
NoLostWakeup ==
    /\ \A t \in Text : OnText(t) # {} => {"XLOCK", "XWANT"} \subseteq x[t].flag
    /\ \A s \in {1, 2} : OnMap(s) # {} => s \in swaplock \cap swapwant
    /\ runout => \A p \in Proc : Ready(p) => Loaded(p) \/ chan[p] = "newproc"
=============================================================================
