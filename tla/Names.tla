------------------------------- MODULE Names -------------------------------
(***************************************************************************)
(* Path names across mounted devices, and what keeps directories in core:  *)
(* namei of nami.c, iget and iput of iget.c, plock and prele of pipe.c,    *)
(* smount, sumount and getmdev of sys3.c, chdir and chroot of sys4.c, the  *)
(* current directory in fork and exit, and the inodes in update.           *)
(*                                                                         *)
(* Files are neither made nor removed here (Inode), so that the contents   *)
(* of the devices are fixed, and their blocks can be read.  An inode is    *)
(* named by its device and number, "1-to-1 with device address", whatever  *)
(* slot of inode[] it has; there is always a slot, and m_inodp of a free   *)
(* mount[] is that of no other.  todo[t] is what process t has still to do *)
(* in the kernel, the innermost function first.  Nobody is swapped out,    *)
(* and IWANT is on when somebody sleeps, as Swapper and Inode show.        *)
(***************************************************************************)
EXTENDS Integers, FiniteSets, SequencesExt

CONSTANTS
    Task,      \* processes
    NoTask,
    Node,      \* inodes, each a device and a number; the root device is 0
    NoNode,
    Tree,      \* the kind of each inode, its entries if it is a directory, and
               \* its device if it is special
    NMOUNT,    \* slots of mount[]
    Worlds     \* what may go on, by its name: the calls of each process, those that
               \* are there at first, and the one whose directory is counted

ROOTINO == 2
RootOf(d) == <<d, ROOTINO>>
RootDir == RootOf(0)
Slot == 1 .. NMOUNT - 1   \* mount[0] is the root device

ASSUME NamesAssumption ==
    /\ NMOUNT \in Nat \ {0} /\ NoTask \notin Task /\ NoNode \notin Node /\ RootDir \in Node
    /\ \A n \in Node :
         /\ Tree[n].kind \in {"dir", "reg", "blk"}
         /\ \A name \in DOMAIN Tree[n].entry : <<n[1], Tree[n].entry[name]>> \in Node
         /\ Tree[n].kind = "dir" => ".." \in DOMAIN Tree[n].entry
         /\ Tree[n].kind = "blk" => RootOf(Tree[n].rdev) \in Node
    /\ \A y \in DOMAIN Worlds :
         Worlds[y].mover \in Worlds[y].first /\ Worlds[y].first \subseteq Task

VARIABLES
    world,     \* the name of what goes on
    itable,    \* i_count, ILOCK, IACC and IMOUNT of each inode
    mounts,    \* m_bufp # NULL, m_dev and m_inodp of mount[]
    cdir,      \* u_cdir of each process, NoNode if there is no process
    rdir,      \* u_rdir, NoNode if NULL
    task,      \* where each process is in the kernel
    runner,    \* the process that runs there and has not slept yet
    updating,  \* updlock
    died,      \* the message of panic
    overtaken  \* history: a device was unmounted while somebody was on his way
               \* to an inode of it

namesVars == <<world, itable, mounts, cdir, rdir, task, runner, updating, died, overtaken>>
places == <<world, mounts, cdir, rdir, updating, died, overtaken>>

NotInCore == [count |-> 0, lock |-> FALSE, acc |-> FALSE, mount |-> FALSE]
Idle == [todo |-> <<>>, op |-> "none", path |-> <<>>, more |-> <<>>, dp |-> NoNode,
         want |-> NoNode, dev |-> 0, slot |-> 1, on |-> NoNode]

\* main gets the root for rootdir and for the first process; its children have
\* the same directory, uncounted.
NamesInit ==
    /\ world \in DOMAIN Worlds
    /\ itable = [n \in Node |-> IF n = RootDir THEN [NotInCore EXCEPT !.count = 2] ELSE NotInCore]
    /\ mounts = [s \in Slot |-> [busy |-> FALSE, dev |-> 0, on |-> NoNode]]
    /\ cdir = [t \in Task |-> IF t \in Worlds[world].first THEN RootDir ELSE NoNode]
    /\ rdir = [t \in Task |-> NoNode]
    /\ task = [t \in Task |-> Idle]
    /\ runner = NoTask /\ updating = FALSE /\ died = "none"
    /\ overtaken = FALSE

-----------------------------------------------------------------------------
\* t is awake and its next step is s.
Does(t, s) == task[t].todo # <<>> /\ Head(task[t].todo) = s /\ task[t].on = NoNode

\* The step is done, and steps are to be done before what is left.
Doing(r, steps) == [r EXCEPT !.todo = steps \o Tail(@)]
\* So, and nothing of the call is left but these.
Only(r, steps) == [r EXCEPT !.todo = steps]

Left(r) == IF r.todo = <<>> THEN Idle ELSE r
WithTask(t, r) == [task EXCEPT ![t] = Left(r)]
\* t goes on without a sleep; it sleeps for a transfer, unless the block is in the
\* cache.
Runs(t, r) == task' = WithTask(t, r) /\ runner' = IF r.todo = <<>> THEN NoTask ELSE t
Transfers(t, r) ==
    /\ task' = WithTask(t, r)
    /\ runner' \in {NoTask} \cup {u \in {t} : r.todo # <<>>}
SleepsOn(t, n) == task' = [task EXCEPT ![t].on = n] /\ runner' = NoTask
\* prele: who sleeps for the lock of n looks again.
Woken(t, r, n) == [s \in Task |-> IF task[s].on = n THEN [task[s] EXCEPT !.on = NoNode]
                                  ELSE WithTask(t, r)[s]]
Releases(t, r, n) == task' = Woken(t, r, n) /\ runner' = IF r.todo = <<>> THEN NoTask ELSE t

InCore(n) == itable[n].count # 0
Busy(d) == {s \in Slot : mounts[s].busy /\ mounts[s].dev = d}
FirstOf(S) == CHOOSE s \in S : \A r \in S : s <= r
\* getfs finds the device, of which mount[0] is always there, or panics.
HasFs(d) == d = 0 \/ Busy(d) # {}
Getfs(d) == died' = IF HasFs(d) THEN died ELSE "no fs"

-----------------------------------------------------------------------------
(* iget, iput, plock                                                       *)

\* The slots whose m_inodp it is, also those that are free again.
MountedOn(n) == {s \in Slot : mounts[s].on = n}

IgetWaits(t) ==
    LET n == task[t].want IN
    /\ InCore(n) /\ itable[n].lock
    /\ SleepsOn(t, n) /\ UNCHANGED <<itable, places>>

IgetCrosses(t) ==
    LET n == task[t].want IN
    /\ InCore(n) /\ ~ itable[n].lock /\ itable[n].mount
    /\ IF MountedOn(n) = {}
       THEN died' = "no imt" /\ UNCHANGED <<task, runner>>
       ELSE /\ Runs(t, [task[t] EXCEPT !.want = RootOf(mounts[FirstOf(MountedOn(n))].dev)])
            /\ UNCHANGED died
    /\ UNCHANGED <<world, itable, mounts, cdir, rdir, updating, overtaken>>

\* What namei does with the inode: the first it gets is dp already.
Got(r) == [Doing(r, <<>>) EXCEPT !.dp = IF Head(r.todo) = "start" THEN @ ELSE r.want]

IgetFinds(t) ==
    LET n == task[t].want IN
    /\ InCore(n) /\ ~ itable[n].lock /\ ~ itable[n].mount
    /\ itable' = [itable EXCEPT ![n].count = @ + 1, ![n].lock = TRUE]
    /\ Runs(t, Got(task[t])) /\ UNCHANGED places

IgetReads(t) ==
    LET n == task[t].want
        r == Got(task[t])
    IN  /\ ~ InCore(n)
        /\ itable' = [itable EXCEPT ![n] = [NotInCore EXCEPT !.count = 1, !.lock = TRUE]]
        /\ Transfers(t, [r EXCEPT !.todo = <<"iexpand">> \o @]) /\ UNCHANGED places

Iget(t) ==
    /\ Does(t, "start") \/ Does(t, "iget")
    /\ IgetWaits(t) \/ IgetCrosses(t) \/ IgetFinds(t) \/ IgetReads(t)

Iexpand(t) ==
    /\ Does(t, "iexpand") /\ Runs(t, Doing(task[t], <<>>)) /\ UNCHANGED <<itable, places>>

\* One reference less; the last one writes the inode, if it must, and leaves.
Iput(t) ==
    LET n == task[t].dp
        r == Doing(task[t], <<>>)
    IN  /\ Does(t, "iput")
        /\ \/ /\ itable[n].count # 1
              /\ itable' = [itable EXCEPT ![n].count = @ - 1, ![n].lock = FALSE]
              /\ Releases(t, r, n) /\ UNCHANGED died
           \/ /\ itable[n].count = 1 /\ ~ itable[n].acc
              /\ itable' = [itable EXCEPT ![n] = NotInCore]
              /\ Releases(t, r, n) /\ UNCHANGED died
           \/ /\ itable[n].count = 1 /\ itable[n].acc
              /\ itable' = [itable EXCEPT ![n].lock = TRUE]
              /\ Transfers(t, Doing(task[t], <<"iupdat">>)) /\ Getfs(n[1])
        /\ UNCHANGED <<world, mounts, cdir, rdir, updating, overtaken>>

IputEnd(t) ==
    /\ Does(t, "iupdat")
    /\ itable' = [itable EXCEPT ![task[t].dp] = NotInCore]
    /\ Releases(t, Doing(task[t], <<>>), task[t].dp) /\ UNCHANGED places

Plock(t) ==
    LET n == task[t].dp IN
    /\ \E s \in {"plock", "read", "close"} : Does(t, s)
    /\ \/ itable[n].lock /\ SleepsOn(t, n) /\ UNCHANGED itable
       \/ /\ ~ itable[n].lock /\ itable' = [itable EXCEPT ![n].lock = TRUE]
          /\ Runs(t, Doing(task[t], <<>>))
    /\ UNCHANGED places

-----------------------------------------------------------------------------
(* namei                                                                   *)

\* namei begins at the root or the current directory; the inode that iget
\* returns for it is not looked at.
Namei(t, r, path, caller) ==
    LET root == IF rdir[t] = NoNode THEN RootDir ELSE rdir[t]
        abs == path # <<>> /\ Head(path) = "/"
        dp == IF abs THEN root ELSE cdir[t]
    IN  [r EXCEPT !.todo = <<"start", "cloop", caller>>, !.dp = dp, !.want = dp,
                  !.path = IF abs THEN Tail(path) ELSE path]

\* At the end of the name dp is what is looked for; else the directory is read.
Cloop(t) ==
    LET r == task[t] IN
    /\ Does(t, "cloop")
    /\ \/ r.path = <<>> /\ Runs(t, Doing(r, <<>>))
       \/ r.path # <<>> /\ Tree[r.dp].kind = "dir" /\ Transfers(t, Doing(r, <<"eloop">>))
       \/ r.path # <<>> /\ Tree[r.dp].kind # "dir" /\ Runs(t, Only(r, <<"iput">>))
    /\ UNCHANGED <<itable, places>>

\* Wrong test: any directory's ".." that is the root.
AlwaysUpward(n, name, number) == number = ROOTINO /\ name = ".."

\* The ".." of a root of a mounted device leads to where it is mounted, and is
\* looked for again there.
Upward(n, name, number) == number = ROOTINO /\ n[2] = ROOTINO /\ name = ".."

Eloop(t) ==
    LET r == task[t]
        name == Head(r.path)
        entry == Tree[r.dp].entry
        found == name \in DOMAIN entry
        above == {s \in Busy(r.dp[1]) : Upward(r.dp, name, entry[name])}
    IN  /\ Does(t, "eloop")
        /\ \/ ~ found /\ Runs(t, Only(r, <<"iput">>))
           \/ /\ found /\ above # {}
              /\ Runs(t, [Doing(r, <<"iput", "up", "plock", "cloop">>) EXCEPT !.slot = FirstOf(above)])
           \/ /\ found /\ above = {}
              /\ Runs(t, [Doing(r, <<"iput", "iget", "cloop">>)
                            EXCEPT !.path = Tail(@), !.want = <<r.dp[1], entry[name]>>])
        /\ UNCHANGED <<itable, places>>

\* Wrong count: mount[] has a reference, another one is not taken.
Uncounted(n) == itable

Counted(n) == [itable EXCEPT ![n].count = @ + 1]

Up(t) ==
    LET n == mounts[task[t].slot].on IN
    /\ Does(t, "up") /\ itable' = Counted(n)
    /\ Runs(t, [Doing(task[t], <<>>) EXCEPT !.dp = n]) /\ UNCHANGED places

-----------------------------------------------------------------------------
(* Calls that look a file up                                               *)

\* stat writes the inode, if it must, and reads its block for the dates.
Stat(t) ==
    /\ Does(t, "stat") /\ Transfers(t, Doing(task[t], <<"written", "iput">>))
    /\ IF itable[task[t].dp].acc THEN Getfs(task[t].dp[1]) ELSE UNCHANGED died
    /\ UNCHANGED <<world, itable, mounts, cdir, rdir, updating, overtaken>>

\* A file is opened, and the process reads it, if it likes, and closes it, each
\* in a call of its own.
Open(t) ==
    /\ Does(t, "open")
    /\ \E use \in {<<>>, <<"read", "readi", "prele">>} :
         Runs(t, Doing(task[t], <<"prele">> \o use \o <<"close", "iput">>))
    /\ UNCHANGED <<itable, places>>

Prele(t) ==
    LET n == task[t].dp IN
    /\ Does(t, "prele")
    /\ itable' = [itable EXCEPT ![n].lock = FALSE]
    /\ task' = Woken(t, Doing(task[t], <<>>), n) /\ runner' = NoTask /\ UNCHANGED places

\* IACC is set, and the blocks are read.
Readi(t) ==
    /\ Does(t, "readi") /\ itable' = [itable EXCEPT ![task[t].dp].acc = TRUE]
    /\ Transfers(t, Doing(task[t], <<>>)) /\ UNCHANGED places

\* chdir and chroot: the new directory is unlocked before the old one is given
\* back.
OldDir(t) == IF task[t].op = "chdir" THEN cdir[t] ELSE rdir[t]
Chdirec(t) ==
    LET r == task[t]
        giveUp == IF OldDir(t) = NoNode THEN <<>> ELSE <<"plock", "iput">>
    IN  /\ Does(t, "chdirec")
        /\ \/ Tree[r.dp].kind # "dir" /\ Runs(t, Doing(r, <<"iput">>)) /\ UNCHANGED itable
           \/ /\ Tree[r.dp].kind = "dir" /\ itable' = [itable EXCEPT ![r.dp].lock = FALSE]
              /\ Releases(t, [Doing(r, giveUp \o <<"assign">>) EXCEPT !.dp = OldDir(t), !.want = r.dp],
                          r.dp)
        /\ UNCHANGED places

Assign(t) ==
    /\ Does(t, "assign")
    /\ \/ /\ task[t].op = "chdir" /\ cdir' = [cdir EXCEPT ![t] = task[t].want] /\ UNCHANGED rdir
       \/ /\ task[t].op = "chroot" /\ rdir' = [rdir EXCEPT ![t] = task[t].want] /\ UNCHANGED cdir
    /\ Runs(t, Doing(task[t], <<>>)) /\ UNCHANGED <<world, itable, mounts, updating, died, overtaken>>

-----------------------------------------------------------------------------
(* mount and umount                                                        *)

Getmdev(t) ==
    LET r == task[t]
        next == IF r.op = "mount" THEN <<"iput", "freg">> ELSE <<"iput", "update", "sumount">>
    IN  /\ Does(t, "getmdev")
        /\ \/ /\ Tree[r.dp].kind = "blk"
              /\ Runs(t, [Doing(r, next) EXCEPT !.dev = Tree[r.dp].rdev])
           \/ Tree[r.dp].kind # "blk" /\ Runs(t, Doing(r, <<"iput">>))
        /\ UNCHANGED <<itable, places>>

Freg(t) ==
    /\ Does(t, "freg") /\ Runs(t, Namei(t, task[t], task[t].more, "smount"))
    /\ UNCHANGED <<itable, places>>

\* Wrong test: somebody else may have the file.
AnyUse(n) == TRUE

Unused(n) == itable[n].count = 1

\* Nobody else has the file, which is not special, and the device is not mounted.
MayMount(n, d) == Unused(n) /\ Tree[n].kind # "blk" /\ Busy(d) = {} /\ d # 0
FreeSlots == {s \in Slot : ~ mounts[s].busy}

Smount(t) ==
    LET r == task[t] IN
    /\ Does(t, "smount")
    /\ \/ /\ MayMount(r.dp, r.dev) /\ FreeSlots # {}
          /\ Transfers(t, [Doing(r, <<"superb">>) EXCEPT !.slot = FirstOf(FreeSlots)])
       \/ /\ ~ MayMount(r.dp, r.dev) \/ FreeSlots = {}
          /\ Runs(t, Doing(r, <<"iput">>))
    /\ UNCHANGED <<itable, places>>

\* The superblock is read, or cannot be; geteblk sleeps.
Superb(t) ==
    LET r == task[t] IN
    /\ Does(t, "superb")
    /\ \/ /\ mounts' = [mounts EXCEPT ![r.slot].on = r.dp, ![r.slot].dev = r.dev]
          /\ Transfers(t, Doing(r, <<"mounted">>))
       \/ Runs(t, Doing(r, <<"iput">>)) /\ UNCHANGED mounts
    /\ UNCHANGED <<world, itable, cdir, rdir, updating, died, overtaken>>

\* m_bufp is set, and the inode keeps its reference.
Mounted(t) ==
    LET r == task[t] IN
    /\ Does(t, "mounted")
    /\ mounts' = [mounts EXCEPT ![r.slot].busy = TRUE]
    /\ itable' = [itable EXCEPT ![r.dp].mount = TRUE, ![r.dp].lock = FALSE]
    /\ Releases(t, Doing(r, <<>>), r.dp) /\ UNCHANGED <<world, cdir, rdir, updating, died, overtaken>>

\* No inode of the device may be in core.
InUse(d) == \E n \in Node : n[1] = d /\ InCore(n)
\* Who has been woken in iget and has yet to look again, for an inode of d.
Seeks(u, d) == (Does(u, "start") \/ Does(u, "iget")) /\ task[u].want[1] = d

Sumount(t) ==
    LET r == task[t]
        s == FirstOf(Busy(r.dev))
        n == mounts[s].on
    IN  /\ Does(t, "sumount")
        /\ \/ /\ Busy(r.dev) = {} \/ InUse(r.dev)
              /\ Runs(t, Doing(r, <<>>)) /\ UNCHANGED <<itable, overtaken>>
           \/ /\ Busy(r.dev) # {} /\ ~ InUse(r.dev)
              /\ itable' = [itable EXCEPT ![n].mount = FALSE]
              /\ overtaken' = (overtaken \/ \E u \in Task : Seeks(u, r.dev))
              /\ Runs(t, [Doing(r, <<"plock", "iput", "unmounted">>) EXCEPT !.slot = s, !.dp = n])
        /\ UNCHANGED <<world, mounts, cdir, rdir, updating, died>>

Unmounted(t) ==
    /\ Does(t, "unmounted")
    /\ mounts' = [mounts EXCEPT ![task[t].slot].busy = FALSE]
    /\ Runs(t, Doing(task[t], <<>>)) /\ UNCHANGED <<world, itable, cdir, rdir, updating, died, overtaken>>

\* update writes the inodes that are unlocked; which of them it has passed when
\* they are changed is left open.
UpdateBegins(t) ==
    /\ Does(t, "update")
    /\ \/ updating /\ Runs(t, Doing(task[t], <<>>)) /\ UNCHANGED updating
       \/ ~ updating /\ updating' = TRUE /\ Runs(t, Doing(task[t], <<"inodes">>))
    /\ UNCHANGED <<world, itable, mounts, cdir, rdir, died, overtaken>>

UpdateInode(t) ==
    /\ Does(t, "inodes")
    /\ \E n \in Node :
         /\ InCore(n) /\ ~ itable[n].lock /\ itable[n].acc
         /\ itable' = [itable EXCEPT ![n].lock = TRUE, ![n].count = @ + 1]
         /\ Transfers(t, [Doing(task[t], <<"written", "iput", "inodes">>) EXCEPT !.dp = n])
         /\ Getfs(n[1])
    /\ UNCHANGED <<world, mounts, cdir, rdir, updating, overtaken>>

UpdateWritten(t) ==
    /\ Does(t, "written") /\ itable' = [itable EXCEPT ![task[t].dp].acc = FALSE]
    /\ Runs(t, Doing(task[t], <<>>)) /\ UNCHANGED places

UpdateEnd(t) ==
    /\ Does(t, "inodes") /\ updating' = FALSE
    /\ Runs(t, Doing(task[t], <<>>)) /\ UNCHANGED <<world, itable, mounts, cdir, rdir, died, overtaken>>

-----------------------------------------------------------------------------
(* Processes                                                               *)

\* exit gives back both directories.
ExitCdir(t) ==
    /\ Does(t, "exit")
    /\ cdir' = [cdir EXCEPT ![t] = NoNode]
    /\ Runs(t, IF rdir[t] = NoNode THEN Only(task[t], <<>>)
               ELSE [Doing(task[t], <<"plock", "iput", "exitRdir">>) EXCEPT !.dp = rdir[t]])
    /\ UNCHANGED <<world, itable, mounts, rdir, updating, died, overtaken>>

ExitRdir(t) ==
    /\ Does(t, "exitRdir") /\ rdir' = [rdir EXCEPT ![t] = NoNode]
    /\ Runs(t, Doing(task[t], <<>>)) /\ UNCHANGED <<world, itable, mounts, cdir, updating, died, overtaken>>

\* newproc copies the directories, and does not count them.  Nobody waits for
\* those that have died, so that their slots of proc[] are not used again.
Fork(t) ==
    /\ \E c \in Task \ Worlds[world].first :
         /\ cdir[c] = NoNode /\ rdir[c] = NoNode /\ task[c] = Idle
         /\ cdir' = [cdir EXCEPT ![c] = cdir[t]] /\ rdir' = [rdir EXCEPT ![c] = rdir[t]]
    /\ UNCHANGED <<world, itable, mounts, task, runner, updating, died, overtaken>>

Caller(op) == CASE op \in {"chdir", "chroot"} -> "chdirec"
                [] op \in {"mount", "umount"} -> "getmdev"
                [] OTHER -> op

NamesCall(t) ==
    /\ task[t] = Idle /\ runner = NoTask /\ cdir[t] # NoNode
    /\ \E c \in Worlds[world].calls[t] :
         \/ c.op = "fork" /\ Fork(t)
         \/ /\ c.op = "sync" /\ Runs(t, [Idle EXCEPT !.todo = <<"update">>])
            /\ UNCHANGED <<itable, places>>
         \/ /\ c.op = "exit"
            /\ Runs(t, [Idle EXCEPT !.todo = <<"plock", "iput", "exit">>, !.op = "exit", !.dp = cdir[t]])
            /\ UNCHANGED <<itable, places>>
         \/ /\ c.op \notin {"fork", "sync", "exit"}
            /\ Runs(t, Namei(t, [Idle EXCEPT !.op = c.op, !.more = c.more], c.path, Caller(c.op)))
            /\ UNCHANGED <<itable, places>>

NamesStep(t) ==
    \/ Iget(t) \/ Iexpand(t) \/ Iput(t) \/ IputEnd(t) \/ Plock(t)
    \/ Cloop(t) \/ Eloop(t) \/ Up(t)
    \/ Stat(t) \/ Open(t) \/ Prele(t) \/ Readi(t) \/ Chdirec(t) \/ Assign(t)
    \/ Getmdev(t) \/ Freg(t) \/ Smount(t) \/ Superb(t) \/ Mounted(t) \/ Sumount(t) \/ Unmounted(t)
    \/ UpdateBegins(t) \/ UpdateInode(t) \/ UpdateWritten(t) \/ UpdateEnd(t)
    \/ ExitCdir(t) \/ ExitRdir(t) \/ NamesCall(t)

\* A process has the processor till it sleeps.  Then swtch takes the one of best
\* priority: who was woken for an inode, PINOD, goes before who was woken for a
\* transfer, PRIBIO, and before those outside the kernel.
Ready == {t \in Task : \E s \in {"start", "iget", "plock"} : Does(t, s)}
Turn == IF runner # NoTask THEN {runner} ELSE IF Ready # {} THEN Ready ELSE Task

Panicked == died # "none" /\ UNCHANGED namesVars
NamesNext == Panicked \/ (died = "none" /\ \E t \in Turn : NamesStep(t))
NamesSpec == NamesInit /\ [][NamesNext]_namesVars

-----------------------------------------------------------------------------
(* Properties                                                              *)

\* Types.
NamesTypeOK ==
    /\ world \in DOMAIN Worlds /\ runner \in Task \cup {NoTask} /\ updating \in BOOLEAN
    /\ itable \in [Node -> [count : Nat, lock : BOOLEAN, acc : BOOLEAN, mount : BOOLEAN]]
    /\ \A s \in Slot : RootOf(mounts[s].dev) \in Node /\ mounts[s].on \in Node \cup {NoNode}
    /\ {cdir, rdir} \subseteq [Task -> Node \cup {NoNode}]
    /\ \A t \in Task : {task[t].dp, task[t].want, task[t].on} \subseteq Node \cup {NoNode}

Step(t) == IF task[t].todo = <<>> THEN "none" ELSE Head(task[t].todo)
Will(t, s) == s \in Range(task[t].todo)

\* The inode that t has locked.
WorksOn(t) ==
    IF Step(t) \in {"iexpand", "cloop", "eloop", "stat", "open", "prele", "readi", "chdirec", "getmdev", "smount",
                    "superb", "mounted", "iput", "iupdat", "written"}
    THEN task[t].dp ELSE NoNode
\* The table gives its reference back.
Returning(t) == \E s \in {"assign", "exit", "exitRdir", "unmounted"} : Will(t, s) /\ Step(t) # s

\* The references to an inode: rootdir, mount[], the current and root directory
\* of the process that has them counted, and what processes work on.
HasCdir(t, n) == /\ t = Worlds[world].mover /\ cdir[t] = n
                 /\ Step(t) # "exit" /\ ~ (Step(t) = "assign" /\ task[t].op = "chdir")
HasRdir(t, n) == /\ t = Worlds[world].mover /\ rdir[t] = n
                 /\ Step(t) # "exitRdir" /\ ~ (Step(t) = "assign" /\ task[t].op = "chroot")
IsMount(s, n) == /\ mounts[s].busy /\ mounts[s].on = n
                 /\ \A t \in Task : Step(t) = "unmounted" => task[t].slot # s
Holds(t, n) == \/ WorksOn(t) = n /\ ~ Returning(t)
               \/ Step(t) = "plock" /\ Will(t, "cloop") /\ task[t].dp = n
               \/ Step(t) \in {"read", "close"} /\ task[t].dp = n
               \/ Will(t, "assign") /\ task[t].want = n
RefsTo(n) ==
    Cardinality({s \in Slot : IsMount(s, n)}) + Cardinality({t \in Task : HasCdir(t, n)})
    + Cardinality({t \in Task : HasRdir(t, n)}) + Cardinality({t \in Task : Holds(t, n)})
    + IF n = RootDir THEN 1 ELSE 0

\* "There is a unique inode allocated for each active file, each current
\* directory, each mounted-on file, text file, and the root" (inode.h): i_count
\* is the number of these, over every order in which names are walked,
\* directories changed and devices mounted; a locked inode has one process at
\* work, and only for such a one does anybody sleep.
CountsHolders ==
    /\ NamesTypeOK
    /\ \A n \in Node :
         /\ itable[n].count = RefsTo(n)
         /\ Cardinality({t \in Task : WorksOn(t) = n}) = IF itable[n].lock THEN 1 ELSE 0
         /\ itable[n].lock \/ \A t \in Task : task[t].on # n

\* mount[] and the inode table agree: a device is mounted once and on one
\* inode, IMOUNT is set for those, and nobody has a directory that is covered,
\* so that the panic "no imt" does not happen while one process mounts.  No inode
\* is in core whose device is not mounted, and there is no panic "no fs", until
\* sumount overtakes somebody.
MountsAgree ==
    /\ died # "no imt"
    /\ overtaken \/ (died = "none" /\ \A n \in Node : InCore(n) => HasFs(n[1]))
    /\ \A r, s \in Slot : r # s /\ mounts[r].busy /\ mounts[s].busy =>
         mounts[r].dev # mounts[s].dev /\ mounts[r].on # mounts[s].on
    /\ \A n \in Node :
         /\ itable[n].mount <=>
              \E s \in Slot : /\ mounts[s].busy /\ mounts[s].on = n
                              /\ \A t \in Task : Will(t, "unmounted") => task[t].slot # s
         /\ itable[n].mount => n # RootDir /\ \A t \in Task : n \notin {cdir[t], rdir[t]}

\* What is mounted, to be seen in names.
Live == {s \in Slot : mounts[s].busy /\ itable[mounts[s].on].mount}
\* The inode that stands for n, under k mounts at most; the one that n stands for.
Over[n \in Node, k \in Nat] ==
    LET S == {s \in Live : mounts[s].on = n}
    IN  IF S = {} \/ k = 0 THEN n ELSE Over[RootOf(mounts[FirstOf(S)].dev), k - 1]
Under[n \in Node, k \in Nat] ==
    LET S == {s \in Live : RootOf(mounts[s].dev) = n}
    IN  IF S = {} \/ k = 0 THEN n ELSE Under[mounts[FirstOf(S)].on, k - 1]

\* The entry of name in n, and what a path leads to from n.
Entry[n \in Node, name \in STRING] ==
    IF name \in DOMAIN Tree[n].entry THEN Over[<<n[1], Tree[n].entry[name]>>, NMOUNT] ELSE NoNode
Leads[n \in Node \cup {NoNode}, path \in Seq(STRING)] ==
    IF n = NoNode \/ path = <<>> THEN n
    ELSE Leads[Entry[IF Head(path) = ".." THEN Under[n, NMOUNT] ELSE n, Head(path)], Tail(path)]

\* What t looks for: its path from where it is.
Meaning(t) ==
    Leads[IF Will(t, "iget") THEN Over[task[t].want, NMOUNT]
          ELSE IF Will(t, "up") THEN mounts[task[t].slot].on ELSE task[t].dp,
          task[t].path]

\* t is in namei.
InNamei(t) == Will(t, "cloop") \/ Will(t, "eloop")

\* namei loses its way at no step, however long it sleeps there, and while it
\* has no inode: what is left of the path leads to the same inode after it as
\* before, each component looked up in the last, the root of a mounted device
\* standing for the inode under it, and the ".." of that root for the ".." of
\* that inode.  It fails if the name leads nowhere.  A step that mounts or
\* unmounts changes what names mean.
StaysOnPath ==
    [][\A t \in Task :
         InNamei(t) /\ Live = Live' =>
           IF Will(t, "iput")' /\ ~ InNamei(t)' THEN Meaning(t) = NoNode
           ELSE Meaning(t)' = Meaning(t)]_namesVars

=============================================================================
