------------------------------- MODULE Inode -------------------------------
(***************************************************************************)
(* The inode table: iget, iput and iupdat of iget.c, plock and prele of    *)
(* pipe.c, and the system calls that make, find, use, link and unlink      *)
(* files: namei, open1, creat, link, unlink, pipe, closef, update.         *)
(*                                                                         *)
(* There is one directory with a few names.  A process runs till it        *)
(* sleeps, for the lock of an inode or of the directory or for a transfer. *)
(***************************************************************************)
EXTENDS Integers, SequencesExt

CONSTANTS
    Proc,     \* processes
    Ino,      \* the inodes of the volume, that of the directory excepted
    NoIno,    \* 0, the number of no inode
    Name,     \* the names of the directory
    NoName,
    NICINOD,  \* numbers in s_inode
    NoProc,   \* nobody has the directory locked
    Systems   \* the systems looked at: the sizes of their tables, the calls
              \* that processes make and those whose transfers may fail

ASSUME InodeAssumption ==
    /\ NoIno \notin Ino /\ NoName \notin Name /\ NoProc \notin Proc
    /\ IsFiniteSet(Proc) /\ Proc # {} /\ IsFiniteSet(Ino) /\ Ino # {} /\ IsFiniteSet(Name)
    /\ NICINOD \in Nat \ {0}
    /\ Systems \subseteq
         [ninode : Nat \ {0}, nofile : Nat \ {0},
          calls : SUBSET {"stat", "open", "creat", "unlink", "link", "pipe",
                          "rdwr", "close", "update"},
          fails : SUBSET {"iget", "iupdat", "wdir", "ilist"}]

VARIABLES
    system,   \* the one of Systems that this is
    number,   \* i_number of each slot
    flag,     \* i_flag: ILOCK, IWANT, and ICHG for all that iupdat writes
    count,    \* i_count
    core,     \* i_mode # 0 and i_nlink of each slot
    volume,   \* di_mode # 0 and di_nlink of each inode
    spare,    \* s_inode[0 .. s_ninode - 1]
    ilock,    \* s_ilock
    seen,     \* the blocks of the I list that each search has been through
    entry,    \* the inode of each name
    dlock,    \* the process that has the directory locked
    pc,       \* where each process is
    call,     \* the system call it makes
    name,     \* the name it looks up
    want,     \* the inode for which it sleeps in iget
    cur,      \* the slot it works on
    linked,   \* ip of link while it looks up the new name
    after,    \* where iput returns to
    files,    \* the slots of its open files
    asleep    \* the slot whose lock it sleeps for, 0 if none

table == <<number, flag, count, core>>
fs == <<volume, spare, entry, dlock>>
search == <<ilock, seen>>
args == <<call, name, want, linked, after>>
vars == <<system, table, fs, search, args, pc, cur, files, asleep>>

NINODE == system.ninode     \* slots of inode[]
NOFILE == system.nofile     \* files a process may have open
Calls == system.calls
Fails == system.fails

Slot == 1 .. NINODE
Free == [mode |-> FALSE, nlink |-> 0]

\* At most NICINOD of these inodes, for s_inode.
Spares(free) == LET all == SetToSeq(free)
                IN  SubSeq(all, 1, IF Len(all) > NICINOD THEN NICINOD ELSE Len(all))

\* Whatever files the directory names.
Init ==
    /\ system \in Systems
    /\ number = [s \in Slot |-> NoIno] /\ flag = [s \in Slot |-> {}]
    /\ count = [s \in Slot |-> 0] /\ core = [s \in Slot |-> Free]
    /\ entry \in [Name -> Ino \cup {NoIno}] /\ dlock = NoProc
    /\ volume = [i \in Ino |-> LET n == Cardinality({m \in Name : entry[m] = i})
                              IN  [mode |-> n > 0, nlink |-> n]]
    /\ spare = Spares(Ino \ Range(entry))
    /\ ilock = FALSE /\ seen = [p \in Proc |-> 0]
    /\ pc = [p \in Proc |-> "user"] /\ call = [p \in Proc |-> "none"]
    /\ name = [p \in Proc |-> NoName] /\ want = [p \in Proc |-> NoIno]
    /\ cur = [p \in Proc |-> 0] /\ linked = [p \in Proc |-> 0]
    /\ after = [p \in Proc |-> "return"]
    /\ files = [p \in Proc |-> <<>>] /\ asleep = [p \in Proc |-> 0]

\* Between iget or a transfer and the next one, or iput, a process does not
\* sleep, unless it is creat, which truncates the file: who is there goes on.
Going(p) == pc[p] \in {"iput", "loop", "iend", "iout"} \/ (pc[p] = "got" /\ call[p] # "creat")
Runs(p) == \A q \in Proc \ {p} : ~ Going(q)

At(p, place) == pc[p] = place /\ asleep[p] = 0 /\ Runs(p)
Goto(p, place) == pc' = [pc EXCEPT ![p] = place]
Set(f, x, v) == [f EXCEPT ![x] = v]
Add(f, x, v) == [f EXCEPT ![x] = @ \cup v]

\* The end of a system call.
Return(p) ==
    /\ Goto(p, "user") /\ call' = Set(call, p, "none")
    /\ name' = Set(name, p, NoName) /\ want' = Set(want, p, NoIno)
    /\ cur' = Set(cur, p, 0) /\ linked' = Set(linked, p, 0)
    /\ after' = Set(after, p, "return")

\* The directory's lock, if p has it, is given up.
LeaveDir(p) == dlock' = IF dlock = p THEN NoProc ELSE dlock

-----------------------------------------------------------------------------
\* The lock of a slot.

Locked(s) == "ILOCK" \in flag[s]

\* p finds s locked: it sets IWANT and sleeps.
SleepsFor(p, s) ==
    /\ flag' = Add(flag, s, {"IWANT"}) /\ asleep' = Set(asleep, p, s)

\* The processes that wakeup(s) wakes.
Wakes(s) == {p \in Proc : asleep[p] = s}

\* prele(s), the flags being f; they are g afterwards.
Prele(s, f, g) ==
    /\ flag' = Set(flag, s, g)
    /\ asleep' = [p \in Proc |->
           IF "IWANT" \in f /\ p \in Wakes(s) THEN 0 ELSE asleep[p]]

Unlocked(s) == flag[s] \ {"ILOCK", "IWANT"}

-----------------------------------------------------------------------------
\* iget.

\* Wrong iget: slots that are locked are passed over.
UnlockedCached(i) == {s \in Slot : number[s] = i /\ ~ Locked(s)}

Cached(i) == {s \in Slot : number[s] = i}

Unused == {s \in Slot : count[s] = 0}

Referred(s) == count[s] + 1

\* iget(i): up to its first sleep, or till it has the inode locked.  A slot
\* it takes keeps the other contents it had until the new ones are read.
Iget(p, i) ==
    /\ \/ \E s \in Cached(i) : Locked(s) /\ SleepsFor(p, s) /\ Goto(p, "iget")
          /\ UNCHANGED <<number, count, cur>>
       \/ \E s \in Cached(i) : ~ Locked(s)
          /\ count' = Set(count, s, Referred(s)) /\ flag' = Add(flag, s, {"ILOCK"})
          /\ cur' = Set(cur, p, s) /\ Goto(p, "got") /\ UNCHANGED <<number, asleep>>
       \/ Cached(i) = {} /\ \E s \in Unused : (\A r \in Unused : s <= r)
          /\ number' = Set(number, s, i) /\ flag' = Set(flag, s, {"ILOCK"})
          /\ count' = Set(count, s, Referred(s)) /\ cur' = Set(cur, p, s)
          /\ Goto(p, "igetRead") /\ UNCHANGED asleep
       \/ Cached(i) = {} /\ Unused = {} /\ Goto(p, "enfile")
          /\ UNCHANGED <<number, flag, count, cur, asleep>>
    /\ want' = Set(want, p, IF pc'[p] = "iget" THEN i ELSE NoIno)
    /\ UNCHANGED core

\* goto loop, after the sleep.
IgetAgain(p) ==
    /\ At(p, "iget") /\ Iget(p, want[p])
    /\ UNCHANGED <<fs, call, name, linked, after, files>>

IgetRead(p) ==
    /\ At(p, "igetRead")
    /\ core' = Set(core, cur[p], volume[number[cur[p]]])
    /\ Goto(p, "got")
    /\ UNCHANGED <<number, flag, count, fs, args, cur, files, asleep>>

\* Where a call goes on when an inode is not to be had.
Otherwise(p) == IF linked[p] # 0 THEN "linked" ELSE "return"

IgetReadFails(p) ==
    /\ At(p, "igetRead") /\ "iget" \in Fails
    /\ Goto(p, "iput") /\ after' = Set(after, p, Otherwise(p))
    /\ UNCHANGED <<table, fs, call, name, want, linked, cur, files, asleep>>

\* "Inode table overflow"
IgetFull(p) ==
    /\ At(p, "enfile")
    /\ IF linked[p] # 0
       THEN /\ Goto(p, "iput") /\ cur' = Set(cur, p, linked[p])
            /\ linked' = Set(linked, p, 0)
            /\ UNCHANGED <<dlock, call, name, want, after>>
       ELSE LeaveDir(p) /\ Return(p)
    /\ UNCHANGED <<table, volume, spare, entry, files, asleep>>

-----------------------------------------------------------------------------
\* iput(cur[p]).

\* What follows iput.
Continue(p) ==
    CASE after[p] = "return" -> LeaveDir(p) /\ Return(p)
      [] after[p] = "ialloc" ->
            /\ Goto(p, "loop") /\ cur' = Set(cur, p, 0)
            /\ after' = Set(after, p, "return")
            /\ UNCHANGED <<dlock, call, name, want, linked>>
      [] after[p] = "linked" ->
            /\ Goto(p, "iput") /\ cur' = Set(cur, p, linked[p])
            /\ linked' = Set(linked, p, 0) /\ after' = Set(after, p, "return")
            /\ UNCHANGED <<dlock, call, name, want>>
      [] after[p] = "update" ->
            Goto(p, "update") /\ UNCHANGED <<dlock, args, cur>>

\* There are other references: iput leaves the inode in core, unlocked.
IputShared(p) ==
    /\ At(p, "iput") /\ count[cur[p]] # 1
    /\ count' = Set(count, cur[p], count[cur[p]] - 1)
    /\ Prele(cur[p], flag[cur[p]], Unlocked(cur[p]))
    /\ Continue(p)
    /\ UNCHANGED <<number, core, volume, spare, entry, files>>

Unnamed(s) == core[s].nlink <= 0

\* The last reference to a file without links: itrunc.
IputTruncates(p) ==
    /\ At(p, "iput") /\ count[cur[p]] = 1 /\ Unnamed(cur[p])
    /\ flag' = Add(flag, cur[p], {"ILOCK"}) /\ Goto(p, "itrunc")
    /\ UNCHANGED <<number, count, core, fs, args, cur, files, asleep>>

SpareIsFull == Len(spare) >= NICINOD

\* ifree: the list of spare inodes gets i, if there is room and no search.
Ifree(i) == spare' = IF ilock \/ SpareIsFull THEN spare ELSE Append(spare, i)

IputFrees(p) ==
    /\ At(p, "itrunc")
    /\ core' = Set(core, cur[p], [core[cur[p]] EXCEPT !.mode = FALSE])
    /\ flag' = Add(flag, cur[p], {"ICHG"})
    /\ Ifree(number[cur[p]]) /\ Goto(p, "iupdat")
    /\ UNCHANGED <<number, count, volume, entry, dlock, args, cur, files, asleep>>

\* The last reference to a changed file: iupdat.
IputUpdates(p) ==
    /\ At(p, "iput") /\ count[cur[p]] = 1 /\ ~ Unnamed(cur[p])
    /\ "ICHG" \in flag[cur[p]]
    /\ flag' = Add(flag, cur[p], {"ILOCK"}) /\ Goto(p, "iupdat")
    /\ UNCHANGED <<number, count, core, fs, args, cur, files, asleep>>

\* The slot is empty and those who wait for it are woken.
Vacate(p) ==
    LET s == cur[p]
    IN  /\ number' = Set(number, s, NoIno) /\ count' = Set(count, s, count[s] - 1)
        /\ Prele(s, flag[s], {}) /\ Continue(p)
        /\ UNCHANGED <<core, spare, entry, files>>

IputVacates(p) ==
    /\ At(p, "iput") /\ count[cur[p]] = 1 /\ ~ Unnamed(cur[p])
    /\ "ICHG" \notin flag[cur[p]]
    /\ Vacate(p) /\ UNCHANGED volume

\* Wrong iupdat: i_nlink is not copied.
CopiesMode(s) == [volume[number[s]] EXCEPT !.mode = core[s].mode]

\* What iupdat writes.
Copies(s) == core[s]

IputWrites(p) ==
    /\ At(p, "iupdat")
    /\ \/ volume' = Set(volume, number[cur[p]], Copies(cur[p]))
       \/ "iupdat" \in Fails /\ UNCHANGED volume
    /\ Vacate(p)

-----------------------------------------------------------------------------
\* namei: the name is found, or not, in the directory, which is locked
\* meanwhile.

Begins(p, c) ==
    /\ At(p, "user") /\ c \in Calls
    /\ call' = Set(call, p, c)

\* stat, open, creat and link of a file that is there: the directory is
\* unlocked just before iget is called.
Finds(p, n) ==
    /\ dlock = NoProc /\ entry[n] # NoIno /\ Iget(p, entry[n])

Lookup(p) == \E c \in {"stat", "open", "creat", "link"}, n \in Name :
    /\ Begins(p, c) /\ Finds(p, n)
    /\ UNCHANGED <<fs, name, linked, after, files>>

\* creat of a new file keeps the directory locked.
Creat(p) == \E n \in Name :
    /\ Begins(p, "creat") /\ dlock = NoProc /\ entry[n] = NoIno
    /\ dlock' = p /\ name' = Set(name, p, n) /\ Goto(p, "ialloc")
    /\ UNCHANGED <<table, volume, spare, entry, want, linked, after, cur, files, asleep>>

\* So does unlink.
Unlink(p) == \E n \in Name :
    /\ Begins(p, "unlink") /\ Finds(p, n)
    /\ dlock' = p /\ name' = Set(name, p, n)
    /\ UNCHANGED <<volume, spare, entry, linked, after, files>>

Pipe(p) ==
    /\ Begins(p, "pipe") /\ Goto(p, "ialloc")
    /\ UNCHANGED <<table, fs, name, want, linked, after, cur, files, asleep>>

\* link looks up the new name, without the lock of the file.
LinkFinds(p) == \E n \in Name :
    /\ At(p, "namei") /\ Finds(p, n)
    /\ UNCHANGED <<fs, call, name, linked, after, files>>

LinkFindsNot(p) == \E n \in Name :
    /\ At(p, "namei") /\ dlock = NoProc /\ entry[n] = NoIno
    /\ dlock' = p /\ name' = Set(name, p, n)
    /\ cur' = Set(cur, p, linked[p]) /\ linked' = Set(linked, p, 0)
    /\ Goto(p, "wdir")
    /\ UNCHANGED <<table, volume, spare, entry, call, want, after, files, asleep>>

-----------------------------------------------------------------------------
\* ialloc.  It looks at s_ilock when it begins, and never again: not after iget
\* or iput has slept ("goto loop").

IallocWaits(p) ==
    /\ At(p, "ialloc") /\ ilock /\ Goto(p, "iwait")
    /\ UNCHANGED <<table, fs, search, args, cur, files, asleep>>

InLoop(p) == At(p, "loop") \/ (At(p, "ialloc") /\ ~ ilock)

\* It takes the last spare inode.
IallocTakes(p) ==
    /\ InLoop(p) /\ spare # <<>>
    /\ spare' = Front(spare) /\ Iget(p, Last(spare))
    /\ UNCHANGED <<volume, entry, dlock, search, call, name, linked, after, files>>

\* There is none: the search through the I list begins.
IallocLocks(p) ==
    /\ InLoop(p) /\ spare = <<>>
    /\ ilock' = TRUE /\ Goto(p, "ilist")
    /\ UNCHANGED <<table, fs, seen, args, cur, files, asleep>>

\* The I list, with one inode in a block.
Ilist == SetToSeq(Ino)

\* An inode to be listed is free on the volume and not in core.
Spare(i) == ~ volume[i].mode /\ \A s \in Slot : number[s] # i

\* The next block has been read, if it can be.  With two searches at once the
\* number may go beyond the end of s_inode; that it lies on s_flock and s_ilock
\* then, is not followed.
IallocReads(p) ==
    /\ At(p, "ilist")
    /\ LET i == Ilist[seen[p] + 1]
       IN  \/ spare' = IF Spare(i) THEN Append(spare, i) ELSE spare
           \/ "ilist" \in Fails /\ UNCHANGED spare
    /\ seen' = Set(seen, p, seen[p] + 1)
    /\ Goto(p, IF SpareIsFull' \/ seen'[p] = Len(Ilist) THEN "iend" ELSE "ilist")
    /\ UNCHANGED <<table, volume, entry, dlock, ilock, args, cur, files, asleep>>

\* The search is over, and who waits for that is woken.
IallocEnds(p) ==
    /\ At(p, "iend")
    /\ ilock' = FALSE /\ seen' = Set(seen, p, 0)
    /\ pc' = [q \in Proc |->
           IF q = p THEN IF spare = <<>> THEN "iout" ELSE "loop"
           ELSE IF pc[q] = "iwait" THEN "ialloc" ELSE pc[q]]
    /\ UNCHANGED <<table, fs, args, cur, files, asleep>>

\* "Out of inodes"
IallocFails(p) ==
    /\ At(p, "iout") /\ LeaveDir(p) /\ Return(p)
    /\ UNCHANGED <<table, volume, spare, entry, search, files, asleep>>

\* Is cur[p], which p has locked, for ialloc?
Allocating(p) == call[p] = "pipe" \/ (call[p] = "creat" /\ dlock = p)

\* Wrong ialloc: it trusts the list.
NeverTaken(s) == FALSE

Taken(s) == core[s].mode

\* "Inode was allocated after all."
GotTaken(p) ==
    /\ At(p, "got") /\ Allocating(p) /\ Taken(cur[p])
    /\ Goto(p, "iput") /\ after' = Set(after, p, "ialloc")
    /\ UNCHANGED <<table, fs, call, name, want, linked, cur, files, asleep>>

\* maknode: the new inode has one link, which wdir is to write.
GotNew(p) ==
    /\ At(p, "got") /\ call[p] = "creat" /\ Allocating(p) /\ ~ Taken(cur[p])
    /\ core' = Set(core, cur[p], [mode |-> TRUE, nlink |-> 1])
    /\ flag' = Add(flag, cur[p], {"ICHG"}) /\ Goto(p, "wdir")
    /\ UNCHANGED <<number, count, fs, args, cur, files, asleep>>

MayOpen(p, n) == Len(files[p]) + n <= NOFILE

\* pipe: two files share the inode.
GotPipe(p) ==
    /\ At(p, "got") /\ call[p] = "pipe" /\ ~ Taken(cur[p]) /\ MayOpen(p, 2)
    /\ count' = Set(count, cur[p], 2) /\ flag' = Set(flag, cur[p], {"ICHG"})
    /\ core' = Set(core, cur[p], [core[cur[p]] EXCEPT !.mode = TRUE])
    /\ files' = Set(files, p, files[p] \o <<cur[p], cur[p]>>)
    /\ Return(p)
    /\ UNCHANGED <<number, fs, asleep>>

\* open1 unlocks the inode and gets a file.
GotOpen(p) ==
    /\ At(p, "got") /\ call[p] \in {"open", "creat"} /\ ~ Allocating(p) /\ MayOpen(p, 1)
    /\ Prele(cur[p], flag[cur[p]], Unlocked(cur[p]))
    /\ files' = Set(files, p, Append(files[p], cur[p]))
    /\ Return(p)
    /\ UNCHANGED <<number, count, core, fs>>

\* stat; open and pipe without a file to be had; link when the new name
\* exists.  (open1 unlocks the inode first, and does not sleep before iput.)
GotPut(p) ==
    /\ At(p, "got")
    /\ \/ call[p] = "stat"
       \/ call[p] \in {"open", "creat"} /\ ~ Allocating(p) /\ ~ MayOpen(p, 1)
       \/ call[p] = "pipe" /\ ~ Taken(cur[p]) /\ ~ MayOpen(p, 2)
       \/ call[p] = "link" /\ linked[p] # 0
    /\ Goto(p, "iput") /\ after' = Set(after, p, Otherwise(p))
    /\ UNCHANGED <<table, fs, call, name, want, linked, cur, files, asleep>>

\* Wrong link: the file stays locked during the second namei.
StaysLocked(s) == flag[s]

\* The flags with which link calls namei again.
ForNamei(s) == Unlocked(s)

\* link: "Unlock to avoid possibly hanging the namei."
GotLink(p) ==
    /\ At(p, "got") /\ call[p] = "link" /\ linked[p] = 0
    /\ Prele(cur[p], flag[cur[p]], ForNamei(cur[p]))
    /\ linked' = Set(linked, p, cur[p]) /\ cur' = Set(cur, p, 0)
    /\ Goto(p, "namei")
    /\ UNCHANGED <<number, count, core, fs, call, name, want, after, files>>

GotUnlink(p) ==
    /\ At(p, "got") /\ call[p] = "unlink" /\ Goto(p, "wdir")
    /\ UNCHANGED <<table, fs, args, cur, files, asleep>>

-----------------------------------------------------------------------------
\* The write to the directory, which has been locked.

Writes(p, i) ==
    \/ entry' = Set(entry, name[p], i)
    \/ "wdir" \in Fails /\ UNCHANGED entry

\* wdir unlocks the directory; creat ends with open1, which does not get a
\* file if the write failed.
WdirCreat(p) ==
    /\ At(p, "wdir") /\ call[p] = "creat" /\ LeaveDir(p)
    /\ Writes(p, number[cur[p]])
    /\ IF entry' # entry
       THEN Goto(p, "got") ELSE Goto(p, "iput")
    /\ UNCHANGED <<table, volume, spare, args, cur, files, asleep>>

\* unlink does not look whether the write failed.
WdirUnlink(p) ==
    /\ At(p, "wdir") /\ call[p] = "unlink"
    /\ Writes(p, NoIno)
    /\ core' = Set(core, cur[p], [core[cur[p]] EXCEPT !.nlink = @ - 1])
    /\ flag' = Add(flag, cur[p], {"ICHG"}) /\ Goto(p, "iput")
    /\ UNCHANGED <<number, count, volume, spare, dlock, args, cur, files, asleep>>

\* The file of link is not locked; the new link is counted as soon as the
\* directory has been unlocked.
WdirLink(p) ==
    /\ At(p, "wdir") /\ call[p] = "link" /\ LeaveDir(p) /\ Goto(p, "iput")
    /\ Writes(p, number[cur[p]])
    /\ IF entry' = entry
       THEN UNCHANGED <<core, flag>>
       ELSE /\ core' = Set(core, cur[p], [core[cur[p]] EXCEPT !.nlink = @ + 1])
            /\ flag' = Add(flag, cur[p], {"ICHG"})
    /\ UNCHANGED <<number, count, volume, spare, args, cur, files, asleep>>

-----------------------------------------------------------------------------
\* An open file.

\* rdwr and closef begin with plock.
UseFile(p) == \E c \in {"rdwr", "close"} :
    /\ files[p] # <<>> /\ Begins(p, c)
    /\ cur' = Set(cur, p, Head(files[p])) /\ Goto(p, "plock")
    /\ UNCHANGED <<table, fs, name, want, linked, after, files, asleep>>

PlockWaits(p) ==
    /\ At(p, "plock") /\ Locked(cur[p])
    /\ SleepsFor(p, cur[p])
    /\ UNCHANGED <<number, count, core, fs, args, pc, cur, files>>

Plock(p) ==
    /\ At(p, "plock") /\ ~ Locked(cur[p])
    /\ flag' = Add(flag, cur[p], {"ILOCK"})
    /\ IF call[p] = "rdwr"
       THEN Goto(p, "rdwr") /\ UNCHANGED files
       ELSE Goto(p, "iput") /\ files' = Set(files, p, Tail(files[p]))
    /\ UNCHANGED <<number, count, core, fs, args, cur, asleep>>

\* readi or writei, and prele.
RdwrEnds(p) ==
    /\ At(p, "rdwr")
    /\ Prele(cur[p], flag[cur[p]], Unlocked(cur[p]) \cup {"ICHG"})
    /\ Return(p)
    /\ UNCHANGED <<number, count, core, fs, files>>

-----------------------------------------------------------------------------
\* update passes over the table.

Update(p) ==
    /\ Begins(p, "update") /\ \A q \in Proc : call[q] # "update"
    /\ Goto(p, "update") /\ after' = Set(after, p, "update")
    /\ UNCHANGED <<table, fs, name, want, linked, cur, files, asleep>>

Updatable(s) == ~ Locked(s) /\ count[s] # 0

UpdateTakes(p) == \E s \in Slot :
    /\ At(p, "update") /\ s > cur[p] /\ Updatable(s)
    /\ \A r \in Slot : cur[p] < r /\ r < s => ~ Updatable(r)
    /\ flag' = Add(flag, s, {"ILOCK"}) /\ count' = Set(count, s, count[s] + 1)
    /\ cur' = Set(cur, p, s)
    /\ Goto(p, IF "ICHG" \in flag[s] THEN "updateWrite" ELSE "iput")
    /\ UNCHANGED <<number, core, fs, args, files, asleep>>

UpdateWrites(p) ==
    /\ At(p, "updateWrite") /\ Goto(p, "iput")
    /\ \/ /\ volume' = Set(volume, number[cur[p]], Copies(cur[p]))
          /\ flag' = Set(flag, cur[p], flag[cur[p]] \ {"ICHG"})
       \/ "iupdat" \in Fails /\ UNCHANGED <<volume, flag>>
    /\ UNCHANGED <<number, count, core, spare, entry, dlock, args, cur, files, asleep>>

UpdateEnds(p) ==
    /\ At(p, "update") /\ \A s \in Slot : s > cur[p] => ~ Updatable(s)
    /\ Return(p)
    /\ UNCHANGED <<table, fs, files, asleep>>

-----------------------------------------------------------------------------
\* What a process does on its own once it is in the kernel.
Proceeds(p) ==
    \/ IgetAgain(p) \/ IgetRead(p) \/ IgetReadFails(p) \/ IgetFull(p)
    \/ IputShared(p) \/ IputTruncates(p) \/ IputFrees(p) \/ IputUpdates(p)
    \/ IputVacates(p) \/ IputWrites(p)
    \/ LinkFinds(p) \/ LinkFindsNot(p)
    \/ GotTaken(p) \/ GotNew(p) \/ GotPipe(p) \/ GotOpen(p) \/ GotPut(p)
    \/ GotLink(p) \/ GotUnlink(p)
    \/ WdirCreat(p) \/ WdirUnlink(p) \/ WdirLink(p)
    \/ PlockWaits(p) \/ Plock(p) \/ RdwrEnds(p)
    \/ UpdateTakes(p) \/ UpdateWrites(p) \/ UpdateEnds(p)

Enters(p) ==
    \/ Lookup(p) \/ Creat(p) \/ Unlink(p) \/ Pipe(p) \/ UseFile(p) \/ Update(p)

Searches(p) ==
    \/ IallocWaits(p) \/ IallocTakes(p) \/ IallocLocks(p) \/ IallocReads(p)
    \/ IallocEnds(p) \/ IallocFails(p)

Next ==
    /\ UNCHANGED system
    /\ \E p \in Proc : Searches(p) \/ ((Enters(p) \/ Proceeds(p)) /\ UNCHANGED search)

Spec == Init /\ [][Next]_vars

-----------------------------------------------------------------------------
\* p has a reference to the slot it works on.
Refers(p) ==
    pc[p] \in {"igetRead", "got", "iput", "itrunc", "iupdat", "wdir", "updateWrite"}

References(s) ==
    Cardinality({p \in Proc : cur[p] = s /\ Refers(p)})
    + Cardinality({p \in Proc : linked[p] = s})
    + Cardinality({x \in Proc \X (1 .. NOFILE) :
                      x[2] \in DOMAIN files[x[1]] /\ files[x[1]][x[2]] = s})

\* p has the slot it works on locked; link alone writes the directory and
\* calls iput without.
Holds(p) ==
    \/ pc[p] \in {"igetRead", "got", "itrunc", "iupdat", "rdwr", "updateWrite"}
    \/ pc[p] \in {"iput", "wdir"} /\ (call[p] = "link" => linked[p] # 0)

Holders(s) == {p \in Proc : cur[p] = s /\ Holds(p)}

InCore(i) == \E s \in Slot : number[s] = i
BeingRead(s) == \E p \in Proc : cur[p] = s /\ pc[p] = "igetRead"

\* Inode i as the system has it: in core, or on the volume.
Newest(i) ==
    IF \E s \in Slot : number[s] = i /\ ~ BeingRead(s)
    THEN core[CHOOSE s \in Slot : number[s] = i] ELSE volume[i]

Names(i) == {n \in Name : entry[n] = i}

\* p waits for a lock that somebody has.
Waits(p) == asleep[p] # 0 \/ pc[p] = "iwait" \/ (pc[p] = "namei" /\ dlock # NoProc)

(***************************************************************************)
(* Properties.                                                             *)
(***************************************************************************)

\* Types.
TypeOK ==
    /\ system \in Systems
    /\ number \in [Slot -> Ino \cup {NoIno}]
    /\ flag \in [Slot -> SUBSET {"ILOCK", "IWANT", "ICHG"}]
    /\ count \in [Slot -> Nat]
    /\ core \in [Slot -> [mode : BOOLEAN, nlink : Int]]
    /\ volume \in [Ino -> [mode : BOOLEAN, nlink : Int]]
    /\ spare \in Seq(Ino) /\ ilock \in BOOLEAN
    /\ seen \in [Proc -> 0 .. Len(Ilist)]
    /\ entry \in [Name -> Ino \cup {NoIno}] /\ dlock \in Proc \cup {NoProc}
    /\ pc \in [Proc -> {"user", "namei", "ialloc", "iwait", "loop", "ilist",
                        "iend", "iout", "iget", "enfile", "igetRead", "got",
                        "iput", "itrunc", "iupdat", "wdir", "plock", "rdwr",
                        "update", "updateWrite"}]
    /\ call \in [Proc -> Calls \cup {"none"}]
    /\ name \in [Proc -> Name \cup {NoName}] /\ want \in [Proc -> Ino \cup {NoIno}]
    /\ {cur, linked, asleep} \subseteq [Proc -> Slot \cup {0}]
    /\ after \in [Proc -> {"return", "ialloc", "linked", "update"}]
    /\ files \in [Proc -> Seq(Slot)]

\* "There is a unique inode allocated for each active file" (inode.h): no
\* inode is in two slots of the table, and a slot with references is in use.
OneCopy ==
    TypeOK /\ \A r, s \in Slot :
        /\ number[r] = number[s] /\ number[r] # NoIno => r = s
        /\ number[s] = NoIno <=> count[s] = 0

\* i_count is the number of references: open files, and processes in the
\* middle of a call.
CountsReferences == OneCopy /\ \A s \in Slot : count[s] = References(s)

\* "ILOCK: inode is locked": one process at a time works on a locked inode,
\* and an inode is not left locked.
LockHasOneOwner ==
    \A s \in Slot : Cardinality(Holders(s)) = IF Locked(s) THEN 1 ELSE 0

\* link unlocks the file before it locks a directory, because "there will be
\* deadly embraces" otherwise: never does every process wait for another.
NoEmbrace == \E p \in Proc : ~ Waits(p)

\* "IWANT: some process waiting on lock": who sleeps for a lock will be
\* woken by whoever has it; pipe alone overwrites IWANT.  Who waits for the end
\* of a search does so while there is one.
NoLostWakeup ==
    /\ "pipe" \notin Calls =>
         \A p \in Proc : asleep[p] # 0 => {"ILOCK", "IWANT"} \subseteq flag[asleep[p]]
    /\ \A p \in Proc : pc[p] = "iwait" => ilock

\* i_nlink is the number of "directory entries" (inode.h), but for those that
\* creat is about to write.
LinksAreEntries ==
    \A i \in Ino : Newest(i).nlink =
        Cardinality(Names(i))
        + Cardinality({p \in Proc : pc[p] = "wdir" /\ call[p] = "creat" /\ number[cur[p]] = i})

\* So, but for transfers that fail and a link to a file that has just been
\* removed, a name leads to a file, and a file that nobody uses any more has a
\* name; the one who frees it, iput, forgets neither and frees no other.
FilesHaveNames == Fails = {} =>
    /\ LinksAreEntries
    /\ "link" \notin Calls => \A i \in Ino :
         /\ Names(i) # {} => Newest(i).mode
         /\ ~ InCore(i) /\ Newest(i).mode => Names(i) # {}

\* ialloc never gives out the inode of a file, whatever the list of spare
\* inodes holds, unless a transfer failed.
NewIsFresh ==
    [][Fails = {} => \A p \in Proc : GotNew(p) \/ GotPipe(p) =>
         Names(number[cur[p]]) = {} /\ \A q \in Proc \ {p} : pc[q] = "wdir" => cur[q] # cur[p]]_vars

\* "The algorithm keeps up to NICINOD spare I nodes in the super block"; two
\* searches at once do not.
ListFits == Len(spare) <= NICINOD

\* link alone calls iput on a file that it has unlocked.
LockKept == "link" \notin Calls => LockHasOneOwner

\* The lock of an inode does what iget, plock and prele need of it: it has one
\* owner, who waits for it is woken, and somebody can always go on.
LocksWork == LockKept /\ NoLostWakeup /\ NoEmbrace

=============================================================================
