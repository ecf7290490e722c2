# A verification development of the 32V kernel port

The repository is a port of the UNIX/32V kernel (`src/32v-unx`) that compiles as
an ordinary hosted C program: the system calls, the file system, the block cache
and the process code are the kernel's, the machine primitives (`spl`, `save`,
`resume`, the memory management) are stubs in `missing.c`, and the disk is a file
behind `ansidisk.c`.  This directory holds TLA+ modules that model the kernel's
core logic, the TLC configurations that check them on small instances, and
theorems about them with machine-checked proofs.

Everything here is translated from the C source.  The kernel is *not preemptive*:
a process runs in the kernel until it sleeps or returns to user mode, and only
interrupts come in between, where the priority level lets them.  So the models
take one stretch between two points where something else may run as one action,
and the interesting interleavings are those at `sleep`, at blocking input/output
and at interrupts.

## The system: components, state, operations

| component | source | state it keeps | operations | hard behaviour |
|---|---|---|---|---|
| block buffer cache | `bio.c`, `h/buf.h` | buffer headers, available list, hash of blocks per device | `bread breada bwrite bawrite bdwrite brelse getblk geteblk bflush iodone iowait` | sleeps in the middle of a search, transfers that end by interrupt, write-behind, read-ahead, failed transfers |
| disk drivers | `hp.c ansidisk.c dsort.c dkleave.c ht.c`, `swap physio` of `bio.c` | request queues, the transfer under way, headers shared by raw transfers | `strategy`, `ustart`, `start`, `intr`, `disksort`, `swap`, `physio` | completion inside `strategy` or by interrupt, retries, a drive that searches while another transfers |
| pipes | `pipe.c`, `closef` of `fio.c` | file, offset, counts, IREAD/IWRITE | `pipe readp writep plock prele` | locking, sleeping on the other side, close and signals while asleep |
| inode table | `iget.c` | `inode[]`: flags, counts | `iget iput iupdat itrunc maknode wdir` | lock hand-over, an inode that is freed while others wait |
| file table | `fio.c`, `sys2.c`, `sys3.c` | `file[]`, `u_ofile[]` | `open close dup falloc ufalloc` | shared entries, counts |
| free lists of a file system | `alloc.c` | superblock in core, chain of free blocks on disk | `alloc free ialloc ifree getfs update` | locks across input/output, duplicates, crash |
| names and directories | `nami.c`, `sys4.c` | directory blocks | `namei link unlink mknod chdir` | races between look-up and change |
| file contents | `rdwri.c`, `subr.c` | block map | `readi writei bmap passc cpass` | indirect blocks, boundaries |
| mounts | `sys3.c`, `nami.c`, `iget.c` | `mount[]`, IMOUNT | `smount sumount getmdev` | tests that later sleeps may undo, a walk that meets a device as it comes or goes |
| process life cycle | `sys1.c`, `slp.c` | `proc[]` | `newproc exit wait` | zombies, orphans, references that are passed on |
| scheduling | `slp.c` | run queue, `runin runout` | `sleep wakeup setrun swtch sched` | lost wakeups, swapping of what is asleep |
| shared text | `text.c` | `text[]` | `xalloc xfree xswap xccdec` | a text that disappears while a process waits for its lock |
| signals, tracing | `sig.c` | pending signals, `ipc` | `psignal issig psig stop ptrace` | parent and child hand a buffer to and fro |
| page frames | `malloc.c` | bit map, cache of free frames | `memall memfree` | a cache that overlaps the map, a scan that resumes |
| resource maps | `malloc.c` | sorted list of free runs | `malloc mfree` | first fit, coalescing, a table without a bound |
| callouts | `clock.c` | `callout[]`, times as differences | `timeout clock` | ticks that may not run callouts, callouts that arm others, a full table |
| character lists | `prim.c` | `cblock` free list, `clist` | `getc putc q_to_b b_to_q` | shared pool, boundaries of blocks |
| terminals | `tty.c dz.c cons.c` | raw, canonical and output queues | `ttread ttwrite ttyinput ttstart` | water marks, delimiters, output sleeps |
| multiplexed files | `mx1.c mx2.c` | groups and channels | messages between a server and its channels | everything at once: files, queues, names |
| traps, exec, machine primitives | `trap.c sysent.c sys1.c missing.c machdep.c` | | | machine dependent |
| other devices, accounting, tables | `mem.c sys.c acct.c prf.c tdump.c conf.c` | | | pure input/output |
| mkfs | `src/mkfs` | | builds a file system | sequential |

How they interact: system calls go down through the file table and `namei` to
`readi`/`writei`, from there to the inode table, the free lists and the block
cache, and from the cache to a driver; completion comes back up by interrupt
through `iodone`.  Everybody waits with `sleep(address)` and is woken by
`wakeup(address)`, which makes *every* sleeper on the address runnable and passes
nothing on: the sleeper must test its condition again.  Processes share inodes
through the file table and through current directories; swapping, shared text
and the resource maps meet in `text.c` and `slp.c`; the clock runs callouts,
which restart terminals.

## Modules

| module | models | implements |
|---|---|---|
| `BufferCache` | `bio.c`: every routine of the cache, over a disk that completes requests by interrupt | `BlockStore` |
| `Disk` | `hp.c` with `disksort` (`dsort.c`) and the striping (`dkleave.c`): the queues of the drives and of the controller, searches, transfers, attentions, retries; and `swap`, `physio` (`bio.c`), which share three buffer headers | |
| `FreeList` | `alloc`, `free`, the superblock part of `update` (`alloc.c`) | `FreePool` |
| `Inode` | `iget iput iupdat maknode wdir` (`iget.c`), `ialloc ifree` and the inode part of `update` (`alloc.c`), `plock prele` (`pipe.c`), the last component of a path in `namei`, and `open creat link unlink stat pipe read write close` as far as they touch inodes | |
| `Names` | `namei` (`nami.c`) over whole paths, `iget iput` (`iget.c`), `smount sumount getmdev stat` (`sys3.c`), `open read close` (`sys2.c`), `chdir chroot` (`sys4.c`), the directories in `fork` and `exit`, the inodes in `update` | |
| `FileMap` | `readi writei` (`rdwri.c`), `bmap iomove` (`subr.c`), `itrunc tloop` (`iget.c`), `rdwr seek` (`sys2.c`) for one file | `ByteFile` |
| `Pipe` | `pipe.c`, the close of a side (`fio.c`), the inheritance of its files by `newproc`, `update` passing by | `PipeStream` |
| `ProcLife` | `newproc fork` (`slp.c`, `sys1.c`), `exit wait` (`sys1.c`), `psignal issig psig stop ptrace procxmt` (`sig.c`), the process group of a first terminal (`tty.c`) | |
| `Swapper` | `text.c` whole; `sleep wakeup setrun swtch qswtch expand sched swapin` and the core side of `newproc` (`slp.c`), `exit`, `exece` and `getxfile` (`sys1.c`) as to core and texts | |
| `Terminal` | the line discipline of `tty.c` and the driver `dz.c`: open, close, read, write, `ioctl`, `canon`, echo, delays, stops, interrupts, the carrier | |
| `Clist` | `getc putc q_to_b b_to_q getw putw cinit` (`prim.c`), on chained blocks | `CharQueues` |
| `Callout` | `timeout` and the callouts of `clock` (`clock.c`) | `Timers` |
| `ResourceMap` | `malloc`, `mfree` (`malloc.c`) | `FreeUnits` |
| `CoreMap` | `memall`, `memfree`, `meminit` (`malloc.c`) | |
| `BlockStore FreePool ByteFile PipeStream CharQueues Timers FreeUnits` | what the components above promise, in terms of blocks, words, bytes, characters, calls and units | |
| `BufferCache_proofs`, `Inode_proofs`, `Pipe_proofs`, `ProcLife_proofs`, `Clist_proofs`, `Disk_proofs` | theorems about the modules they are named after | |
| `Blocks_proofs` | theorems about `FreeList` and `FileMap`: where the blocks of a file system and of a file are | |
| `Tables_proofs` | theorems about `Callout`, and about `ResourceMap` and `CoreMap`, the two halves of `malloc.c` | |
| `MC...` | instances for TLC; `MCTables` joins the five sequential structures of `clock.c`, `malloc.c`, `prim.c` and the file map, and `MCDevices` the disk and the terminal, `MCFileSystems` the free list and the names: they share no state, so one of them is at work in each behaviour | |

How state and actions correspond to the code:

- **BufferCache.** `flags`, `blk`, `data`, `free`, `freeWanted` are the buffer
  headers and `bfreelist`; `io` is what the driver has; `pc`, `bp`, `bq`, `want`,
  `ahead`, `ret` stand for the stacks of the processes inside `bio.c`; `chan` is
  `p_wchan` and `cpu` the process that has the processor.  An action runs from one
  point at which an interrupt may be taken to the next; `Interrupt` is `hpintr`
  ending a transfer, with an error if it likes.  `held` is the caller that owns a
  buffer and may be away for long.
- **Disk.** `disk.q[u]` is the list from `hputab[u].b_actf`, `disk.active` its
  `b_active`, `disk.ready` the list of `hptab`, `disk.given` the request that
  `mbastart` was given; `disk.searching` and `disk.attention` are what the
  hardware knows.  `job[w]` is a process in `swap` or `physio`, or the cache's
  one buffer.  What the hardware does (`SearchEnds`, `TransferEnds`, `Attention`)
  calls `hpintr`, which is one action with all that it starts.
- **FreeList.** `super` is `s_free[0..s_nfree-1]`, `content[b]` the list in block
  `b`, `hand` the block number on the stack of `alloc` or `free`.  The steps end
  at `sleep(&s_flock)`, `getblk`, `bread` and `bwrite`.  `dsuper` and `unsaved`
  tell what a crash would find.
- **Inode.** A slot is `number`, `flag` (ILOCK, IWANT, ICHG), `count` and `core`
  (i_mode and i_nlink); `volume` is the I list on the disk, `spare` is `s_inode`,
  `ilock` is `s_ilock` and `seen` how far each search of `ialloc` has come.
  `pc` is where a process sleeps or stands; `after` is where `iput` returns to;
  `cur` and `linked` are the inode pointers on its stack.
- **Names.** `itable` is an inode in core by its device and number (`i_count`,
  ILOCK, IACC, IMOUNT); `mounts` is `mount[]`, with `on` for `m_inodp`, which like the code keeps
  its old value when the slot is free; `cdir`, `rdir` are `u_cdir`, `u_rdir`.
  `task[t].todo` is the stack of a process, from one sleep to the next; `dp` is the inode in
  its hand, `path` what `namei` has still to look up.  A `bread` sleeps or finds its block in
  the cache, as it likes (`Transfers`).  `Turn` is `swtch`: who
  was woken at PINOD goes before who was woken at PRIBIO.
- **FileMap.** `ino` is `i_addr` and `i_size`, `blocks` the words of every block,
  `unused` what `alloc` may return, `offset` is `f_offset`.  A call locks the file
  and is one action; with it is chosen which block cannot be read and which copy
  to the process faults.
- **Pipe.** `file` holds one element per byte, the process that wrote it; its
  length is `i_size`.  `imode` has the IREAD and IWRITE bits, `chan` the address
  slept on: `ip`, `ip+1` or `ip+2`.
- **ProcLife.** A slot of `proc[]` is `stat pid ppid pgrp sig traced told`;
  `lock` and `req` are `ipc`.  The scheduler's slot 0 is left out: nothing is its
  child but init, whose parent never waits.  All signals are one bit.
- **Swapper.** `stat flag size swsize textp` are the fields of `proc[]`, `x` is
  `text[]`; `pages` and `ptext` are what a page table maps, `tcore` and `saved`
  where the text of a slot is.  `todo[a]` is the stack of an actor: the steps of
  the functions it is in, innermost first, each from one sleep or possible change
  of process to the next; `loc[a]` are its locals.  `Second` is the clock waking
  `runin`.
- **Terminal.** `tty` is the structure of `h/tty.h` with its three queues, the
  timers that are out and who sleeps on what; `user` is where a process is in
  the driver; `canonb` is `canonb[]`.  `log` and `got`, which the code does not have,
  say what was put in the raw queue and what was read.
- **Clist.** The free list, `c_next` and `c_info` by address, `c_cc c_cf c_cl`; the
  test for the end of a block is the one of the code, on the bits of an address.
  `lastCall` is the last call of a routine, with what it was given and what it returned.
- **Callout.** `list` is `callout[]` with its times as differences; `running` is
  `p1` of `clock`; `left`, which the code does not have, is what the differences
  are meant to say.
- **ResourceMap, CoreMap.** The arrays and counters of `malloc.c`.  `mfree` does not
  look at the size of the array (`malloc.c:72-80`), which is 70 entries for 8778 blocks
  of swap space (`h/param.h:23`, `conf.c:79`): an entry too many takes the place
  of the end, and the next call goes on into the memory behind.  `Mfree` goes as far as that,
  and `RunsOn` no further.  In `CoreMap` one action is one step of the scan of `memall`.

## What the runs check

The comment before every property says which behaviour of the code it is
about.  Some properties are conjunctions of named parts (`Accounted`,
`LocksWork`, `TableIsSound`, `RequestsKept`, `NobodyMisled`), each with a comment.
The bounds of each run and why they are enough:

- **cache** (two processes, two buffers, two blocks, two contents, transfers
  may fail).  Buffers are fewer than what two processes can have owned and in
  transfer, so the available list empties; `geteblk` takes a buffer from a
  block, so blocks evict one another; two processes meet on a block; two contents
  tell an old version from a new one.  The end of a transfer may come between the
  test of `b_dev` in `getblk` and its `spl6` (`found`).  Shown: one buffer per block, one owner
  per buffer, no leak, no lost wakeup, a clean buffer equals the disk, and the whole is a store
  of blocks: write-behind, read-ahead and reuse cannot be seen.  An owner's buffer is for the block it
  asked for, or for none and marked with B_ERROR (see *Disagreements*); what the write of such a
  buffer does is not followed (`Trapped`).
- **cache_breada_hang** (violation; two processes, two buffers, three blocks).
  See *Disagreements*.
- **devices** (three processes at two drives, or two at a terminal).  `AllLoads`
  are the loads of the disk: more swaps than headers; raw transfers over a
  striped device and over one of its drives; three that want one header; failing
  transfers, given up after two errors; a drive that is off line; a swap that
  fails; reads and writes to be sorted over three cylinders.  `AllSessions` are sessions at the
  terminal: lines typed with erase, kill, backslash and end of file; two readers; two
  writers above the high water mark with delays, echo and the last close; stops;
  interrupts and a lost carrier during reads and writes; a tandem sender; raw
  mode; exclusive use; hanging up and opening again; typing more than TTYHOG;
  character lists that run out; and a write from a bad address by one who is interrupted.  The marks are 2 and 1, so that a write of four
  characters sleeps.  Shown: one owner of a header, each request in one
  queue and the first of it in transfer, nobody asleep for what is there, lines
  read as they were edited, and every transfer and every write ends.
- **file_systems**.  `FreeList` (three processes, two blocks, NICFREE 2, a superblock that lists
  nothing or garbage).  With NICFREE 2 a list with the end of the chain fills at
  once, and a garbage superblock may begin full, so with two blocks a list is
  written to a block, read back, and waited for; three
  processes are an owner of the lock and two who wait, or `update`.  Shown: a
  block is in one place whatever is interleaved and fails; `s_fmod` off means the
  disk has the list, unless the last write of the superblock failed; whoever waits for the
  lock is woken.  The writes of the superblock fail in a system with two processes only
  (`rough`), which are `update` and one at work; the theorem has no such bound.  `Names` (three processes,
  three devices, of which two can be mounted, eight inodes; four of the `Worlds`): *walks*
  changes directory, upward too, over a device that is mounted and unmounted all the
  while; *nests* mounts a device in the other or over its root;
  *writes* has accessed inodes written by `iput`, `stat` and `update` while their
  device is to be unmounted by a process whose path leads through it, so that others who walk there are overtaken
  (`overtaken`) and "no fs" comes true; *parts* has a `chroot`, a `fork` and an `exit`.  Two devices
  are the fewest that nest, three processes a walker, one who mounts and `update`.
  Shown: `i_count` is the number of holders, `mount[]`, IMOUNT and the inodes in core
  agree, and at no sleep does `namei` lose its way; the panic "no imt" is not reached, and "no fs"
  not before `sumount` has overtaken somebody (see *Disagreements*).
- **inode** (two processes, two inodes, two names, one spare number; four
  systems, `Mixes`).  *Files*: two slots for two inodes lets a slot be vacated and reused while
  another sleeps for it; one spare number makes `ialloc` search; `update` takes
  references in between.  *Links* adds `link`, which alone works on a file
  it has unlocked; it has no `creat`, because the race of `link` with the reuse of
  the inode is there (see *Disagreements*).  *Faults* lets reads and writes of
  inodes and directories fail: error paths give back every lock and count.
  *Pipes* has pipes next to files and a table of one slot for two inodes, which
  overflows; a pipe needs no directory, so two searches of the I list meet
  there.  No file is unlinked in it, because a pipe made from an inode that others
  still know is a disagreement of its own.  Shown: one copy in core, exact counts,
  one owner of a lock that no waiter misses, no circle of waits, links that match the
  directory, no inode given out twice.
- **inode_lock**, **ilist_overflow** (violations).  See *Disagreements*.
- **pipe** (two processes, PIPSIZ 2, calls of up to 3 bytes).  A call longer than
  PIPSIZ is cut into pieces, and a write may start at PIPSIZ - 1 and pass PIPSIZ.
  Either process may have both sides, so both may sleep on one side or
  one close while the other sleeps, and `update` is a third party to the lock.  What holds for more
  processes is proved (below); the liveness is only checked here.
- **tables.**  Callouts: three calls, delays to 3, five entries at most, so that
  entries are due together, before and behind one another, and a callout asks for
  another while `clock` runs.  Resource map: seven units, hence runs free on both
  sides of one that is freed, and an array of four entries, which four runs overflow.  Frames: five frames and a cache of three, so that
  the cache empties and fills and the scan wraps round.  Character lists: two
  queues, three blocks of two characters, and calls of up to three, so that a call
  crosses a block, blocks chain and run out; the VIEW `TablesView` leaves out `lastCall`, which no
  action reads and which the refinement looks at in each step.  File map: one direct address, two
  words to a block and two addresses to an indirect one, four blocks: a write of
  two words is put over the borders of every level, over a hole, past the
  reach of the triple level, and when there is no block left for it or for its map.
- **proc_life** (three systems).  Two with three slots, which are init, a parent
  and a child, and may all be given again; eight numbers are few enough
  to wrap and meet processes and groups that live; groups in one and tracing in the
  other.  In the third two parents each trace a child and compete for the one
  `ipc`.
- **swapping** (three processes, three files; five systems).  `Sharing`: one
  text and less core than its users want, with growth and fork; `Plenty`: fewer
  slots of `text[]` than files; `Alone`: texts of one user in little core, with
  exec and exit; `Crowd`: three that exec with two page table maps; `Kept`: sticky
  texts, unlink and umount.  A system where two share a text in little core and exec is the
  run **lost_text** (violation).  The VIEW `Seen` leaves out only the locals of an actor that has
  nothing to do, which it sets before it reads.

Deadlock is not checked where the system may really stop: `InodeLock`,
`InodeList` (a waiter that a lock cleared for another never wakes, or a
clobbered search: the disagreements themselves), `BufferCacheHang` (the hang is what it
shows), `BufferCache` (a buffer for no block leads to the same hang with two blocks), `Swapper` and `SwapperLost` (all may have exited, or panicked), `Devices`
(the calls of a load or session have been made) and `ProcLife` (all may have exited
but init, which has nothing to do when it does not fork).

`Symmetric` is used in safety runs only: over the processes and names of `Inode`
(not its inodes, of which `ialloc` picks in order) and the processes, buffers, blocks
and contents of `BufferCache`, which no definition tells apart.

### Fairness

- `FreeList!LiveSpec`: weak fairness of what a transfer in progress leads to.  The
  driver ends every transfer, with an error at worst, and a process woken runs
  once the processor is free; no system call is required to be made.
- `Pipe!LiveSpec`: weak fairness of `update`'s write and of a process that goes
  to sleep for the lock; strong fairness of a process that is awake in a call,
  because another may find the lock first any number of times, but one woken at
  PINOD (a priority better than any in user mode) runs before those that are yet to enter
  the kernel.  Nobody is required to read, write or close.
- `Disk!DiskFairness`: a search and a transfer that the hardware has begun end,
  its attention is taken, and a process that can run does.
- `Terminal!TtyFairness`: `dzscan` looks at the carriers again and again, the transmitter interrupts when a character has gone out, a
  delay ends, and a process in a call that can run does.  Nobody is required to
  type, to raise the carrier or to start output that was stopped.
- `Callout!CalloutFairness`: the clock ticks at times when code at priority 0 is
  interrupted (the only ticks that run callouts, `clock.c:73`), and `clock` itself
  runs to its end.
- `ProcLife!LiveSpec`: weak fairness of what a process does once it is in the
  kernel; programs may compute for ever and make no call.

## What is proved

The `_proofs` modules prove, for every value of the constants that the named
assumptions of the modules allow, what follows.  Each has one inductive invariant, a
conjunction of named parts, one lemma for each action that says the action keeps
it, and under that one step for each part; the theorems that the runs' properties hold
follow from it.  A refinement has a lemma for each action too, which names the
step of the abstract specification that the action is, or shows that it is none.

- **BufferCache** (any processes, buffers, blocks and contents): `Accounted`,
  `NoLostWakeup`, and that the cache is a `BlockStore`.  The invariant `BInv` adds
  to those where a process may stand with which buffers (`Places`, `Owns`,
  `OneOwner`): that a busy buffer is lost to nobody needs that its owner is a process, a
  transfer or a caller, and one only; that two buffers never have one block
  (`OneBuffer`) needs that `getblk` looks again after each sleep; that a clean buffer equals the disk needs what a transfer in
  progress will leave behind (`Transfers`, `InTransfer`, `Contents`).  `SearchSound` says what an
  interrupt can do to the buffer a search has found before `getblk` takes it: nothing, or
  make it one for no block with B_ERROR set; a process never goes on between the two.  In the refinement the
  content of a block is that of its buffer or of the disk; `ContentSeen` and `OwnerSeen`
  say that there is one such buffer, so that every action is `Acquire`, `Release`,
  `Write`, `Settle`, `Lose` or nothing.
- **FreeList** (any processes, blocks and NICFREE): `OnePlace`, `CleanMeansSaved`,
  and that `alloc` and `free` are a `FreePool`.  The invariant `FInv` speaks of the
  chain from `Leading`, which is the superblock, or the block to which or from which the
  holder of `s_flock` moves the list: the chain ends, passes no block twice, and its
  blocks, the files' and those in the hands of processes are apart (`Apart`); what is
  being written to a block is what will be the chain (`Writing`); and what the disk has is the chain while
  `s_fmod` is off and the last write of the superblock has not failed (`Clean`).  What a chain has is shown by the least counterexample:
  the one of two chains that part has a first place where they do.  That a chain ends needs
  finitely many blocks, which is now part of the assumption.
- **Inode** (any processes, inodes, names, sizes of the tables and of `s_inode`, calls and failing
  transfers, but for the call `pipe`): `CountsReferences` and `LocksWork`.  `pipe` assigns
  `i_count` and `i_flag` without a look at who else knows the inode (see
  *Disagreements*), which is why the theorems are about systems without it; what TLC checks
  includes it.  The invariant `Inv` adds what a process points to where it stands
  (`Places`), that who frees an inode or writes it for the last time is alone with it
  (`LastOne`), that a locked slot has a process at work on it (`LockHasWorker`), without
  `link` that one only (`WorkersLock`), and that those who sleep for it or for a search are
  known (`SleepersKnown`, `SearchOn`).  A slot with count 0 may be taken with its flags
  overwritten because `LockHasWorker` and the counts leave nobody who sleeps for it;
  nobody loses an IWANT that `iput` clears because `prele` wakes all who sleep for the slot.
  All that a step does to the invariant is in `StepOf`; `StepKeeps` says once why such a
  step keeps it, and one lemma for each action that it is such a step.  Counts are
  compared by the one element by which the set of references changes (`Recounted`).
- **ProcLife** (any number of slots, any MAXPID above twice that plus one):
  `TableIsSound`, `OneConversation` and `GroupsHaveLeaders`.
  The invariant `PInv` has the numbers of processes and groups (`Numbers`), `init` and
  the families (`InitLives`, `Family`), where a process may be (`Places`), what `newproc`
  has copied so far (`Copies`), who sleeps in `wait` (`Waiting`), and the conversation
  through `ipc` (`Tracing`, `Asking`).  That the loop of `newproc` ends (`NextPidIsNew`),
  however often `mpid` has wrapped, has two halves: it tries every number there is (`AllAreTried`),
  and not all of them are in use, a pigeonhole over processes and groups (`NumbersAreLeft`).
- **ResourceMap** (any number of units, an array of any size):
  `Ordered`, and that `malloc` and `mfree` are first fit over the free units (`FreeUnits`).
  `MapInv` says that the runs of the list are apart by at least a unit each (`Lists`), which is
  said of any two and not of neighbours, so that it needs no induction over the list.  Neither
  claims that the list stays in its array: both hold up to and with the `mfree` that overwrites
  its end.
- **FileMap** (any NDIRECT and NINDIR, any number of blocks, any strings and sizes of calls,
  any failing transfers and faults): `BlocksInOnePlace`.  The invariant `FileInv` says that the
  blocks in use have levels (`Tree`): a place of the inode of kind k refers to block 0 or to
  a block of level k, a place in an indirect block to one of the level below; no two places
  refer to one block; and a block has a level just when it is neither free nor lost.  `bmap` goes down
  one level per step, so it writes references only into indirect blocks and hands
  only blocks of level 0 to `writei`; a block it takes from `alloc` is filled with zeros
  and put in a place that was empty (`Growth`), which leaves the levels of the others.
  What `tloop` gives back is shown to be the blocks with a level, each once, so a truncated
  file leaves the tree empty and the rest as it was.  `Span`, the loops of `readi` and
  `writei` and `tloop` are recursive functions over bounded arguments: that they exist, and have the values
  their definitions say, is shown by the least argument for which they would not.
- **Disk** (any processes, units, stripes and loads in which every drive is on line,
  `AllOnLine`): `RequestsKept`.  The invariant `JInv` says where a header may be (`JRequests`: in
  the queue of one drive, or at the head of one that the controller has in `disk.ready`, as the state of its
  caller says), that the pieces of a striped request are together what was asked for
  and `b_resid` is what is left of them (`JPieces`), whose each header is (`JOwners`), and
  that who sleeps for a header that another has finds B_WANTED set (`JSleepers`).  A drive that is off
  line keeps `b_active` set when `hpstart` gives its request up, so that a second request to it would
  be queued and never started: there the theorem would be false.  The load with such
  a drive and one request for it is left to TLC.
- **Pipe** (any processes, PIPSIZ > 0, any size of a call): type correctness,
  the exclusion of readers, writers and `update` (`OneHolder`), the bound
  of 2 PIPSIZ on the file (`Bounded`), `i_count` as the number of open sides
  (`CountsSides`), no lost wakeup (`NoLostWakeup`), and the truth of end of file
  and EPIPE (`ToldTheTruth`, an action property).  The inductive invariant `IInv`
  is their conjunction with `Places`, which ties where a process stands to its
  files, the lock and the address it sleeps on.  None is inductive alone: that a
  reader who sleeps for data is woken by the last writer needs that the writer
  closing is the only one left (`Places`), that the count is exact while `update`
  adds itself to it (`CountsSides`, which needs `OneHolder`), and that the bits
  IREAD and IWRITE are set for whoever sleeps.  And that the pipe is a `PipeStream`:
  the stream is what the file holds from the read offset on, so that taking the file back to
  its beginning when all is read is no step of the stream; each action is a step of one call
  (`ReadEnd`, `WriteEnd`, `Close`, `MakePipe`) or none.
- **Callout** (any calls, delays and size of the table): that `callout[]` is `Timers`.  The
  invariant `CInv` says that the differences from what `clock` has still to run add up to the ticks left for
  each call (`DueAsAsked`), that what it has run has no time left (`RunIsOver`), and
  that a call is pending once (`Once`).  The sums are a recursive function of the table; that
  they exist and are the only such function is shown by the least entry where they would not be,
  and each change of the table (an entry between two others, a tick, moving the
  table down) by exhibiting the new sums.  That an insertion while `clock` walks the
  table never lands in the part it has run needs that this part has no time left.
- **Clist** (any queues, characters, number of blocks and block size of at least 2):
  `BlocksKept`, and that the chained blocks are `CharQueues`.  The invariant `Sound` says
  of each queue that its characters have addresses of their own, upwards in a block, of which only the
  last can be at its end (`QueueSound`), that a block has characters of one queue
  (`Apart`), and that the free list has, without repetition, the blocks that no queue is in
  (`FreeAre`, `Covers`).  That `c_cf` and `c_cl` find the right block from the bits of an address is
  a matter of quotient and rest (`AddressUnique`, `NextAddress`); that `getc` may give a
  block back when the next address is at an end needs that no later character is in it.  One
  character more (`Added`) and one less (`Removed`) are each shown once, for a new block
  and for one in use.  A call takes in the characters it is given, in order, as many as it says
  (`Offered`, `Copied`), and gives out those at the head of the queue and no others (`Fewer`); `b_to_q` and `q_to_b` are recursive functions over these.
- **CoreMap** (any number of frames, any size of the cache): the cache names free
  frames, each once; `freemem` is exact; the panics "lost mem" and "dup alloc"
  are unreachable.  The inductive invariant is `CoreIInv`, in which `ScanSound` says what a
  scan in progress has put in the cache; it is also what the run `tables`
  checks.

Assumptions: those named in the modules.  That of `CoreMap`,
`FirstFree + NICMEM <= MaxFree`, is needed: with fewer frames than the cache holds the
first scan, whose stop `lastpos = maxfree` is never met, goes round and pushes
frames twice, and `memall` panics with "dup alloc".  The kernel's memory is larger
than 100 pages.

Induction over the naturals is had from the least element of a set of them (the
lemmas `Least`, from the library's facts about well-founded relations), since the
theorems that take a predicate as a parameter are of no use to the provers.

Only model-checked:

- liveness (`EverySleeperWakes`, `EndsAreNoticed`, `EveryCallIsMade`, `PtraceReturns`,
  `AllAreServed`, `WritersReturn`): the prover treats neither fairness nor ENABLED;
- the refinement of `ByteFile` (`ImplementsFile`), and `Names!StaysOnPath`: what `readi`, `writei` and
  a path compute for every length is an induction over data;
- `Disk!RequestsKept` for a load with a drive off line;
- `Names!CountsHolders` and `MountsAgree`, and `Inode!FilesHaveNames`, which are about more than one table at a time;
- `Swapper!Accounted` and `NoLostWakeup`: `xswap` unlocks a text that a process it has
  let run may have locked again, so that an inductive invariant would have to
  speak of the whole stack of each process;
- `Terminal!NobodyMisled` and `ReadsEditedLines`: the instances have programs chosen so that
  what a line means is known.

## Disagreements between the code and its documentation

Four are runs of their own:

- `cache_breada_hang`: `bio.c:219` says that `incore` is there "to avoid getting
  hung up on a wait in breada".  `breada` calls `getblk` for the second block
  while it owns the first; when every buffer is owned that way all wait for ever.
- `inode_lock`: `h/inode.h:54` says of ILOCK "inode is locked".  `link` unlocks the file,
  and at its end calls `iput`, whose `prele` clears the ILOCK of whoever has locked
  it meanwhile.
- `ilist_overflow`: `alloc.c:144` says that `ialloc` "keeps up to NICINOD spare I
  nodes in the super block".  `s_ilock` is looked at once, before `loop`; a process
  that comes back to `loop` after it slept in `iget` and `iput` begins a search next to
  one that goes on, and each looks at the limit after it has stored: the second
  stores beyond `s_inode`.
- `lost_text`: `text.c:199` panics with "lost text" when no loaded user of a
  loaded text is found.  `swapin` counts a process in `x_ccount` before its image is
  read (`slp.c:374`); if the other loaded user gives the text up and a third
  execs it meanwhile, none is found.

`getblk` does not promise what the comment at its head says (`bio.c:236`: "Assign a buffer
for the given block").  It compares `b_dev` at spl0 (`bio.c:261`) and looks at B_BUSY after `spl6` (`:263`).  When an
asynchronous transfer of that block fails in between, `brelse` sets `b_dev` to NODEV and clears
B_BUSY, and `getblk` returns a buffer for no block.  B_DONE is set in it, so `bread` returns it without
a transfer and without `u_error`; writing it calls a strategy routine through
`bdevsw[major(NODEV)]`, beyond the table (`Trap`).  The passing run `cache` goes through it, and
`Exclusive` says what is left of the promise.  The modules above the cache
(`FreeList`, `Inode`, `Names`, `FileMap`) take the block they ask for, or a failed read, for what they get.

Others can be had from the same modules by the constants given; but where it is said, no passing run
includes the calls that lead to them.

- `link` of a file removed meanwhile (`sys2.c:251`, admitted at 229-231): it
  raises the links of an inode that `iput` has freed or will free.  `Inode` with
  the calls `creat`, `link`, `unlink` violates `NewIsFresh`.
- `pipe` assigns `i_count = 2` and `i_flag` (`pipe.c:60`, `:62`) of an inode that
  a process which opened the former file may still refer to or wait for: `Inode` with
  the calls `creat open unlink pipe close` and two files per process violates
  `CountsReferences` and `NoLostWakeup`.
- `iget` that cannot read an inode calls `iput` (`iget.c:85`), which acts on what was in the slot
  before, and `maknode` does not look whether `wdir` wrote the entry
  (`iget.c:299`): a system of `Inode` with names and failing `iget` or `wdir`
  leaves names without files; a failed `iupdat` of a new file leaves its inode free for the next `ialloc`.
- `update` copies the superblock while `alloc` or `free` has it locked
  (`alloc.c:308`, against `h/filsys.h:11`): `s_flock` is looked at before `getblk`
  sleeps and not after.  That alone does no harm, since both set `s_fmod` at their end.
- `update` clears `s_fmod` before `bwrite` and does not look whether the write
  failed (`alloc.c:311-314`): `s_fmod` is off and the disk lacks the list, till the next change and
  the next `update`.  `CleanMeansSaved` claims nothing meanwhile (`failed`).  And where `getblk` gives it
  a buffer with B_ERROR, `update` passes on without releasing it (`alloc.c:309-310`);
  `FreeList` has no buffers to lose.
- `pipe.c:15-16` calls PIPSIZ "the max size of the file"; the file may reach
  2 PIPSIZ - 1 bytes (`pipe.c:180`), which `Pipe!Bounded` states and the theorem
  `SizeBounded` proves.
- `timeout` compares the place of insertion with the size of the table, not the
  length of the list (`clock.c:167`): with `Room = NCALL` the list of `Callout`
  outgrows the table without `overflow`.
- A drive that is off line keeps `b_active` set when its requests are ended
  with an error (`hp.c:264-271`): the next request for it is never begun.  `Disk`
  with a second request in the load `Dead` violates `AllAreServed`.
- `canon` sleeps with a line taken and not counted; a signal or a lost carrier
  flushes the queue and clears `t_delct` meanwhile, and the count goes below zero
  (`tty.c:314`): `Terminal!DelimitersCounted` rules those sessions out.  Likewise
  `TIOCSETN` that changes the mode leaves `t_delct` as it was.
- Output stopped by the stop character is let go by any other character typed,
  but without `ttstart` when nothing is echoed (`tty.c:390`): it
  stays where it is till the next write.  `WritersReturn` excepts sessions with a stop.  If one character is
  left that way and a process drains the queue, its own call of `t_oproc` takes the character, and it sleeps for a
  queue that is empty (`tty.c:256-260`), for which `dzstart` wakes nobody (`dz.c:260-276`); no session has that.
- `cpass` returns -1 at a bad address and leaves `u_count` as it is (`subr.c:165-169`); `ttwrite` hands the -1 to
  `ttyoutput` and goes round while `u_count` is not 0 (`tty.c:620-631`), so that such a write ends only when a
  signal finds it asleep at the high water mark.  The session `Astray` goes through it, and `WritersReturn`
  excepts it (`Faulted`).
- `xuntext` looks for a slot with the inode, sleeps in `xlock` and takes `x_iptr` without looking again
  (`text.c:350-368`).  Where two wait there for one slot, two unlinks or an unlink and an unmount while the last
  user swaps the text out, the second frees the same swap space again and goes through a NULL
  `x_iptr`.  The system `Kept` goes through it: `Stale` stops it as the panic "no text", which is no message of the
  code, and what follows is not modelled.
- `writep` lowers the count by what it asked `writei` to write and does not look whether it did
  (`pipe.c:180-182`): where a write fails, the call goes on with the next piece and says it has written all.
  `Pipe` lets any part of a piece be written (`WriteEnd`) and any part be read (`ReadEnd`); bytes stand for their writers, so
  that the gap shows in `PipeStream` as a shorter write, and no property says a call is written whole.
- `TIOCHPCL` sets HUPCLS in `t_state`, `dzclose` tests `t_flags` (`dz.c:114`).
- `bmap` returns 0 with `u_error` set for a block beyond its reach or below an
  unreadable map; `writei` tests for less than 0 only (`rdwri.c:117-133`), copies
  to the buffer of block 0 and lets the file grow.  `FileMap` does the same, and
  `ByteFile!WriteFails` says what is left of the promise; block 0 is in no file.
- `smount` finds a free slot and sleeps twice before it takes it (`sys3.c:164-181`): two
  mounts at once take the same one, and the first inode keeps IMOUNT without a
  slot, the "no imt" that `iget.c:28` says cannot happen.  Likewise two `umount` of one
  device, between the test and the end of `sumount`, give its inode back twice.
  `Names` with a world where two processes mount violates `MountsAgree` and `CountsHolders`.
- `newproc` copies `u_cdir` without counting it (`slp.c:559-562`, commented out), while
  `exit` and `chdir` give one reference back for each process: `Names` with two processes that change
  directory violates `CountsHolders`, and at last `rootdir` itself has none.
- A process that has been woken in `iget` and has not run yet has no reference, and `sumount` does not see
  it.  Where the process that unmounts woke it itself, on a path through that device, and reads nothing but cached
  blocks from there on, it finishes first; the other then takes an inode of an unmounted device into
  core: the "no fs" that `alloc.c:259` says cannot happen, with one process that mounts and nobody swapped
  out.  The world *writes* goes through it (`overtaken`, `Panicked`).  After that, `MountsAgree` claims no longer that
  all inodes in core are of mounted devices.
- `sumount` gives the special file back before it looks whether an inode of the device is
  in core (`sys3.c:211-227`).  Where the special file lies on that device itself, a process that was woken
  for it and has no reference yet brings it in afterwards, from a device that is gone: `Names` with
  such a tree violates `MountsAgree`.
- `itrunc` loses the blocks below a map that it cannot read (`FileMap`'s `lost`).

## What is not modelled, and the abstractions in what is

- `BufferCache`: one device; the raw transfers (`physio`, `swap`) are in `Disk`.
  `ansidisk.c`, which completes inside `strategy`, is the interrupt that comes at once.
- `Disk`: registers, the correction of data errors by patching core, adapters and tapes
  (`mba.c`, `uba.c`, `ht.c`).  What search a drive needs and how a transfer ends is
  chosen.
- `FreeList`: a write of a list to a block that fails (`alloc.c:108`; the code does not look, and
  promises nothing then; that of the superblock may fail); a garbage superblock lists numbers out of range only.
- `Inode`: one directory, no mount points (in `Names`), texts, devices, shared files or
  permissions; what is stored beyond `s_inode` is not followed into the
  locks that lie behind it.
- `FileMap`: one file that one process uses, so that the read of `f_offset` before the
  lock (`sys2.c`) is not seen; read-ahead, which changes nothing but time; special
  files.
- `ProcLife`: memory, texts, files, and the current directory (in `Names`); the group of a terminal after all
  processes of it have gone (`tty.c:62-64`, `:77`), which `newproc` does not look at; which signal it is.
- `Swapper`: u-areas and page tables (their core is always there), priorities, the
  exhaustion of swap space (a panic), data kept on the swap device by `ptrace`.
  Races in `text.c` that the systems of the run rule out: `xalloc` that waited in `xlock`
  may attach to a slot that `xumount` has freed (`text.c:204` unlocks it twice
  besides), and a process that waits for a page table map in the middle of
  `xccdec` may be swapped out itself.
- `Terminal`: reads into a bad address (`passc`); columns, tabs, upper case, `TIOCSETC`; the console (`cons.c`), which
  does the same through other registers.
- `Names`: permissions, files made or removed, reads that fail, a full table, opening and
  closing the device; the processes stay in core.  Only one of the processes that start in a directory leaves
  it (see *Disagreements*).
- Not modelled at all: the multiplexed files of `mx1.c` and `mx2.c`, whose channels are
  freed while others point to them (`mxread` goes round for ever when a
  channel with a bit in `g_datq` is freed, `mx2.c:267-271`), so that invariants would be about what
  the code does not keep; and the components marked `not_modelled` in
  `PROJECT.json`, with the reason.

## Plan

Done: the modules above; `BufferCache`, `FreeList`, `FileMap`, `Inode`, `Disk`, `Pipe`, `ProcLife`, `Callout`, `Clist`,
`ResourceMap` and `CoreMap` are proved.  Theorems to come: `CountsHolders` and `MountsAgree` of `Names` for one
who mounts, `FilesHaveNames` of `Inode`, and `Accounted` of `Swapper`
for processes without texts.
