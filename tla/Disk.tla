-------------------------------- MODULE Disk --------------------------------
(***************************************************************************)
(* The RP06 driver of hp.c with the sort of dsort.c and the striping of    *)
(* dkleave.c, and the users of its queues: swap and physio of bio.c, whose *)
(* buffer headers are shared by all processes, and the block cache, which  *)
(* is taken as a process that has a buffer of its own for each transfer.   *)
(*                                                                         *)
(* The controller transfers for one drive at a time; the drives search for *)
(* their sectors meanwhile and raise their attention when they are there.  *)
(* The search that a drive needs, and how a transfer ends, are chosen.     *)
(***************************************************************************)
EXTENDS Integers, FiniteSets, SequencesExt

CONSTANTS
    Worker,     \* processes
    Swap1, Swap2,  \* swbuf1 and swbuf2
    RawBuf,     \* rhpbuf
    Drive,      \* 0 .. NHP-1
    Loads,      \* what may go on: the transfers of each process, the drives that
                \* are off line, and those whose transfers may fail
    Cylinders,  \* the cylinders of a drive
    MaxErrors   \* a transfer is given up after so many errors: 28

Header == {Swap1, Swap2, RawBuf} \cup Worker

\* A call of swap, physio or the cache, which transfers one block at a time;
\* a block of a striped device is on one of stripes drives from first on.
Transfer == [kind : {"swap", "raw", "cache"}, rw : {"READ", "WRITE"},
             dev : [first : Nat, stripes : Nat \ {0}], blk : Nat, count : Nat]

ASSUME DiskAssumption ==
    /\ Cardinality({Swap1, Swap2, RawBuf}) = 3
    /\ {Swap1, Swap2, RawBuf} \cap Worker = {}
    /\ IsFiniteSet(Drive) /\ Drive = 0 .. Cardinality(Drive) - 1
    /\ {Cylinders, MaxErrors} \subseteq Nat \ {0}
    /\ IsFiniteSet(Worker) /\ {"none", "ready", "nobody"} \cap Header = {}
    /\ \A y \in Loads :
         /\ y.offline \cup y.faulty \subseteq Drive
         /\ y.transfers \in [Worker -> Seq({c \in Transfer : c.kind = "cache" => c.count <= 1})]

VARIABLES
    load,    \* the one of Loads that this is
    disk,    \* the controller, its drives and the buffer headers
    job,     \* where each worker is, and the transfers it has before it
    busy,    \* the worker that runs in the kernel
    panicked \* swap met an error

diskVars == <<load, disk, job, busy, panicked>>

\* A header: b_flags, the device and block of the request and its cylinder.
NoRequest == [flags |-> {}, dev |-> [first |-> 0, stripes |-> 1], blk |-> 0, cyl |-> 0]

DiskInit ==
    /\ load \in Loads
    /\ disk = [q |-> [u \in Drive |-> <<>>],      \* hputab: b_actf ... b_actl
               active |-> {},                     \* the drives whose b_active is set
               ready |-> <<>>,                    \* hptab: the drives with a transfer to do
               transfer |-> FALSE,                \* hptab.b_active
               given |-> Swap1,                   \* the request that mbastart was given
               errcnt |-> 0,
               at |-> [u \in Drive |-> 0],        \* hpdc
               searching |-> {}, attention |-> {},
               buf |-> [h \in Header |-> NoRequest],
               waits |-> [w \in Worker |-> "none"]]
    /\ job = [w \in Worker |-> [at |-> "user", rest |-> load.transfers[w], buf |-> Swap1,
                                left |-> 0, blk |-> 0]]
    /\ busy = "nobody" /\ panicked = FALSE

-----------------------------------------------------------------------------
(* dkleave.c: block b of a striped device is on one of its drives in turn  *)

dkblock(h) == h.blk \div h.dev.stripes
dkunit(h) == h.dev.first + (h.blk % h.dev.stripes)

-----------------------------------------------------------------------------
(* dsort.c                                                                 *)

IsRead(d, h) == "READ" \in d.buf[h].flags
Cyl(d, h) == d.buf[h].cyl

\* The place after which a request goes: that of the last request on the way
\* out that is not further out.  Reads go before the writes, but never before
\* the first request, which may be in transfer.
Writes(d, s) == {i \in DOMAIN s : ~IsRead(d, s[i])}
FirstWrite(d, s) == IF Writes(d, s) = {} THEN Len(s) + 1 ELSE Min(Writes(d, s))
Passed(d, s, h) ==
    IF IsRead(d, h) THEN 1 .. FirstWrite(d, s) - 1 ELSE Writes(d, s)
Follow(d, s, h) ==
    LET out == {i \in Passed(d, s, h) : Cyl(d, s[i]) <= Cyl(d, h)}
    IN IF out = {} THEN 0
       ELSE Max({i \in out : \A j \in out : Cyl(d, s[j]) <= Cyl(d, s[i])})

Place(d, s, h) ==
    IF Follow(d, s, h) # 0 THEN Follow(d, s, h)
    ELSE IF IsRead(d, h) /\ Writes(d, s) # {} THEN FirstWrite(d, s) ELSE Len(s)

disksort(d, u, h) == [d EXCEPT !.q[u] = InsertAt(@, Place(d, @, h) + 1, h)]

-----------------------------------------------------------------------------
(* hp.c                                                                    *)

\* iodone of a transfer that is waited for
Iodone(d, h, error) ==
    [d EXCEPT !.buf[h].flags = (@ \ {"WANTED"}) \cup {"DONE"}
                               \cup (IF error THEN {"ERROR"} ELSE {}),
              !.waits = [w \in Worker |-> IF @[w] = h THEN "ready" ELSE @[w]]]

Enqueue(d, u) == [d EXCEPT !.ready = Append(@, u)]

\* Start a drive: it searches unless it is near its sector, and goes to the
\* queue of the controller when it need not search.
Offline(u) == u \in load.offline
hpustart(d, u, near) ==
    LET e == [d EXCEPT !.attention = @ \ {u}]
        s == [e EXCEPT !.active = @ \cup {u}]
    IN CASE d.q[u] = <<>>    -> e
         [] d.q[u] # <<>> /\ u \in d.active -> Enqueue(e, u)
         [] OTHER -> IF Offline(u) \/ (d.at[u] = Cyl(d, Head(d.q[u])) /\ near[u])
                     THEN Enqueue(s, u)
                     ELSE [s EXCEPT !.searching = @ \cup {u}, !.at[u] = Cyl(d, Head(d.q[u]))]

\* Transfer for the first drive in the queue that is on line; requests of the
\* others end with an error.
Fails(d, u) ==
    [FoldLeft(LAMBDA e, h : Iodone(e, h, TRUE), d, d.q[u])
     EXCEPT !.q[u] = <<>>, !.ready = Tail(@), !.errcnt = 0]
Starts(d, u) ==
    CASE d.transfer -> d
      [] ~d.transfer /\ d.q[u] = <<>> -> [d EXCEPT !.ready = Tail(@)]
      [] ~d.transfer /\ d.q[u] # <<>> /\ Offline(u) -> Fails(d, u)
      [] OTHER -> [d EXCEPT !.transfer = TRUE, !.given = Head(d.q[u]),
                            !.at[u] = Cyl(d, Head(d.q[u]))]
hpstart(d) ==
    LET s[k \in 0 .. Len(d.ready)] == IF k = 0 THEN d ELSE Starts(s[k - 1], d.ready[k])
    IN s[Len(d.ready)]

\* A request that is not on the drive ends at once.
hpstrategy(d, h, near) ==
    LET u == dkunit(d.buf[h])
        c == dkblock(d.buf[h])
        s == disksort([d EXCEPT !.buf[h].cyl = c], u, h)
        t == hpustart(s, u, near)
    IN IF u \notin Drive \/ c >= Cylinders THEN Iodone(d, h, TRUE)
       ELSE IF u \in d.active THEN s
       ELSE IF t.transfer THEN t ELSE hpstart(t)

\* Wrong: the drive waits for the next request to start it.
CompletedOnly(d, error, near) ==
    LET u == Head(d.ready)
    IN Iodone([d EXCEPT !.transfer = FALSE, !.errcnt = 0, !.ready = Tail(@),
                        !.active = @ \ {u}, !.q[u] = Tail(@)],
              Head(d.q[u]), error)

\* The transfer is over: the drive starts on its next request.
Completed(d, error, near) ==
    LET u == Head(d.ready)
        e == Iodone([d EXCEPT !.transfer = FALSE, !.errcnt = 0, !.ready = Tail(@),
                              !.active = @ \ {u}, !.q[u] = Tail(@)],
                    Head(d.q[u]), error)
    IN IF e.q[u] = <<>> THEN e ELSE hpustart(e, u, near)

\* Errors are retried, unless the drive is write locked; a data error that
\* was corrected is none, but only core of the system is corrected.
Corrects(d, how) == how = "corrected" /\ "PHYS" \notin d.buf[Head(d.q[Head(d.ready)])].flags
Ended(d, how, near) ==
    LET e == [d EXCEPT !.errcnt = @ + 1]
        bad == e.errcnt > MaxErrors \/ how = "locked"
    IN IF how = "done" THEN Completed(d, FALSE, near)
       ELSE IF bad \/ Corrects(d, how) THEN Completed(e, bad, near)
       ELSE [e EXCEPT !.transfer = FALSE]

Attended(d, as, near) ==
    LET s[k \in 0 .. Cardinality(Drive)] ==
          IF k = 0 THEN d
          ELSE IF k - 1 \in as THEN hpustart(s[k - 1], k - 1, near) ELSE s[k - 1]
    IN s[Cardinality(Drive)]

\* hpintr, after a transfer that ended so, or for the attention of drives alone
hpintr(d, how, near) ==
    IF d.transfer
    THEN hpstart(Attended(Ended(d, how, near), d.attention \ {Head(d.ready)}, near))
    ELSE hpstart(Attended(d, d.attention, near))

-----------------------------------------------------------------------------
(* bio.c: swap, physio and the waiting part of the cache                   *)

InStep(w, a) == busy = w /\ job[w].at = a
This(w) == Head(job[w].rest)
Flags(w) == disk.buf[job[w].buf].flags
Goes(w, a) == job' = [job EXCEPT ![w].at = a] /\ busy' = w
WithFlags(d, h, f) == [d EXCEPT !.buf[h].flags = f]
SleepFor(w, d) == /\ disk' = [d EXCEPT !.waits[w] = job[w].buf]
                /\ busy' = "nobody" /\ UNCHANGED job
SameLoad == UNCHANGED <<load, panicked>>

\* The second swap buffer if the first is busy, and nobody waits for it.
SwapBuf == IF "BUSY" \in disk.buf[Swap1].flags /\ "WANTED" \notin disk.buf[Swap2].flags
           THEN Swap2 ELSE Swap1

StartTransfer(w) ==
    /\ busy = "nobody" /\ job[w].at = "user" /\ job[w].rest # <<>>
    /\ job' = [job EXCEPT ![w] = [at |-> "get", rest |-> @.rest,
                 buf |-> CASE This(w).kind = "swap" -> SwapBuf
                           [] This(w).kind = "raw" -> RawBuf
                           [] This(w).kind = "cache" -> w,
                 left |-> This(w).count, blk |-> This(w).blk]]
    /\ busy' = w
    /\ UNCHANGED disk /\ SameLoad

Rerun(w) ==
    /\ busy = "nobody" /\ disk.waits[w] = "ready"
    /\ disk' = [disk EXCEPT !.waits[w] = "none"] /\ busy' = w
    /\ UNCHANGED job /\ SameLoad

OwnFlags(w) == {"BUSY", This(w).rw} \cup (IF This(w).kind = "cache" THEN {} ELSE {"PHYS"})

\* Wrong: who was woken takes it.
TakenAtFirst(w) == "BUSY" \in Flags(w) /\ "WANTED" \notin Flags(w)

\* The header is got when it is idle.
Taken(w) == "BUSY" \in Flags(w)

GetHeader(w) ==
    /\ InStep(w, "get") /\ SameLoad
    /\ IF Taken(w) THEN SleepFor(w, WithFlags(disk, job[w].buf, Flags(w) \cup {"WANTED"}))
       ELSE disk' = WithFlags(disk, job[w].buf, OwnFlags(w)) /\ Goes(w, "piece")

\* The transfer is made in pieces; physio sets the flags for each.
Piece(w) ==
    /\ InStep(w, "piece") /\ job[w].left > 0 /\ SameLoad
    /\ \E near \in [Drive -> BOOLEAN] :
         LET b == job[w].buf
             f == IF This(w).kind = "raw" THEN OwnFlags(w) ELSE Flags(w)
         IN disk' = hpstrategy([disk EXCEPT !.buf[b] = [@ EXCEPT !.flags = f, !.dev = This(w).dev,
                                                                !.blk = job[w].blk]],
                               b, near)
    /\ Goes(w, "wait")

WakeUp(d, h) == [d EXCEPT !.waits = [w \in Worker |-> IF @[w] = h THEN "ready" ELSE @[w]]]
Awoken(w) == IF "WANTED" \in Flags(w) THEN WakeUp(disk, job[w].buf) ELSE disk

AwaitEnd(w) ==
    /\ InStep(w, "wait") /\ UNCHANGED load
    /\ IF "DONE" \notin Flags(w) THEN SleepFor(w, disk) /\ UNCHANGED panicked
       ELSE /\ disk' = IF This(w).kind = "swap"
                       THEN WithFlags(Awoken(w), job[w].buf, Flags(w) \ {"WANTED", "DONE"})
                       ELSE Awoken(w)
            /\ panicked' = (This(w).kind = "swap" /\ "ERROR" \in Flags(w))
            /\ job' = [job EXCEPT ![w].at = "piece", ![w].left = @ - 1, ![w].blk = @ + 1]
            /\ busy' = w

\* The header is idle again; who waits for it was woken with the last piece.
Finish(w) ==
    /\ InStep(w, "piece") /\ job[w].left = 0 /\ SameLoad
    /\ disk' = WithFlags(disk, job[w].buf, Flags(w) \ {"BUSY", "WANTED", "PHYS"})
    /\ job' = [job EXCEPT ![w].at = "user", ![w].rest = Tail(@)]
    /\ busy' = "nobody"

-----------------------------------------------------------------------------
(* Interrupts                                                              *)

Endings(u) == {"done"} \cup (IF u \in load.faulty THEN {"error", "corrected", "locked"} ELSE {})

TransferEnds ==
    /\ disk.transfer
    /\ \E how \in Endings(Head(disk.ready)), near \in [Drive -> BOOLEAN] :
         disk' = hpintr(disk, how, near)
    /\ UNCHANGED <<load, job, busy, panicked>>

SearchEnds(u) ==
    /\ u \in disk.searching
    /\ disk' = [disk EXCEPT !.searching = @ \ {u}, !.attention = @ \cup {u}]
    /\ UNCHANGED <<load, job, busy, panicked>>

Attention ==
    /\ ~disk.transfer /\ disk.attention # {}
    /\ \E near \in [Drive -> BOOLEAN] : disk' = hpintr(disk, "done", near)
    /\ UNCHANGED <<load, job, busy, panicked>>

Works(w) == StartTransfer(w) \/ Rerun(w) \/ GetHeader(w) \/ Piece(w) \/ AwaitEnd(w) \/ Finish(w)

DiskNext ==
    /\ ~panicked
    /\ \/ \E w \in Worker : Works(w)
       \/ TransferEnds \/ Attention
       \/ \E u \in Drive : SearchEnds(u)

DiskFairness ==
    /\ \A w \in Worker : WF_diskVars(~panicked /\ Works(w))
    /\ WF_diskVars(~panicked /\ TransferEnds) /\ WF_diskVars(~panicked /\ Attention)
    /\ \A u \in Drive : WF_diskVars(~panicked /\ SearchEnds(u))

DiskSpec == DiskInit /\ [][DiskNext]_diskVars /\ DiskFairness

-----------------------------------------------------------------------------
(* Properties                                                              *)

\* Types.
DiskTypeOK ==
    /\ load \in Loads
    /\ \A u \in Drive : Range(disk.q[u]) \subseteq Header /\ disk.at[u] \in 0 .. Cylinders - 1
    /\ Range(disk.ready) \cup disk.active \cup disk.searching \cup disk.attention \subseteq Drive
    /\ disk.given \in Header /\ disk.errcnt \in 0 .. MaxErrors
    /\ \A h \in Header : disk.buf[h].flags \subseteq
         {"BUSY", "WANTED", "DONE", "ERROR", "PHYS", "READ", "WRITE"}
    /\ \A w \in Worker : /\ disk.waits[w] \in Header \cup {"none", "ready"}
                          /\ job[w].at \in {"user", "get", "piece", "wait"}
                          /\ job[w].buf \in Header /\ job[w].left \in Nat
    /\ busy \in Worker \cup {"nobody"} /\ panicked \in BOOLEAN

\* A drive with requests is searching, has its attention raised, or is in the
\* queue of the controller, and only one of these; while that queue is not
\* empty the controller transfers the first request of its first drive.  Each
\* request is in one queue, once.
Underway ==
    /\ disk.transfer <=> disk.ready # <<>>
    /\ disk.transfer => disk.given = Head(disk.q[Head(disk.ready)])
    /\ \A u \in Drive :
         Cardinality({i \in DOMAIN disk.ready : disk.ready[i] = u})
           + Cardinality({u} \cap disk.searching) + Cardinality({u} \cap disk.attention)
           = IF disk.q[u] = <<>> THEN 0 ELSE 1
    /\ \A h \in Header :
         Cardinality({p \in Drive \X (1 .. Cardinality(Header)) :
                        p[2] \in DOMAIN disk.q[p[1]] /\ disk.q[p[1]][p[2]] = h})
           = IF \E w \in Worker : /\ job[w].buf = h /\ job[w].at = "wait"
                                   /\ "DONE" \notin disk.buf[h].flags
             THEN 1 ELSE 0

\* A buffer header is of one process at a time, from the first piece of its
\* transfer to the last; who sleeps for it waits for its owner, and the owner
\* for the end of a transfer that is not there yet.
OneOwner ==
    \A h \in Header :
      LET owners == {w \in Worker : job[w].buf = h /\ job[w].at \in {"piece", "wait"}}
      IN /\ Cardinality(owners) = IF "BUSY" \in disk.buf[h].flags THEN 1 ELSE 0
         /\ \A w \in Worker : disk.waits[w] = h =>
              IF w \in owners THEN "DONE" \notin disk.buf[h].flags ELSE owners # {}

\* Requests and headers, whatever order transfers begin, fail and end in.
RequestsKept == DiskTypeOK /\ Underway /\ OneOwner

\* Every transfer ends: again and again nobody is in one, unless the system
\* has panicked.
AllAreServed == []<>(panicked \/ \A w \in Worker : job[w].at = "user")

=============================================================================
