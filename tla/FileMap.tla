------------------------------ MODULE FileMap ------------------------------
(***************************************************************************)
(* The contents of a file: rdwr and seek of sys2.c, readi and writei of    *)
(* rdwri.c, bmap of subr.c, and itrunc of iget.c.  The file is open once   *)
(* and locked through a transfer, so that each call is a step.             *)
(*                                                                         *)
(* A file is counted in words as long as a block number; a block is NINDIR *)
(* of them, data or block numbers.  Blocks are looked at through the buffer*)
(* cache.  What a call cannot do is chosen with it: read the block bad, and*)
(* copy its stuck-th piece from or to the process; 0 is none.              *)
(***************************************************************************)
EXTENDS Integers, FiniteSets, Sequences

CONSTANTS
    NDIRECT,    \* NADDR-3, addresses of data in the inode
    NINDIR,     \* words of a block
    NBLOCK,     \* blocks of the device after block 0
    Strings,    \* what is written
    Counts,     \* how much is read
    Offsets,    \* where calls begin, a bound
    MaxStuck    \* the last piece that may not be copied

ASSUME FileAssumption ==
    /\ NDIRECT \in Nat \ {0} /\ NINDIR \in Nat \ {0} /\ NBLOCK \in Nat /\ MaxStuck \in Nat
    /\ Offsets \subseteq Int /\ Counts \subseteq Nat /\ \A s \in Strings : s \in Seq(Int)

VARIABLES
    ino,      \* i_addr and i_size
    blocks,     \* the words of every block
    unused,   \* blocks that alloc may return
    offset,      \* f_offset
    last,     \* whether the last call set u_error, and what it read
    lost      \* blocks that a failed truncation left behind

store == <<ino, blocks, unused>>
fileVars == <<ino, blocks, unused, offset, last, lost>>

Block == 1 .. NBLOCK
BSIZE == NINDIR
InBlock == 0 .. BSIZE - 1
Result(err, out) == [err |-> err, out |-> out]
Zeros == [i \in InBlock |-> 0]
\* Blocks that are in no file have old words, which alloc clears.
OldWords == [i \in InBlock |-> 1]

FileInit ==
    /\ ino = [addr |-> [i \in 0 .. NDIRECT + 2 |-> 0], size |-> 0]
    /\ blocks = [b \in 0 .. NBLOCK |-> OldWords] /\ unused = Block /\ lost = {}
    /\ offset = 0 /\ last = Result(FALSE, <<>>)

\* The state that a call works on.
Now == [addr |-> ino.addr, size |-> ino.size, blocks |-> blocks, free |-> unused, err |-> FALSE]

-----------------------------------------------------------------------------
(* bmap                                                                    *)

\* The blocks of data below an address.
Span[level \in 0 .. 3] == IF level = 0 THEN 1 ELSE NINDIR * Span[level - 1]
\* The first block of the file that is reached through level addresses.
First[level \in 1 .. 4] ==
    IF level = 1 THEN NDIRECT ELSE First[level - 1] + Span[level - 1]
\* The addresses on the way to a block of the file: one of the inode, then
\* one of each indirect block.
PathAt(level, n) ==
    <<NDIRECT + level - 1>> \o [d \in 1 .. level |-> (n \div Span[level - d]) % NINDIR]
Path == [bn \in 0 .. First[4] - 1 |->
    IF bn < NDIRECT THEN <<bn>>
    ELSE LET j == CHOOSE l \in 1 .. 3 : First[l] <= bn /\ bn < First[l + 1]
         IN PathAt(j, bn - First[j])]

\* Wrong: what was in the block stays.
AllocatedAsIs(m, at, i, b) ==
    LET n == [m EXCEPT !.free = @ \ {b}]
    IN IF at = 0 THEN [n EXCEPT !.addr[i] = b] ELSE [n EXCEPT !.blocks[at][i] = b]

\* Block b of the free ones, cleared, as address i of the inode or block at.
Allocated(m, at, i, b) ==
    LET n == [m EXCEPT !.free = @ \ {b}, !.blocks[b] = Zeros]
    IN IF at = 0 THEN [n EXCEPT !.addr[i] = b] ELSE [n EXCEPT !.blocks[at][i] = b]

\* w.at is the inode, as 0, or an indirect block; the way may end at an
\* address that is 0, as -1, or at a block that cannot be read, as 0.
Descend(w, i, write, bad) ==
    LET nb == IF w.at = 0 THEN w.m.addr[i] ELSE w.m.blocks[w.at][i]
    IN CASE w.over -> w
         [] ~ w.over /\ w.at # 0 /\ w.at = bad -> [m |-> [w.m EXCEPT !.err = TRUE], at |-> 0, over |-> TRUE]
         [] ~ w.over /\ ~ (w.at # 0 /\ w.at = bad) /\ nb # 0 -> [w EXCEPT !.at = nb]
         [] OTHER ->
              IF write /\ w.m.free # {}
              THEN LET b == CHOOSE b \in w.m.free : \A c \in w.m.free : b <= c
                   IN [w EXCEPT !.m = Allocated(w.m, w.at, i, b), !.at = b]
              ELSE [m |-> [w.m EXCEPT !.err = write], at |-> -1, over |-> TRUE]

Along(path, m, write, bad) ==
    LET w[k \in 0 .. Len(path)] ==
          IF k = 0 THEN [m |-> m, at |-> 0, over |-> FALSE]
          ELSE Descend(w[k - 1], path[k], write, bad)
    IN w[Len(path)]
bmap(m, bn, write, bad) ==
    IF bn \in 0 .. First[4] - 1 THEN Along(Path[bn], m, write, bad)
    ELSE [m |-> [m EXCEPT !.err = TRUE], at |-> 0, over |-> TRUE]

-----------------------------------------------------------------------------
(* readi and writei, piece by piece; r has the state, u_offset, u_count,   *)
(* what has been read, the number of the piece, and whether that was all   *)

Smaller(a, b) == IF a < b THEN a ELSE b
NextPiece(r) == Smaller(BSIZE - (r.off % BSIZE), r.left)
Begun(m, n) == [m |-> m, off |-> offset, left |-> n, out |-> <<>>, piece |-> 1,
                over |-> n = 0 \/ offset < 0]

\* n words, if they can be copied, of what bmap found.
ReadAt(r, w, n, unread, stuck) ==
    LET b == IF w.at < 0 THEN Zeros ELSE r.m.blocks[w.at]
    IN IF w.m.err \/ r.piece = stuck THEN [r EXCEPT !.over = TRUE, !.m.err = TRUE]
       ELSE [m |-> [r.m EXCEPT !.err = unread], off |-> r.off + n, left |-> r.left - n,
             out |-> r.out \o [i \in 1 .. n |-> b[(r.off % BSIZE) + i - 1]],
             piece |-> r.piece + 1, over |-> unread \/ r.left = n]
ReadOf(r, w, bad, stuck) ==
    ReadAt(r, w, Smaller(NextPiece(r), r.m.size - r.off), w.at > 0 /\ w.at = bad, stuck)

ReadPiece(r, bad, stuck) ==
    IF r.over \/ r.m.size <= r.off THEN [r EXCEPT !.over = TRUE]
    ELSE ReadOf(r, bmap(r.m, r.off \div BSIZE, FALSE, bad), bad, stuck)

\* Block b after words of s, the next of them s[k], are put at place on.
Filled(b, on, n, s, k) == [i \in InBlock |-> IF i \in on .. on + n - 1 THEN s[k + i - on] ELSE b[i]]

\* moved words of s are put where bmap found w, unless the block had to be read
\* and cannot.  After a failure in bmap the words go into the buffer of block 0,
\* if that is read; it is not written, but not invalid either.
WriteAt(r, s, w, moved, reads, unread, err) ==
    LET puts == moved # 0 /\ ~ unread /\ (reads \/ ~ err)
        blks == IF puts THEN [w.m.blocks EXCEPT ![w.at] =
                               Filled(@, r.off % BSIZE, moved, s, Len(s) - r.left + 1)]
                ELSE w.m.blocks
    IN [m |-> [w.m EXCEPT !.err = err, !.blocks = blks,
                          !.size = IF r.off + moved > @ THEN r.off + moved ELSE @],
        off |-> r.off + moved, left |-> r.left - moved, out |-> <<>>,
        piece |-> r.piece + 1, over |-> err \/ r.left = moved]
WriteOf(r, s, w, n, unread, stuck) ==
    IF w.at < 0 THEN [r EXCEPT !.m = w.m, !.over = TRUE]
    ELSE WriteAt(r, s, w, IF r.piece = stuck THEN 0 ELSE n, n < BSIZE, unread,
                 w.m.err \/ unread \/ r.piece = stuck)
WriteTo(r, s, w, n, bad, stuck) ==
    WriteOf(r, s, w, n, n < BSIZE /\ w.at > 0 /\ w.at = bad, stuck)

WritePiece(r, s, bad, stuck) ==
    IF r.over THEN r
    ELSE WriteTo(r, s, bmap(r.m, r.off \div BSIZE, TRUE, bad), NextPiece(r), bad, stuck)

readi(n, bad, stuck) ==
    LET r[k \in 0 .. n] == IF k = 0 THEN Begun(Now, n) ELSE ReadPiece(r[k - 1], bad, stuck) IN r[n]
writei(s, bad, stuck) ==
    LET r[k \in 0 .. Len(s)] ==
          IF k = 0 THEN Begun(Now, Len(s)) ELSE WritePiece(r[k - 1], s, bad, stuck)
    IN r[Len(s)]

-----------------------------------------------------------------------------
(* itrunc                                                                  *)

Pointed(words) == {words[i] : i \in DOMAIN words} \ {0}
\* Block b and what is below it, with level levels of addresses; neither is
\* found if b is to be read and cannot.
Freed(b, level, bad) ==
    LET f[l \in 0 .. 3] == [c \in Block |->
          IF l > 0 /\ c = bad THEN {}
          ELSE {c} \cup IF l = 0 THEN {} ELSE UNION {f[l - 1][d] : d \in Pointed(blocks[c])}]
    IN f[level][b]
\* Wrong: one level for all.
LevelAtMostOne(i) == IF i < NDIRECT THEN 0 ELSE 1

LevelOf(i) == IF i < NDIRECT THEN 0 ELSE i - NDIRECT + 1
FreedFrom(addr, bad) ==
    UNION {Freed(addr[i], LevelOf(i), bad) : i \in {j \in DOMAIN addr : addr[j] # 0}}

-----------------------------------------------------------------------------

\* A block that is allocated in the call is in the buffer cache.
Bad == {0} \cup (Block \ (unused \cup lost))
Stuck == 0 .. MaxStuck

\* The end of rdwr.
Return(r, err) ==
    /\ offset' = r.off /\ last' = Result(err, IF err THEN <<>> ELSE r.out)
    /\ ino' = [addr |-> r.m.addr, size |-> r.m.size] /\ blocks' = r.m.blocks /\ unused' = r.m.free
    /\ UNCHANGED lost

Read(n, bad, stuck) == LET r == readi(n, bad, stuck) IN Return(r, r.m.err \/ offset < 0)
Write(s, bad, stuck) == LET r == writei(s, bad, stuck) IN Return(r, r.m.err \/ offset < 0)

\* From wherever it counts, seek may go anywhere, before the file too.
Seek == offset' \in Offsets /\ last' = Result(FALSE, <<>>) /\ UNCHANGED <<store, lost>>

\* creat of the file by another name or process; the offset stays.
Truncate(bad) ==
    /\ ino' = [addr |-> [i \in DOMAIN ino.addr |-> 0], size |-> 0]
    /\ unused' = unused \cup FreedFrom(ino.addr, bad)
    /\ LET left == FreedFrom(ino.addr, 0) \ FreedFrom(ino.addr, bad)
       IN lost' = (lost \cup IF bad = 0 THEN {} ELSE left) /\ last' = Result(left # {}, <<>>)
    /\ blocks' = [b \in DOMAIN blocks |-> IF b = 0 THEN blocks[b] ELSE OldWords]
    /\ UNCHANGED offset

FileNext ==
    \/ \E bad \in Bad, stuck \in Stuck : /\ offset \in Offsets /\ (bad = 0 \/ stuck = 0)
                                         /\ \/ \E n \in Counts : Read(n, bad, stuck)
                                            \/ \E s \in Strings : Write(s, bad, stuck)
    \/ \E bad \in Bad : (bad = 0 \/ lost = {}) /\ Truncate(bad)
    \/ Seek

FileSpec == FileInit /\ [][FileNext]_fileVars

-----------------------------------------------------------------------------
(* Properties                                                              *)

\* Types.
FileTypeOK ==
    /\ ino.addr \in [0 .. NDIRECT + 2 -> Block \cup {0}] /\ ino.size \in Nat
    /\ {unused, lost} \subseteq SUBSET Block /\ offset \in Int
    /\ blocks \in [0 .. NBLOCK -> [InBlock -> Int]]

\* Where a block number stands: in the inode or in an indirect block.
References ==
    LET addr == ino.addr
        f[l \in 0 .. 3] == [b \in Block |->
          IF l = 0 THEN {} ELSE
          {<<b, i>> : i \in {j \in InBlock : blocks[b][j] # 0}}
            \cup UNION {f[l - 1][d] : d \in Pointed(blocks[b])}]
    IN {<<0, i>> : i \in {j \in DOMAIN addr : addr[j] # 0}}
         \cup UNION {f[LevelOf(i)][addr[i]] : i \in {j \in DOMAIN addr : addr[j] # 0}}
To(ref) == IF ref[1] = 0 THEN ino.addr[ref[2]] ELSE blocks[ref[1]][ref[2]]

\* However a file grows, has holes, fails to get a block or loses one to an
\* unreadable map, bmap refers to a block of the file once, and itrunc gives
\* back all that are readable, and none that is in the file.
BlocksInOnePlace ==
    LET held == {To(r) : r \in References}
    IN /\ FileTypeOK
       /\ \A q, r \in References : To(q) = To(r) => q = r
       /\ held \cap unused = {} /\ held \cap lost = {}
       /\ held \cup unused \cup lost = Block

\* Through every level of the map, over its borders and over holes, what is
\* read is what was written there last, and 0 where nothing was.
Word(i) ==
    LET path == Path[i \div BSIZE]
        at[k \in 1 .. Len(path)] ==
          IF k = 1 THEN ino.addr[path[1]]
          ELSE LET b == at[k - 1] IN IF b = 0 THEN 0 ELSE blocks[b][path[k]]
        b == at[Len(path)]
    IN IF i \div BSIZE \notin DOMAIN Path \/ b = 0 THEN 0 ELSE blocks[b][i % BSIZE]
File == INSTANCE ByteFile WITH size <- ino.size, pos <- offset, words <- [i \in 1 .. ino.size |-> Word(i - 1)]
ImplementsFile == File!Spec

=============================================================================
