---------------------------- MODULE Disk_proofs ----------------------------
(***************************************************************************)
(* Proofs about Disk, where no drive is off line: every request is kept,   *)
(* each drive with requests is on its way to the controller, and a buffer  *)
(* header has one owner (RequestsAreKept).                                 *)
(***************************************************************************)
EXTENDS Disk, FiniteSetTheorems, SequenceTheorems, WellFoundedInduction, TLAPS

Flag7 == {"BUSY", "WANTED", "DONE", "ERROR", "PHYS", "READ", "WRITE"}
Call == {c \in Transfer : c.kind = "cache" => c.count <= 1}
BufSet == [flags : SUBSET Flag7, dev : [first : Nat, stripes : Nat \ {0}], blk : Nat, cyl : Nat]
DiskSet == [q : [Drive -> Seq(Header)], active : SUBSET Drive, ready : Seq(Drive),
            transfer : BOOLEAN, given : Header, errcnt : Nat, at : [Drive -> 0 .. Cylinders - 1],
            searching : SUBSET Drive, attention : SUBSET Drive,
            buf : [Header -> BufSet], waits : [Worker -> Header \cup {"none", "ready"}]]

\* Nobody switches a drive off.
AllOnLine == \A y \in Loads : y.offline = {}

-----------------------------------------------------------------------------
(* The queues of drives and controller.                                    *)

\* A request is in one queue, once; it is on its drive.
Once(d) ==
    \A u, v \in Drive : \A i \in 1 .. Len(d.q[u]), j \in 1 .. Len(d.q[v]) :
       d.q[u][i] = d.q[v][j] => u = v /\ i = j
OnDrive(d) ==
    \A u \in Drive : \A i \in 1 .. Len(d.q[u]) : d.buf[d.q[u][i]].cyl < Cylinders
Queued(d, h) == \E u \in Drive : \E i \in 1 .. Len(d.q[u]) : d.q[u][i] = h

\* A drive searches, or calls for attention, or is once in the queue of the
\* controller.
Apart(d) ==
    /\ \A i, j \in 1 .. Len(d.ready) : d.ready[i] = d.ready[j] => i = j
    /\ \A i \in 1 .. Len(d.ready) : d.ready[i] \notin d.searching \cup d.attention
    /\ d.searching \cap d.attention = {}
InReady(d, u) == \E i \in 1 .. Len(d.ready) : d.ready[i] = u
OnWay(d, u) == u \in d.searching \cup d.attention \/ InReady(d, u)

\* It does so while it has requests.
DriveOK(d, u) == /\ d.q[u] # <<>> <=> OnWay(d, u)
                 /\ d.q[u] # <<>> <=> u \in d.active

\* The controller transfers the first request of its first drive.
Transfers(d) == d.transfer => d.ready # <<>> /\ d.given = Head(d.q[Head(d.ready)])

Base(d) == /\ d \in DiskSet /\ Once(d) /\ OnDrive(d) /\ Apart(d) /\ Transfers(d)
DevInv(d) == Base(d) /\ \A u \in Drive : DriveOK(d, u)
\* All but drive u, which has requests and was not started.
ButFor(d, u) == /\ Base(d) /\ \A v \in Drive \ {u} : DriveOK(d, v)
                /\ d.q[u] # <<>> /\ ~ OnWay(d, u) /\ u \notin d.active
AtWork(d) == DevInv(d) /\ (d.ready # <<>> => d.transfer)

\* What a step of the driver does to the requests: nothing; one is put in a
\* queue; one has ended.
Same(d, e) == e.buf = d.buf /\ e.waits = d.waits /\ \A h \in Header : Queued(e, h) <=> Queued(d, h)
Adds(d, e, h) ==
    /\ \A g \in Header : e.buf[g].flags = d.buf[g].flags
    /\ e.waits = d.waits /\ \A g \in Header : Queued(e, g) <=> Queued(d, g) \/ g = h
IsDone(d, e, h) ==
    /\ \A g \in Header \ {h} : e.buf[g].flags = d.buf[g].flags
    /\ \E f \in SUBSET {"ERROR"} :
         e.buf[h].flags = (d.buf[h].flags \ {"WANTED"}) \cup {"DONE"} \cup f
    /\ \A w \in Worker : e.waits[w] = IF d.waits[w] = h THEN "ready" ELSE d.waits[w]
Ends(d, e, h) ==
    IsDone(d, e, h) /\ \A g \in Header : Queued(e, g) <=> Queued(d, g) /\ g # h

-----------------------------------------------------------------------------
(* Facts about constants and sequences.                                    *)

\* The numbers of a drive and a request.
LEMMA Constants ==
    /\ Cylinders \in Nat /\ Cylinders > 0 /\ MaxErrors \in Nat /\ MaxErrors > 0
    /\ IsFiniteSet(Worker) /\ "none" \notin Header /\ "ready" \notin Header /\ "nobody" \notin Worker
    /\ Swap1 \in Header /\ Swap2 \in Header /\ RawBuf \in Header /\ Worker \subseteq Header
    /\ IsFiniteSet(Header)
  <1>1. IsFiniteSet(Worker) /\ IsFiniteSet({Swap1, Swap2, RawBuf})
    <2>1. IsFiniteSet({Swap1}) /\ IsFiniteSet({Swap2}) /\ IsFiniteSet({RawBuf})
      BY FS_Singleton
    <2>2. IsFiniteSet({Swap1} \cup {Swap2} \cup {RawBuf})
      BY <2>1, FS_Union
    <2>3. {Swap1} \cup {Swap2} \cup {RawBuf} = {Swap1, Swap2, RawBuf}
      OBVIOUS
    <2> QED  BY <2>2, <2>3, DiskAssumption
  <1>2. IsFiniteSet(Header)
    BY <1>1, FS_Union DEF Header
  <1> QED  BY <1>1, <1>2, DiskAssumption DEF Header

LEMMA DrivesAre == Drive = 0 .. Cardinality(Drive) - 1 /\ Cardinality(Drive) \in Nat
  BY DiskAssumption, FS_CardinalityType

\* The least of a set of numbers.
LEMMA LeastOf ==
    ASSUME NEW S, S \subseteq Nat, S # {}
    PROVE  \E k \in S : \A j \in S : k <= j
  <1> DEFINE R == OpToRel(<, Nat)
  <1>1. IsWellFoundedOn(R, Nat)
    BY NatLessThanWellFounded
  <1>2. PICK k \in S : \A j \in S : <<j, k>> \notin R
    BY <1>1, WFMin
  <1>3. \A j \in S : j \in Nat /\ k \in Nat
    BY <1>2
  <1>4. \A j, i \in Nat : <<j, i>> \in R <=> j < i
    BY DEF OpToRel
  <1>5. ASSUME NEW j \in S PROVE k <= j
    <2>1. j \in Nat /\ k \in Nat
      BY <1>3, <1>5
    <2>2. <<j, k>> \notin R
      BY <1>2, <1>5
    <2>3. ~ (j < k)
      BY <1>4, <2>1, <2>2
    <2> QED  BY <2>1, <2>3
  <1> QED  BY <1>5

\* A set of places of a sequence has a first and a last.
LEMMA FirstAndLast ==
    ASSUME NEW n \in Nat, NEW S, S \subseteq 1 .. n, S # {}
    PROVE  Min(S) \in S /\ Max(S) \in S
  <1>0. S \subseteq Nat
    OBVIOUS
  <1>1. PICK k \in S : \A j \in S : k <= j
    BY <1>0, LeastOf
  <1>2. \E k1 \in S : \A j \in S : k1 >= j
    <2> DEFINE T == {n - i : i \in S}
    <2>1. T \subseteq Nat /\ T # {}
      OBVIOUS
    <2>2. PICK t \in T : \A j \in T : t <= j
      BY <2>1, LeastOf
    <2>3. PICK i \in S : t = n - i
      OBVIOUS
    <2>4. ASSUME NEW j \in S PROVE i >= j
      <3>1. n - j \in T
        OBVIOUS
      <3>2. n - i <= n - j
        BY <2>2, <2>3, <3>1
      <3> QED  BY <3>2
    <2> QED  BY <2>4
  <1> QED  BY <1>1, <1>2 DEF Min, Max

\* What is inserted, and where the rest is then.
LEMMA Insertion ==
    ASSUME NEW s \in Seq(Header), NEW i \in 1 .. Len(s) + 1, NEW e \in Header
    PROVE  /\ InsertAt(s, i, e) \in Seq(Header)
           /\ Len(InsertAt(s, i, e)) = Len(s) + 1
           /\ \A j \in 1 .. i - 1 : InsertAt(s, i, e)[j] = s[j]
           /\ InsertAt(s, i, e)[i] = e
           /\ \A j \in i + 1 .. Len(s) + 1 : InsertAt(s, i, e)[j] = s[j - 1]
  <1> DEFINE a == SubSeq(s, 1, i - 1)
             b == <<e>>
             d == SubSeq(s, i, Len(s))
             ab == a \o b
  <1>0. Len(s) \in Nat /\ i \in Nat /\ i - 1 \in Int /\ (\A j \in 1 .. Len(s) : s[j] \in Header)
    OBVIOUS
  <1>1. a \in Seq(Header) /\ Len(a) = i - 1 /\ \A j \in 1 .. i - 1 : a[j] = s[j]
    <2>1. \A j \in 1 .. i - 1 : s[j] \in Header
      BY <1>0
    <2>2. /\ a \in Seq(Header) /\ Len(a) = IF 1 <= i - 1 THEN (i - 1) - 1 + 1 ELSE 0
          /\ \A j \in 1 .. (i - 1) - 1 + 1 : a[j] = s[1 + j - 1]
      BY <1>0, <2>1, SubSeqProperties
    <2>3. Len(a) = i - 1
      BY <1>0, <2>2
    <2>4. ASSUME NEW j \in 1 .. i - 1 PROVE a[j] = s[j]
      <3>1. j \in 1 .. (i - 1) - 1 + 1 /\ 1 + j - 1 = j
        BY <1>0
      <3> QED  BY <2>2, <3>1
    <2> QED  BY <2>2, <2>3, <2>4
  <1>2. d \in Seq(Header) /\ Len(d) = Len(s) - i + 1 /\ \A j \in 1 .. Len(s) - i + 1 : d[j] = s[i + j - 1]
    <2>1. \A j \in i .. Len(s) : s[j] \in Header
      BY <1>0
    <2>2. /\ d \in Seq(Header) /\ Len(d) = IF i <= Len(s) THEN Len(s) - i + 1 ELSE 0
          /\ \A j \in 1 .. Len(s) - i + 1 : d[j] = s[i + j - 1]
      BY <1>0, <2>1, SubSeqProperties
    <2> QED  BY <1>0, <2>2
  <1>3. b \in Seq(Header) /\ Len(b) = 1 /\ b[1] = e
    OBVIOUS
  <1>4. InsertAt(s, i, e) = ab \o d
    BY DEF InsertAt
  <1> HIDE DEF a, b, d
  <1>5. ab \in Seq(Header) /\ Len(ab) = i /\ \A j \in 1 .. i : ab[j] = IF j <= i - 1 THEN a[j] ELSE b[j - (i - 1)]
    <2>1. /\ ab \in Seq(Header) /\ Len(ab) = Len(a) + Len(b)
          /\ \A j \in 1 .. Len(a) + Len(b) : ab[j] = IF j <= Len(a) THEN a[j] ELSE b[j - Len(a)]
      BY <1>1, <1>3, ConcatProperties
    <2>2. Len(a) + Len(b) = i
      BY <1>0, <1>1, <1>3
    <2> QED  BY <1>1, <2>1, <2>2
  <1> HIDE DEF ab
  <1>6. /\ ab \o d \in Seq(Header) /\ Len(ab \o d) = Len(s) + 1
        /\ \A j \in 1 .. Len(s) + 1 : (ab \o d)[j] = IF j <= i THEN ab[j] ELSE d[j - i]
    <2>1. /\ ab \o d \in Seq(Header) /\ Len(ab \o d) = Len(ab) + Len(d)
          /\ \A j \in 1 .. Len(ab) + Len(d) : (ab \o d)[j] = IF j <= Len(ab) THEN ab[j] ELSE d[j - Len(ab)]
      BY <1>2, <1>5, ConcatProperties
    <2>2. Len(ab) + Len(d) = Len(s) + 1
      BY <1>0, <1>2, <1>5
    <2> QED  BY <1>5, <2>1, <2>2
  <1>7. ASSUME NEW j \in 1 .. i - 1 PROVE (ab \o d)[j] = s[j]
    <2>1. j \in 1 .. i /\ j \in 1 .. Len(s) + 1 /\ j <= i /\ j <= i - 1
      BY <1>0
    <2> QED  BY <1>1, <1>5, <1>6, <2>1
  <1>8. (ab \o d)[i] = e
    <2>1. i \in 1 .. i /\ i \in 1 .. Len(s) + 1 /\ i <= i /\ ~ (i <= i - 1) /\ i - (i - 1) = 1
      BY <1>0
    <2> QED  BY <1>3, <1>5, <1>6, <2>1
  <1>9. ASSUME NEW j \in i + 1 .. Len(s) + 1 PROVE (ab \o d)[j] = s[j - 1]
    <2>1. /\ j \in 1 .. Len(s) + 1 /\ ~ (j <= i)
          /\ j - i \in 1 .. Len(s) - i + 1 /\ i + (j - i) - 1 = j - 1
      BY <1>0
    <2> QED  BY <1>2, <1>6, <2>1
  <1> QED  BY <1>4, <1>6, <1>7, <1>8, <1>9

\* A request goes into a queue behind another.
LEMMA Inserted ==
    ASSUME NEW s \in Seq(Header), NEW h \in Header, NEW p \in 0 .. Len(s)
    PROVE  /\ InsertAt(s, p + 1, h) \in Seq(Header) /\ Len(InsertAt(s, p + 1, h)) = Len(s) + 1
           /\ \A i \in 1 .. Len(s) + 1 :
                InsertAt(s, p + 1, h)[i] = IF i <= p THEN s[i] ELSE IF i = p + 1 THEN h ELSE s[i - 1]
  <1> DEFINE k == p + 1
  <1>0. k \in 1 .. Len(s) + 1 /\ k = p + 1 /\ Len(s) \in Nat /\ p \in Nat
    OBVIOUS
  <1> HIDE DEF k
  <1>1. /\ InsertAt(s, k, h) \in Seq(Header)
        /\ Len(InsertAt(s, k, h)) = Len(s) + 1
        /\ \A j \in 1 .. k - 1 : InsertAt(s, k, h)[j] = s[j]
        /\ InsertAt(s, k, h)[k] = h
        /\ \A j \in k + 1 .. Len(s) + 1 : InsertAt(s, k, h)[j] = s[j - 1]
    BY <1>0, Insertion
  <1> DEFINE r == InsertAt(s, k, h)
  <1>2. r = InsertAt(s, p + 1, h)
    BY Zenon DEF k
  <1> HIDE DEF r
  <1>3. ASSUME NEW i \in 1 .. Len(s) + 1
        PROVE  r[i] = IF i <= p THEN s[i] ELSE IF i = p + 1 THEN h ELSE s[i - 1]
    <2>1. i <= p => i \in 1 .. k - 1
      BY <1>0
    <2>2. ~ (i <= p) /\ i # p + 1 => i \in k + 1 .. Len(s) + 1
      BY <1>0
    <2> QED  BY <1>0, <1>1, <2>1, <2>2 DEF r
  <1> QED  BY <1>1, <1>2, <1>3 DEF r

-----------------------------------------------------------------------------
(* dsort.c                                                                 *)

\* A request goes behind one that is there, if there is any.
LEMMA PlaceIs ==
    ASSUME NEW d \in DiskSet, NEW s \in Seq(Header), NEW h \in Header
    PROVE  Place(d, s, h) \in 0 .. Len(s) /\ (s # <<>> => Place(d, s, h) >= 1)
  <1> DEFINE W == Writes(d, s)
             out == {i \in Passed(d, s, h) : Cyl(d, s[i]) <= Cyl(d, h)}
             far == {i \in out : \A j \in out : Cyl(d, s[j]) <= Cyl(d, s[i])}
  <1>0. Len(s) \in Nat /\ DOMAIN s = 1 .. Len(s) /\ (s # <<>> => Len(s) >= 1)
    OBVIOUS
  <1>1. W \subseteq 1 .. Len(s)
    BY <1>0 DEF Writes
  <1>2. W # {} => FirstWrite(d, s) \in 1 .. Len(s)
    BY <1>0, <1>1, FirstAndLast DEF FirstWrite
  <1>3. Passed(d, s, h) \subseteq 1 .. Len(s)
    <2>1. 1 .. FirstWrite(d, s) - 1 \subseteq 1 .. Len(s)
      <3>1. CASE W = {}
        BY <1>0, <3>1 DEF FirstWrite
      <3>2. CASE W # {}
        BY <1>0, <1>2, <3>2
      <3> QED  BY <3>1, <3>2
    <2> QED  BY <1>1, <2>1 DEF Passed
  <1>4. \A i \in 1 .. Len(s) : Cyl(d, s[i]) \in Nat
    <2>1. d.buf \in [Header -> BufSet] /\ \A i \in 1 .. Len(s) : s[i] \in Header
      BY DEF DiskSet
    <2> QED  BY <2>1 DEF Cyl, BufSet
  <1>5. out \subseteq 1 .. Len(s) /\ far \subseteq out
    BY <1>3
  <1>6. out # {} => far # {}
    <2> SUFFICES ASSUME out # {} PROVE far # {}
      OBVIOUS
    <2>1. \A i \in out : Cyl(d, s[i]) \in Nat /\ Cyl(d, h) \in Nat /\ Cyl(d, s[i]) <= Cyl(d, h)
      BY <1>4, <1>5 DEF Cyl, DiskSet, BufSet
    <2> DEFINE T == {Cyl(d, h) - Cyl(d, s[i]) : i \in out}
    <2> HIDE DEF out, far
    <2>2. T \subseteq Nat /\ T # {}
      BY <2>1
    <2>3. PICK t \in T : \A j \in T : t <= j
      BY <2>2, LeastOf
    <2>4. PICK i \in out : t = Cyl(d, h) - Cyl(d, s[i])
      OBVIOUS
    <2>5. ASSUME NEW j \in out PROVE Cyl(d, s[j]) <= Cyl(d, s[i])
      <3>1. Cyl(d, h) - Cyl(d, s[i]) <= Cyl(d, h) - Cyl(d, s[j])
        BY <2>3, <2>4
      <3> QED  BY <2>1, <3>1
    <2> QED  BY <2>5 DEF far
  <1>7. Follow(d, s, h) = IF out = {} THEN 0 ELSE Max(far)
    BY Zenon DEF Follow
  <1> HIDE DEF out, far, W
  <1>8. out # {} => Max(far) \in far /\ Max(far) \in 1 .. Len(s)
    <2> SUFFICES ASSUME out # {} PROVE Max(far) \in far /\ Max(far) \in 1 .. Len(s)
      OBVIOUS
    <2>1. far \subseteq 1 .. Len(s) /\ far # {}
      BY <1>5, <1>6
    <2> QED  BY <1>0, <2>1, FirstAndLast
  <1>9. Place(d, s, h) = IF Follow(d, s, h) # 0 THEN Follow(d, s, h)
                         ELSE IF IsRead(d, h) /\ W # {} THEN FirstWrite(d, s) ELSE Len(s)
    BY DEF Place, W
  <1>10. CASE out # {}
    <2>1. Place(d, s, h) = Max(far)
      BY <1>7, <1>8, <1>9, <1>10
    <2> QED  BY <1>0, <1>8, <1>10, <2>1
  <1>11. CASE out = {}
    <2>1. Follow(d, s, h) = 0
      BY <1>7, <1>11
    <2> QED  BY <1>0, <1>2, <1>9, <2>1
  <1> QED  BY <1>10, <1>11

\* The fields of a disk.
LEMMA FieldsOf ==
    ASSUME NEW d \in DiskSet
    PROVE  /\ d.q \in [Drive -> Seq(Header)] /\ d.active \subseteq Drive /\ d.ready \in Seq(Drive)
           /\ d.transfer \in BOOLEAN /\ d.given \in Header /\ d.errcnt \in Nat
           /\ d.at \in [Drive -> 0 .. Cylinders - 1]
           /\ d.searching \subseteq Drive /\ d.attention \subseteq Drive
           /\ d.buf \in [Header -> BufSet] /\ d.waits \in [Worker -> Header \cup {"none", "ready"}]
  BY DEF DiskSet

\* All but the queues, the headers and who sleeps.
Else(d, e) ==
    /\ e.active = d.active /\ e.ready = d.ready /\ e.transfer = d.transfer /\ e.given = d.given
    /\ e.errcnt = d.errcnt /\ e.at = d.at /\ e.searching = d.searching /\ e.attention = d.attention

\* The cylinder of a request is noted.
LEMMA CylIs ==
    ASSUME NEW d \in DiskSet, NEW h \in Header, NEW c \in Nat, NEW b, b = [d EXCEPT !.buf[h].cyl = c]
    PROVE  /\ b \in DiskSet /\ b.q = d.q /\ Else(d, b) /\ b.waits = d.waits
           /\ \A g \in Header : b.buf[g].flags = d.buf[g].flags
           /\ \A g \in Header : b.buf[g].cyl = IF g = h THEN c ELSE d.buf[g].cyl
  <1> DEFINE x == [d.buf EXCEPT ![h].cyl = c]
  <1>1. d.buf \in [Header -> BufSet]
    BY DEF DiskSet
  <1>2. x \in [Header -> BufSet] /\ \A g \in Header : /\ x[g].flags = d.buf[g].flags
                                                       /\ x[g].cyl = IF g = h THEN c ELSE d.buf[g].cyl
    BY <1>1 DEF BufSet
  <1>3. b = [d EXCEPT !.buf = x]
    OBVIOUS
  <1> HIDE DEF x
  <1> QED  BY <1>2, <1>3 DEF DiskSet, Else

\* Request h is put into the queue of u, behind another if there is any.
PutIn(d, e, u, h) ==
    \E p \in 0 .. Len(d.q[u]) :
      /\ d.q[u] # <<>> => p >= 1
      /\ e.q = [d.q EXCEPT ![u] = InsertAt(d.q[u], p + 1, h)]

\* This is what disksort does.
LEMMA disksortIs ==
    ASSUME NEW d \in DiskSet, NEW u \in Drive, NEW h \in Header, NEW e, e = disksort(d, u, h)
    PROVE  /\ e \in DiskSet /\ Else(d, e) /\ e.buf = d.buf /\ e.waits = d.waits
           /\ PutIn(d, e, u, h)
  <1> DEFINE p == Place(d, d.q[u], h)
             r == InsertAt(d.q[u], p + 1, h)
  <1>2. d.q[u] \in Seq(Header)
    BY DEF DiskSet
  <1>3. p \in 0 .. Len(d.q[u]) /\ (d.q[u] # <<>> => p >= 1)
    BY <1>2, PlaceIs
  <1> HIDE DEF p
  <1>4. r \in Seq(Header)
    BY <1>2, <1>3, Inserted
  <1>5. e = [d EXCEPT !.q[u] = r]
    BY DEF disksort, r, p
  <1>6. r = InsertAt(d.q[u], p + 1, h)
    OBVIOUS
  <1> HIDE DEF r
  <1> DEFINE x == [d.q EXCEPT ![u] = r]
  <1>8. x \in [Drive -> Seq(Header)] /\ e = [d EXCEPT !.q = x]
    BY <1>4, <1>5, FieldsOf
  <1> HIDE DEF x
  <1>9. e \in DiskSet /\ Else(d, e) /\ e.buf = d.buf /\ e.waits = d.waits /\ e.q = x
    BY <1>8 DEF DiskSet, Else
  <1>7. e \in DiskSet /\ Else(d, e) /\ e.buf = d.buf /\ e.waits = d.waits /\ e.q = [d.q EXCEPT ![u] = r]
    BY <1>9 DEF x
  <1> QED  BY <1>3, <1>6, <1>7 DEF PutIn

\* iodone ends one request for all who sleep for it.
EndsIt(d, h, error, e) == d \in DiskSet /\ h \in Header /\ e = Iodone(d, h, error)
LEMMA IodoneIs ==
    ASSUME NEW d, NEW h, NEW error, NEW e, EndsIt(d, h, error, e)
    PROVE  /\ e \in DiskSet /\ e.q = d.q /\ Else(d, e)
           /\ \A g \in Header : e.buf[g].cyl = d.buf[g].cyl
           /\ IsDone(d, e, h)
  <1> DEFINE f == (d.buf[h].flags \ {"WANTED"}) \cup {"DONE"} \cup (IF error THEN {"ERROR"} ELSE {})
             w == [v \in Worker |-> IF d.waits[v] = h THEN "ready" ELSE d.waits[v]]
             x == [d.buf EXCEPT ![h].flags = f]
  <1>8. d \in DiskSet /\ h \in Header /\ e = Iodone(d, h, error)
    BY DEF EndsIt
  <1>0. d.buf \in [Header -> BufSet] /\ d.waits \in [Worker -> Header \cup {"none", "ready"}]
    BY <1>8, FieldsOf
  <1>1. f \in SUBSET Flag7
    <2>1. d.buf[h].flags \in SUBSET Flag7
      BY <1>0, <1>8 DEF BufSet
    <2> QED  BY <2>1 DEF Flag7
  <1>2. w \in [Worker -> Header \cup {"none", "ready"}]
    BY <1>0
  <1>3. e = [d EXCEPT !.buf = x, !.waits = w]
    BY <1>8 DEF Iodone
  <1>4. \E y \in SUBSET {"ERROR"} : f = (d.buf[h].flags \ {"WANTED"}) \cup {"DONE"} \cup y
    <2> WITNESS (IF error THEN {"ERROR"} ELSE {}) \in SUBSET {"ERROR"}
    <2> QED  OBVIOUS
  <1>5. \A v \in Worker : w[v] = IF d.waits[v] = h THEN "ready" ELSE d.waits[v]
    OBVIOUS
  <1> HIDE DEF f, w
  <1>6. /\ x \in [Header -> BufSet] /\ x[h].flags = f
        /\ \A g \in Header : x[g].cyl = d.buf[g].cyl
        /\ \A g \in Header \ {h} : x[g].flags = d.buf[g].flags
    BY <1>0, <1>1, <1>8 DEF BufSet
  <1> HIDE DEF x
  <1>7. e \in DiskSet /\ e.q = d.q /\ Else(d, e) /\ e.buf = x /\ e.waits = w
    BY <1>2, <1>3, <1>6, <1>8 DEF DiskSet, Else
  <1> QED  BY <1>4, <1>5, <1>6, <1>7 DEF IsDone

-----------------------------------------------------------------------------
(* hp.c: a drive is started                                                *)

\* What stays when a drive is started.
Kept(d, e) ==
    /\ e.q = d.q /\ e.buf = d.buf /\ e.waits = d.waits
    /\ e.transfer = d.transfer /\ e.given = d.given /\ e.errcnt = d.errcnt

\* It goes to the queue of the controller or it searches.
Goes2Queue(d, e, u) ==
    e.ready = Append(d.ready, u) /\ e.searching = d.searching
Searches(d, e, u) ==
    e.ready = d.ready /\ e.searching = d.searching \cup {u}
HasStarted(d, e, u) ==
    /\ e \in DiskSet /\ Kept(d, e)
    /\ e.active = d.active \cup {u} /\ e.attention = d.attention \ {u}
    /\ Goes2Queue(d, e, u) \/ Searches(d, e, u)

\* u has requests and may be started.
Startable(d, u) ==
    /\ Base(d) /\ \A v \in Drive \ {u} : DriveOK(d, v)
    /\ d.q[u] # <<>> /\ u \notin d.searching /\ ~ InReady(d, u)

LEMMA hpustartIs ==
    ASSUME load.offline = {}, NEW d \in DiskSet, NEW u \in Drive, NEW near,
           d.q[u] # <<>>, d.buf[Head(d.q[u])].cyl < Cylinders,
           NEW e, e = hpustart(d, u, near)
    PROVE  HasStarted(d, e, u)
  <1> DEFINE c == Cyl(d, Head(d.q[u]))
             a == d.attention \ {u}
             v == d.active \cup {u}
             r == Append(d.ready, u)
             s == d.searching \cup {u}
             t == [d.at EXCEPT ![u] = c]
  <1>0. d.q[u] \in Seq(Header) /\ Head(d.q[u]) \in Header /\ d.buf \in [Header -> BufSet]
    BY FieldsOf
  <1>1. c \in 0 .. Cylinders - 1
    <2>1. c \in Nat /\ c < Cylinders
      BY <1>0 DEF Cyl, BufSet
    <2> QED  BY <2>1, Constants
  <1> HIDE DEF c
  <1>2. /\ a \subseteq Drive /\ v \subseteq Drive /\ r \in Seq(Drive) /\ s \subseteq Drive
        /\ t \in [Drive -> 0 .. Cylinders - 1]
    BY <1>1, FieldsOf
  <1>3. ~ Offline(u)
    BY DEF Offline
  <1>4. \/ u \in d.active /\ e = [d EXCEPT !.attention = a, !.ready = r]
        \/ e = [d EXCEPT !.attention = a, !.active = v, !.ready = r]
        \/ e = [d EXCEPT !.attention = a, !.active = v, !.searching = s, !.at = t]
    BY <1>3, FieldsOf DEF hpustart, Enqueue, c, DiskSet
  <1> HIDE DEF a, v, r, s, t
  <1>5. CASE u \in d.active /\ e = [d EXCEPT !.attention = a, !.ready = r]
    <2>1. e \in DiskSet /\ Kept(d, e) /\ e.active = d.active /\ e.attention = a /\ e.ready = r
          /\ e.searching = d.searching
      BY <1>2, <1>5, Zenon DEF DiskSet, Kept
    <2> QED  BY <1>5, <2>1 DEF HasStarted, Goes2Queue, a, r
  <1>6. CASE e = [d EXCEPT !.attention = a, !.active = v, !.ready = r]
    <2>1. e \in DiskSet /\ Kept(d, e) /\ e.active = v /\ e.attention = a /\ e.ready = r
          /\ e.searching = d.searching
      BY <1>2, <1>6, ZenonT(40) DEF DiskSet, Kept
    <2> QED  BY <2>1 DEF HasStarted, Goes2Queue, a, r, v
  <1>7. CASE e = [d EXCEPT !.attention = a, !.active = v, !.searching = s, !.at = t]
    <2>1. e \in DiskSet /\ Kept(d, e) /\ e.active = v /\ e.attention = a /\ e.ready = d.ready
          /\ e.searching = s
      BY <1>2, <1>7, ZenonT(40) DEF DiskSet, Kept
    <2> QED  BY <2>1 DEF HasStarted, Searches, a, s, v
  <1> QED  BY <1>4, <1>5, <1>6, <1>7

\* What goes last into the queue of the controller.
LEMMA ReadyAppended ==
    ASSUME NEW s \in Seq(Drive), NEW u \in Drive, NEW t, t = Append(s, u)
    PROVE  /\ t \in Seq(Drive) /\ t # <<>> /\ Len(t) = Len(s) + 1
           /\ \A i \in 1 .. Len(s) : t[i] = s[i]
           /\ t[Len(s) + 1] = u
           /\ s # <<>> => Head(t) = Head(s)
  <1>1. Len(s) \in Nat
    OBVIOUS
  <1>2. /\ t \in Seq(Drive) /\ t # <<>> /\ Len(t) = Len(s) + 1
        /\ \A i \in 1 .. Len(s) : t[i] = s[i]
        /\ t[Len(s) + 1] = u
    OBVIOUS
  <1>3. s # <<>> => Head(t) = Head(s)
    OBVIOUS
  <1> QED  BY <1>2, <1>3

\* A drive that is started is on its way.
LEMMA Started ==
    ASSUME NEW d, NEW u \in Drive, Startable(d, u), NEW e, HasStarted(d, e, u)
    PROVE  /\ DevInv(e) /\ Same(d, e) /\ e.attention = d.attention \ {u}
           /\ e.transfer = d.transfer /\ e.errcnt = d.errcnt
  <1>0. d \in DiskSet /\ e \in DiskSet /\ Kept(d, e) /\ Base(d)
    BY DEF Startable, Base, HasStarted
  <1>1. Same(d, e) /\ e.attention = d.attention \ {u} /\ e.transfer = d.transfer
        /\ e.errcnt = d.errcnt
    BY <1>0 DEF Same, Kept, Queued, HasStarted
  <1>2. Once(e) /\ OnDrive(e)
    BY <1>0 DEF Base, Once, OnDrive, Kept
  <1>3. Apart(d) /\ ~ InReady(d, u) /\ u \notin d.searching
    BY DEF Startable, Base
  <1>4. Len(d.ready) \in Nat /\ d.ready \in Seq(Drive) /\ \A i \in 1 .. Len(d.ready) : d.ready[i] \in Drive
    BY <1>0, FieldsOf
  <1>5. CASE Goes2Queue(d, e, u)
    <2>0. e.ready = Append(d.ready, u) /\ e.searching = d.searching /\ e.attention = d.attention \ {u}
      BY <1>5 DEF Goes2Queue, HasStarted
    <2>1. /\ e.ready # <<>> /\ Len(e.ready) = Len(d.ready) + 1
          /\ \A i \in 1 .. Len(d.ready) : e.ready[i] = d.ready[i]
          /\ e.ready[Len(d.ready) + 1] = u
          /\ d.ready # <<>> => Head(e.ready) = Head(d.ready)
      BY <1>4, <2>0, ReadyAppended
    <2>2. \A i \in 1 .. Len(d.ready) : d.ready[i] # u
      BY <1>3 DEF InReady
    <2>3. \A i \in 1 .. Len(e.ready) : i \in 1 .. Len(d.ready) \/ i = Len(d.ready) + 1
      BY <1>4, <2>1
    <2>4. Apart(e)
      <3>1. \A i, j \in 1 .. Len(d.ready) : d.ready[i] = d.ready[j] => i = j
        BY <1>3 DEF Apart
      <3>2. ASSUME NEW i \in 1 .. Len(e.ready), NEW j \in 1 .. Len(e.ready), e.ready[i] = e.ready[j]
            PROVE  i = j
        BY <2>1, <2>2, <2>3, <3>1, <3>2
      <3>3. \A i \in 1 .. Len(e.ready) : e.ready[i] \notin e.searching \cup e.attention
        BY <1>3, <2>0, <2>1, <2>3 DEF Apart
      <3>4. e.searching \cap e.attention = {}
        BY <1>3, <2>0 DEF Apart
      <3> QED  BY <3>2, <3>3, <3>4 DEF Apart
    <2>5. Transfers(e)
      BY <1>0, <2>1 DEF Base, Transfers, Kept
    <2>6. InReady(e, u)
      <3>1. Len(d.ready) + 1 \in 1 .. Len(e.ready)
        BY <1>4, <2>1
      <3> QED  BY <2>1, <3>1 DEF InReady
    <2>7. \A v \in Drive \ {u} : OnWay(e, v) <=> OnWay(d, v)
      <3>1. \A v \in Drive \ {u} : InReady(e, v) <=> InReady(d, v)
        <4>1. \A i \in 1 .. Len(d.ready) : i \in 1 .. Len(e.ready)
          BY <1>4, <2>1
        <4> QED  BY <2>1, <2>3, <4>1 DEF InReady
      <3> QED  BY <2>0, <3>1 DEF OnWay
    <2>8. \A v \in Drive : DriveOK(e, v)
      <3>1. DriveOK(e, u)
        BY <1>0, <2>6 DEF DriveOK, OnWay, Startable, Kept, HasStarted
      <3>2. \A v \in Drive \ {u} : DriveOK(e, v)
        BY <1>0, <2>7 DEF DriveOK, Startable, Kept, HasStarted
      <3> QED  BY <3>1, <3>2
    <2> QED  BY <1>0, <1>1, <1>2, <2>4, <2>5, <2>8 DEF DevInv, Base
  <1>6. CASE Searches(d, e, u)
    <2>0. e.ready = d.ready /\ e.searching = d.searching \cup {u} /\ e.attention = d.attention \ {u}
      BY <1>6 DEF Searches, HasStarted
    <2>1. \A i \in 1 .. Len(d.ready) : d.ready[i] # u
      BY <1>3 DEF InReady
    <2>2. Apart(e)
      BY <1>3, <2>0, <2>1 DEF Apart
    <2>3. Transfers(e)
      BY <1>0, <2>0 DEF Base, Transfers, Kept
    <2>4. \A v \in Drive \ {u} : OnWay(e, v) <=> OnWay(d, v)
      BY <2>0 DEF OnWay, InReady
    <2>5. \A v \in Drive : DriveOK(e, v)
      <3>1. DriveOK(e, u)
        BY <1>0, <2>0 DEF DriveOK, OnWay, Startable, Kept, HasStarted
      <3>2. \A v \in Drive \ {u} : DriveOK(e, v)
        BY <1>0, <2>4 DEF DriveOK, Startable, Kept, HasStarted
      <3> QED  BY <3>1, <3>2
    <2> QED  BY <1>0, <1>1, <1>2, <2>2, <2>3, <2>5 DEF DevInv, Base
  <1> QED  BY <1>5, <1>6 DEF HasStarted

\* The same of a drive with requests that hpustart starts.
IsUp(d, u, e) == /\ DevInv(e) /\ Same(d, e) /\ e.attention = d.attention \ {u}
                 /\ e.transfer = d.transfer /\ e.errcnt = d.errcnt
StartsUp(d, u, near, e) == u \in Drive /\ Startable(d, u) /\ e = hpustart(d, u, near)
LEMMA hpustartStarts ==
    ASSUME load.offline = {}, NEW d, NEW u, NEW near, NEW e, StartsUp(d, u, near, e)
    PROVE  IsUp(d, u, e)
  <1>0. u \in Drive /\ Startable(d, u) /\ e = hpustart(d, u, near)
    BY DEF StartsUp
  <1>1. d \in DiskSet /\ d.q[u] # <<>> /\ OnDrive(d)
    BY <1>0 DEF Startable, Base
  <1>2. d.q[u] \in Seq(Header) /\ Len(d.q[u]) \in Nat /\ 1 \in 1 .. Len(d.q[u]) /\ Head(d.q[u]) = d.q[u][1]
    BY <1>0, <1>1, FieldsOf
  <1>3. d.buf[Head(d.q[u])].cyl < Cylinders
    BY <1>0, <1>1, <1>2 DEF OnDrive
  <1>4. HasStarted(d, e, u)
    BY <1>0, <1>1, <1>3, hpustartIs
  <1> QED  BY <1>0, <1>4, Started DEF IsUp

-----------------------------------------------------------------------------
(* hp.c: the drives in the queue of the controller                         *)

\* What hpstart goes through.
StartsAre(g, n, d, r) == g = [i \in 0 .. n |-> IF i = 0 THEN d ELSE Starts(g[i - 1], r[i])]
LEMMA StartsExist ==
    ASSUME NEW d, NEW r, NEW n \in Nat
    PROVE  \E g : StartsAre(g, n, d, r)
  <1> DEFINE Upto(g, e) == g = [i \in 0 .. e |-> IF i = 0 THEN d ELSE Starts(g[i - 1], r[i])]
             S == {e \in Nat : ~ \E g : Upto(g, e)}
  <1>0. n \in Nat
    OBVIOUS
  <1>1. SUFFICES ASSUME S # {} PROVE FALSE
    BY <1>0 DEF StartsAre
  <1>2. PICK e \in S : \A j \in S : e <= j
    BY <1>1, LeastOf
  <1>3. e > 0
    <2> SUFFICES ASSUME ~ (e > 0) PROVE FALSE
      OBVIOUS
    <2> DEFINE h == [i \in 0 .. e |-> d]
    <2>1. e = 0 /\ 0 .. e = {0}
      OBVIOUS
    <2>2. Upto(h, e)
      <3>1. \A i \in 0 .. e : i = 0
        BY <2>1
      <3> QED  BY <3>1, Zenon
    <2>3. ~ \E g : Upto(g, e)
      BY <1>2
    <2> QED  BY <2>2, <2>3
  <1>4. PICK g : Upto(g, e - 1)
    <2>1. e - 1 \in Nat /\ ~ (e <= e - 1)
      BY <1>3
    <2>2. e - 1 \notin S
      BY <1>2, <2>1
    <2> QED  BY <2>1, <2>2
  <1> DEFINE h == [i \in 0 .. e |-> IF i = e THEN Starts(g[e - 1], r[e]) ELSE g[i]]
  <1>5. Upto(h, e)
    <2>1. ASSUME NEW i \in 0 .. e
          PROVE  h[i] = IF i = 0 THEN d ELSE Starts(h[i - 1], r[i])
      <3>1. CASE i = e
        <4>1. ~ (i = 0) /\ i - 1 \in 0 .. e /\ i - 1 # e
          BY <1>3, <3>1
        <4>2. h[i - 1] = g[e - 1] /\ h[i] = Starts(g[e - 1], r[e])
          BY <4>1, <3>1
        <4> HIDE DEF h
        <4> QED  BY <4>1, <4>2, <3>1
      <3>2. CASE i # e
        <4>0. i \in 0 .. e - 1
          BY <3>2
        <4>5. h[i] = g[i]
          BY <3>2, Zenon
        <4>1. i \in 0 .. e - 1 /\ h[i] = g[i]
          BY <4>0, <4>5
        <4>2. g[i] = IF i = 0 THEN d ELSE Starts(g[i - 1], r[i])
          BY <1>4, <4>1
        <4>3. ~ (i = 0) => h[i - 1] = g[i - 1]
          <5>1. ~ (i = 0) => i - 1 \in 0 .. e /\ i - 1 # e
            BY <4>0
          <5> QED  BY <5>1, Zenon
        <4> HIDE DEF h
        <4> QED  BY <4>1, <4>2, <4>3
      <3> QED  BY <3>1, <3>2
    <2> HIDE DEF h
    <2>2. h = [i \in 0 .. e |-> h[i]]
      BY DEF h
    <2> QED  BY <2>1, <2>2
  <1> QED  BY <1>2, <1>5

\* hpstart transfers for the first drive in the queue, if there is any.
LEMMA hpstartIs ==
    ASSUME load.offline = {}, NEW d, DevInv(d), NEW e, e = hpstart(d)
    PROVE  AtWork(e) /\ Same(d, e) /\ e.errcnt = d.errcnt
  <1> DEFINE r == d.ready
             n == Len(r)
             G(g) == g = [k \in 0 .. n |-> IF k = 0 THEN d ELSE Starts(g[k - 1], r[k])]
             s == CHOOSE g : G(g)
  <1>0. d \in DiskSet /\ r \in Seq(Drive) /\ n \in Nat
    BY FieldsOf DEF DevInv, Base
  <1>1. e = s[n]
    BY DEF hpstart
  <1>2. G(s)
    <2>1. \E g : G(g)
      <3> HIDE DEF n, r
      <3>1. \E g : StartsAre(g, n, d, r)
        BY <1>0, StartsExist
      <3> QED  BY <3>1 DEF StartsAre
    <2> QED  BY <2>1
  <1> HIDE DEF s
  <1>3. s[0] = d /\ \A k \in 1 .. n : s[k] = Starts(s[k - 1], r[k])
    <2>1. 0 \in 0 .. n /\ \A k \in 1 .. n : k \in 0 .. n /\ k # 0
      BY <1>0
    <2> QED  BY <1>2, <2>1
  <1>4. \A x, u : x.transfer => Starts(x, u) = x
    BY DEF Starts
  <1>5. ASSUME NEW j \in 0 .. n, s[j].transfer PROVE s[n] = s[j]
    <2> DEFINE B == {k \in Nat : k >= j /\ k <= n /\ s[k] # s[j]}
    <2>1. SUFFICES ASSUME B # {} PROVE FALSE
      BY <1>0
    <2>2. PICK k \in B : \A i \in B : k <= i
      BY <2>1, LeastOf
    <2>3. k \in 1 .. n /\ k - 1 \in Nat /\ k > j /\ ~ (k <= k - 1)
      BY <1>0, <1>5, <2>2
    <2>4. s[k - 1] = s[j]
      BY <1>0, <1>5, <2>2, <2>3
    <2> QED  BY <1>3, <1>4, <1>5, <2>2, <2>3, <2>4
  <1>6. CASE d.transfer
    <2>1. e = d
      <3>1. 0 \in 0 .. n
        BY <1>0
      <3> QED  BY <1>1, <1>3, <1>5, <1>6, <3>1
    <2> QED  BY <1>6, <2>1 DEF AtWork, Same
  <1>7. CASE ~ d.transfer /\ r = <<>>
    <2>1. e = d
      BY <1>1, <1>3, <1>7
    <2> QED  BY <1>7, <2>1 DEF AtWork, Same
  <1>8. CASE ~ d.transfer /\ r # <<>>
    <2>1. 1 \in 1 .. n /\ 1 \in 0 .. n /\ r[1] = Head(r) /\ r[1] \in Drive /\ 1 - 1 = 0
      BY <1>0, <1>8
    <2> DEFINE u == r[1]
               f == s[1]
               c == Cyl(d, Head(d.q[u]))
    <2>2. d.q[u] # <<>>
      BY <2>1 DEF DevInv, DriveOK, OnWay, InReady
    <2>3. f = Starts(d, u)
      BY <1>3, <2>1
    <2>4. ~ Offline(u)
      BY DEF Offline
    <2>5. f = [d EXCEPT !.transfer = TRUE, !.given = Head(d.q[u]), !.at[u] = c]
      BY <1>0, <1>8, <2>2, <2>3, <2>4, FieldsOf DEF Starts
    <2>6. d.q[u] \in Seq(Header) /\ Len(d.q[u]) \in Nat /\ 1 \in 1 .. Len(d.q[u])
          /\ Head(d.q[u]) = d.q[u][1] /\ Head(d.q[u]) \in Header /\ d.buf \in [Header -> BufSet]
      BY <1>0, <2>1, <2>2, FieldsOf
    <2>7. c \in 0 .. Cylinders - 1
      <3>1. d.buf[Head(d.q[u])].cyl < Cylinders
        <4>1. OnDrive(d)
          BY <1>0 DEF DevInv, Base
        <4> QED  BY <2>1, <2>6, <4>1 DEF OnDrive
      <3>2. d.buf[Head(d.q[u])].cyl \in Nat
        <4>1. d.buf[Head(d.q[u])] \in BufSet
          BY <2>6
        <4> QED  BY <4>1 DEF BufSet
      <3>3. c = d.buf[Head(d.q[u])].cyl
        BY DEF Cyl
      <3>4. c \in Nat /\ c < Cylinders /\ Cylinders \in Nat
        BY <3>1, <3>2, <3>3, Constants
      <3> HIDE DEF c
      <3> QED  BY <3>4
    <2> DEFINE t == [d.at EXCEPT ![u] = c]
               h == Head(d.q[u])
    <2>8. t \in [Drive -> 0 .. Cylinders - 1] /\ h \in Header /\ f = [d EXCEPT !.transfer = TRUE, !.given = h, !.at = t]
      BY <1>0, <2>1, <2>5, <2>6, <2>7, FieldsOf
    <2> HIDE DEF c, t, f
    <2>9. /\ f \in DiskSet /\ f.q = d.q /\ f.buf = d.buf /\ f.waits = d.waits
          /\ f.transfer /\ f.given = h /\ f.errcnt = d.errcnt
          /\ f.active = d.active /\ f.ready = d.ready /\ f.searching = d.searching
          /\ f.attention = d.attention
      <3> HIDE DEF h
      <3> QED  BY <1>0, <2>8 DEF DiskSet
    <2>10. Same(d, f)
      BY <2>9 DEF Same, Queued
    <2>11. Once(f) /\ OnDrive(f) /\ Apart(f)
      BY <2>9 DEF DevInv, Base, Once, OnDrive, Apart
    <2>12. Transfers(f)
      BY <1>8, <2>1, <2>9 DEF Transfers
    <2>13. \A v \in Drive : DriveOK(f, v)
      BY <2>9 DEF DevInv, DriveOK, OnWay, InReady
    <2>14. AtWork(f)
      BY <2>9, <2>11, <2>12, <2>13 DEF AtWork, DevInv, Base
    <2>15. e = f
      BY <1>1, <1>5, <2>1, <2>9 DEF f
    <2> QED  BY <2>9, <2>10, <2>14, <2>15
  <1> QED  BY <1>6, <1>7, <1>8

-----------------------------------------------------------------------------
(* hp.c: the drives that call for attention                                *)

Attends(x, i, as, near) == IF i - 1 \in as THEN hpustart(x, i - 1, near) ELSE x

\* What the loop of hpintr goes through.
AttendsAre(g, n, d, as, near) == g = [i \in 0 .. n |-> IF i = 0 THEN d ELSE Attends(g[i - 1], i, as, near)]
LEMMA AttendsExist ==
    ASSUME NEW d, NEW as, NEW near, NEW n \in Nat
    PROVE  \E g : AttendsAre(g, n, d, as, near)
  <1> DEFINE Upto(g, e) == g = [i \in 0 .. e |-> IF i = 0 THEN d ELSE Attends(g[i - 1], i, as, near)]
             S == {e \in Nat : ~ \E g : Upto(g, e)}
  <1>0. n \in Nat
    OBVIOUS
  <1>1. SUFFICES ASSUME S # {} PROVE FALSE
    BY <1>0 DEF AttendsAre
  <1>2. PICK e \in S : \A j \in S : e <= j
    BY <1>1, LeastOf
  <1>3. e > 0
    <2> SUFFICES ASSUME ~ (e > 0) PROVE FALSE
      OBVIOUS
    <2> DEFINE h == [i \in 0 .. e |-> d]
    <2>1. e = 0 /\ 0 .. e = {0}
      OBVIOUS
    <2>2. Upto(h, e)
      <3>1. \A i \in 0 .. e : i = 0
        BY <2>1
      <3> QED  BY <3>1, Zenon
    <2>3. ~ \E g : Upto(g, e)
      BY <1>2
    <2> QED  BY <2>2, <2>3
  <1>4. PICK g : Upto(g, e - 1)
    <2>1. e - 1 \in Nat /\ ~ (e <= e - 1)
      BY <1>3
    <2>2. e - 1 \notin S
      BY <1>2, <2>1
    <2> QED  BY <2>1, <2>2
  <1> DEFINE h == [i \in 0 .. e |-> IF i = e THEN Attends(g[e - 1], e, as, near) ELSE g[i]]
  <1>5. Upto(h, e)
    <2>1. ASSUME NEW i \in 0 .. e
          PROVE  h[i] = IF i = 0 THEN d ELSE Attends(h[i - 1], i, as, near)
      <3>1. CASE i = e
        <4>1. ~ (i = 0) /\ i - 1 \in 0 .. e /\ i - 1 # e
          BY <1>3, <3>1
        <4>2. h[i - 1] = g[e - 1] /\ h[i] = Attends(g[e - 1], e, as, near)
          BY <4>1, <3>1
        <4> HIDE DEF h
        <4> QED  BY <4>1, <4>2, <3>1
      <3>2. CASE i # e
        <4>0. i \in 0 .. e - 1
          BY <3>2
        <4>5. h[i] = g[i]
          BY <3>2, Zenon
        <4>1. i \in 0 .. e - 1 /\ h[i] = g[i]
          BY <4>0, <4>5
        <4>2. g[i] = IF i = 0 THEN d ELSE Attends(g[i - 1], i, as, near)
          BY <1>4, <4>1
        <4>3. ~ (i = 0) => h[i - 1] = g[i - 1]
          <5>1. ~ (i = 0) => i - 1 \in 0 .. e /\ i - 1 # e
            BY <4>0
          <5> QED  BY <5>1, Zenon
        <4> HIDE DEF h
        <4> QED  BY <4>1, <4>2, <4>3
      <3> QED  BY <3>1, <3>2
    <2> HIDE DEF h
    <2>2. h = [i \in 0 .. e |-> h[i]]
      BY DEF h
    <2> QED  BY <2>1, <2>2
  <1> QED  BY <1>2, <1>5

\* All drives that called for attention are started again.
Within(as, d) == as \subseteq d.attention
AttendsTo(d, as, near, e) == DevInv(d) /\ Within(as, d) /\ e = Attended(d, as, near)
LEMMA AttendedIs ==
    ASSUME load.offline = {}, NEW d, NEW as, NEW near, NEW e, AttendsTo(d, as, near, e)
    PROVE  DevInv(e) /\ Same(d, e) /\ e.errcnt = d.errcnt
  <1> DEFINE n == Cardinality(Drive)
             G(g) == g = [k \in 0 .. n |->
                             IF k = 0 THEN d
                             ELSE IF k - 1 \in as THEN hpustart(g[k - 1], k - 1, near) ELSE g[k - 1]]
             s == CHOOSE g : G(g)
             OK(x, k) == /\ DevInv(x) /\ Same(d, x) /\ x.transfer = d.transfer /\ x.errcnt = d.errcnt
                         /\ \A v \in as : v >= k => v \in x.attention
  <1>9. DevInv(d) /\ Within(as, d) /\ e = Attended(d, as, near)
    BY DEF AttendsTo
  <1>0. n \in Nat /\ Drive = 0 .. n - 1
    BY DrivesAre
  <1>1. e = s[n]
    BY <1>9 DEF Attended
  <1>2. G(s)
    <2>1. \E g : G(g)
      <3> HIDE DEF n
      <3>1. \E g : AttendsAre(g, n, d, as, near)
        BY <1>0, AttendsExist
      <3> QED  BY <3>1 DEF AttendsAre, Attends
    <2> QED  BY <2>1
  <1> HIDE DEF s
  <1>3. s[0] = d /\ \A k \in 1 .. n : s[k] = Attends(s[k - 1], k, as, near)
    <2>1. 0 \in 0 .. n /\ \A k \in 1 .. n : k \in 0 .. n /\ k # 0
      BY <1>0
    <2> QED  BY <1>2, <2>1 DEF Attends
  <1>8. as \subseteq d.attention
    BY <1>9 DEF Within
  <1>4. OK(d, 0)
    BY <1>8, <1>9 DEF Same
  <1>5. ASSUME NEW x, NEW k \in 1 .. n, OK(x, k - 1) PROVE OK(Attends(x, k, as, near), k)
    <2> DEFINE u == k - 1
               y == Attends(x, k, as, near)
    <2>0. u \in Drive /\ \A v \in as : v \in Drive /\ (v >= k => v >= u) /\ (v >= k => v # u)
      <3>1. u \in Drive
        BY <1>0
      <3>2. ASSUME NEW v \in as PROVE v \in Drive /\ (v >= k => v >= u) /\ (v >= k => v # u)
        <4>1. v \in Drive
          BY <1>8, <1>9, FieldsOf DEF DevInv, Base
        <4> QED  BY <1>0, <4>1
      <3> QED  BY <3>1, <3>2
    <2>1. CASE u \notin as
      <3>1. y = x
        BY <2>1 DEF Attends
      <3> QED  BY <1>5, <2>0, <3>1
    <2>2. CASE u \in as
      <3>1. y = hpustart(x, u, near)
        BY <2>2 DEF Attends
      <3>2. u \in x.attention
        <4>1. u >= k - 1
          BY <1>0
        <4> QED  BY <1>5, <2>2, <4>1
      <3>3. OnWay(x, u) /\ x.q[u] # <<>>
        BY <1>5, <2>0, <3>2 DEF OnWay, DevInv, DriveOK
      <3>4. Startable(x, u)
        <4>1. u \notin x.searching
          BY <1>5, <3>2 DEF DevInv, Base, Apart
        <4>2. ~ InReady(x, u)
          BY <1>5, <3>2 DEF DevInv, Base, Apart, InReady
        <4> QED  BY <1>5, <3>3, <4>1, <4>2 DEF Startable, DevInv
      <3>0. u = k - 1
        OBVIOUS
      <3> HIDE DEF y, u
      <3>5. DevInv(y) /\ Same(x, y) /\ y.attention = x.attention \ {u} /\ y.transfer = x.transfer
            /\ y.errcnt = x.errcnt
        <4>1. StartsUp(x, u, near, y)
          BY <2>0, <3>1, <3>4 DEF StartsUp
        <4> QED  BY <4>1, hpustartStarts DEF IsUp
      <3>6. Same(d, y)
        BY <1>5, <3>5 DEF Same
      <3>7. \A v \in as : v >= k => v \in y.attention
        BY <1>5, <2>0, <3>0, <3>5
      <3>8. OK(y, k)
        BY <1>5, <3>5, <3>6, <3>7
      <3> QED  BY <3>8 DEF y
    <2> QED  BY <2>1, <2>2
  <1> HIDE DEF OK
  <1>6. ASSUME NEW k \in 0 .. n PROVE OK(s[k], k)
    <2> DEFINE B == {i \in Nat : i <= n /\ ~ OK(s[i], i)}
    <2>1. SUFFICES ASSUME B # {} PROVE FALSE
      BY <1>0
    <2>2. PICK i \in B : \A j \in B : i <= j
      BY <2>1, LeastOf
    <2>3. i # 0
      BY <1>3, <1>4, <2>2
    <2>4. i \in 1 .. n /\ i - 1 \in Nat /\ i - 1 <= n /\ ~ (i <= i - 1)
      BY <1>0, <2>2, <2>3
    <2>5. OK(s[i - 1], i - 1)
      BY <2>2, <2>4
    <2>6. OK(s[i], i)
      BY <1>3, <1>5, <2>4, <2>5
    <2> QED  BY <2>2, <2>6
  <1>7. OK(e, n)
    BY <1>0, <1>1, <1>6
  <1> QED  BY <1>7 DEF OK

-----------------------------------------------------------------------------
(* hp.c: a request comes                                                   *)

LEMMA Quotient ==
    ASSUME NEW a \in Nat, NEW b \in Nat \ {0}
    PROVE  a \div b \in Nat
  BY Z3T(60)

\* Request h goes into the queue of drive u.
Joins(d, e, u, h) ==
    /\ e \in DiskSet /\ Else(d, e) /\ e.waits = d.waits
    /\ \A g \in Header : e.buf[g].flags = d.buf[g].flags
    /\ \A g \in Header \ {h} : e.buf[g].cyl = d.buf[g].cyl
    /\ e.buf[h].cyl < Cylinders
    /\ PutIn(d, e, u, h)
LEMMA Joined ==
    ASSUME NEW d, DevInv(d), NEW u \in Drive, NEW h \in Header, ~ Queued(d, h),
           NEW e, Joins(d, e, u, h)
    PROVE  /\ Base(e) /\ Adds(d, e, h) /\ e.q[u] # <<>>
           /\ \A v \in Drive \ {u} : DriveOK(e, v)
           /\ u \in d.active => DevInv(e)
           /\ u \notin d.active => Startable(e, u)
  <1>31. /\ e \in DiskSet /\ Else(d, e) /\ e.waits = d.waits
         /\ \A g \in Header : e.buf[g].flags = d.buf[g].flags
         /\ \A g \in Header \ {h} : e.buf[g].cyl = d.buf[g].cyl
         /\ e.buf[h].cyl < Cylinders
    BY DEF Joins
  <1>32. PICK p \in 0 .. Len(d.q[u]) :
             /\ d.q[u] # <<>> => p >= 1
             /\ e.q = [d.q EXCEPT ![u] = InsertAt(d.q[u], p + 1, h)]
    BY DEF Joins, PutIn
  <1> DEFINE s == d.q[u]
             t == InsertAt(s, p + 1, h)
  <1>0. d \in DiskSet /\ d.q \in [Drive -> Seq(Header)] /\ s \in Seq(Header) /\ Len(s) \in Nat
        /\ Base(d)
    <2>1. d \in DiskSet /\ Base(d)
      BY DEF DevInv, Base
    <2>2. d.q \in [Drive -> Seq(Header)]
      BY <2>1, FieldsOf
    <2> QED  BY <2>1, <2>2
  <1>1. /\ t \in Seq(Header) /\ Len(t) = Len(s) + 1
        /\ \A i \in 1 .. Len(s) + 1 : t[i] = IF i <= p THEN s[i] ELSE IF i = p + 1 THEN h ELSE s[i - 1]
    <2>1. s \in Seq(Header) /\ p \in 0 .. Len(s) /\ t = InsertAt(s, p + 1, h)
      BY <1>0
    <2> HIDE DEF s, t
    <2> QED  BY <2>1, Inserted
  <1>2. e.q[u] = t /\ \A v \in Drive \ {u} : e.q[v] = d.q[v]
    <2>1. e.q = [d.q EXCEPT ![u] = t]
      BY <1>32
    <2> HIDE DEF t, s
    <2> QED  BY <1>0, <2>1
  <1>3. t # <<>>
    BY <1>0, <1>1
  <1>4. s # <<>> => Head(t) = Head(s)
    <2>1. s # <<>> => 1 \in 1 .. Len(s) + 1 /\ 1 <= p /\ t[1] = s[1]
      BY <1>0, <1>1, <1>32
    <2> HIDE DEF s, t
    <2> QED  BY <1>0, <1>1, <1>3, <2>1
  <1> DEFINE z(i) == IF i <= p THEN i ELSE i - 1
  <1>5. p + 1 \in 1 .. Len(t) /\ t[p + 1] = h
    BY <1>0, <1>1
  <1>6. \A i \in 1 .. Len(t) : i # p + 1 => z(i) \in 1 .. Len(s) /\ t[i] = s[z(i)]
    BY <1>0, <1>1
  <1>7. \A i, j \in 1 .. Len(t) : i # p + 1 /\ j # p + 1 /\ z(i) = z(j) => i = j
    BY <1>0, <1>1
  <1>8. \A v \in Drive : \A i \in 1 .. Len(d.q[v]) : d.q[v][i] # h
    BY DEF Queued
  <1>9. \A g \in Header : Queued(e, g) <=> Queued(d, g) \/ g = h
    <2>1. Queued(e, h)
      BY <1>2, <1>5 DEF Queued
    <2>2. ASSUME NEW g \in Header, Queued(e, g), g # h PROVE Queued(d, g)
      <3>1. PICK v \in Drive : \E i \in 1 .. Len(e.q[v]) : e.q[v][i] = g
        BY <2>2 DEF Queued
      <3>2. PICK i \in 1 .. Len(e.q[v]) : e.q[v][i] = g
        BY <3>1
      <3>3. CASE v # u
        BY <1>2, <3>2, <3>3 DEF Queued
      <3>4. CASE v = u
        <4>1. i \in 1 .. Len(t) /\ t[i] = g /\ i # p + 1
          BY <1>2, <1>5, <2>2, <3>2, <3>4
        <4>2. z(i) \in 1 .. Len(s) /\ s[z(i)] = g
          BY <1>6, <4>1
        <4> HIDE DEF z
        <4> QED  BY <4>2 DEF Queued
      <3> QED  BY <3>3, <3>4
    <2>3. ASSUME NEW g \in Header, Queued(d, g) PROVE Queued(e, g)
      <3>1. PICK v \in Drive : \E i \in 1 .. Len(d.q[v]) : d.q[v][i] = g
        BY <2>3 DEF Queued
      <3>2. PICK i \in 1 .. Len(d.q[v]) : d.q[v][i] = g
        BY <3>1
      <3>3. CASE v # u
        BY <1>2, <3>2, <3>3 DEF Queued
      <3>4. CASE v = u
        <4> DEFINE j == IF i <= p THEN i ELSE i + 1
        <4>1. i \in 1 .. Len(s) /\ s[i] = g
          BY <3>2, <3>4
        <4>2. j \in 1 .. Len(t) /\ t[j] = s[i]
          <5>1. CASE i <= p
            BY <1>0, <1>1, <4>1, <5>1
          <5>2. CASE ~ (i <= p)
            <6>1. j = i + 1 /\ j \in 1 .. Len(s) + 1 /\ ~ (j <= p) /\ j # p + 1 /\ j - 1 = i
              BY <1>0, <4>1, <5>2
            <6> HIDE DEF j, t, s
            <6> QED  BY <1>1, <6>1
          <5> QED  BY <5>1, <5>2
        <4> HIDE DEF j
        <4> QED  BY <1>2, <4>1, <4>2 DEF Queued
      <3> QED  BY <3>3, <3>4
    <2> QED  BY <2>1, <2>2, <2>3
  <1> HIDE DEF s, t, z
  <1>10. Once(e)
    <2>1. \A v, w \in Drive : \A i \in 1 .. Len(d.q[v]), j \in 1 .. Len(d.q[w]) :
             d.q[v][i] = d.q[w][j] => v = w /\ i = j
      BY <1>0 DEF Base, Once
    <2>2. s = d.q[u] /\ \A i \in 1 .. Len(s) : s[i] # h
      BY <1>8 DEF s
    <2>4. \A i \in 1 .. Len(t) : t[i] = h <=> i = p + 1
      BY <1>5, <1>6, <2>2
    <2>3. ASSUME NEW v \in Drive, NEW w \in Drive, NEW i \in 1 .. Len(e.q[v]), NEW j \in 1 .. Len(e.q[w]),
                 e.q[v][i] = e.q[w][j]
          PROVE  v = w /\ i = j
      <3>1. CASE v = u /\ w = u
        <4>1. i \in 1 .. Len(t) /\ j \in 1 .. Len(t) /\ t[i] = t[j]
          BY <1>2, <2>3, <3>1
        <4>2. CASE i = p + 1
          BY <2>4, <3>1, <4>1, <4>2
        <4>3. CASE j = p + 1
          BY <2>4, <3>1, <4>1, <4>3
        <4>4. CASE i # p + 1 /\ j # p + 1
          <5>1. /\ z(i) \in 1 .. Len(d.q[u]) /\ z(j) \in 1 .. Len(d.q[u])
                /\ d.q[u][z(i)] = d.q[u][z(j)]
            BY <1>6, <2>2, <4>1, <4>4
          <5>2. z(i) = z(j)
            BY <2>1, <5>1
          <5> QED  BY <1>7, <3>1, <4>1, <4>4, <5>2
        <4> QED  BY <4>2, <4>3, <4>4
      <3>2. CASE v = u /\ w # u
        <4>1. i \in 1 .. Len(t) /\ j \in 1 .. Len(d.q[w]) /\ t[i] = d.q[w][j]
          BY <1>2, <2>3, <3>2
        <4>2. i # p + 1
          BY <1>8, <2>4, <4>1
        <4>3. z(i) \in 1 .. Len(d.q[u]) /\ d.q[u][z(i)] = d.q[w][j]
          BY <1>6, <2>2, <4>1, <4>2
        <4>4. PICK k \in 1 .. Len(d.q[u]) : d.q[u][k] = d.q[w][j]
          BY <4>3
        <4> QED  BY <2>1, <3>2, <4>1, <4>4
      <3>3. CASE v # u /\ w = u
        <4>1. i \in 1 .. Len(d.q[v]) /\ j \in 1 .. Len(t) /\ d.q[v][i] = t[j]
          BY <1>2, <2>3, <3>3
        <4>2. j # p + 1
          BY <1>8, <2>4, <4>1
        <4>3. z(j) \in 1 .. Len(d.q[u]) /\ d.q[u][z(j)] = d.q[v][i]
          BY <1>6, <2>2, <4>1, <4>2
        <4>4. PICK k \in 1 .. Len(d.q[u]) : d.q[u][k] = d.q[v][i]
          BY <4>3
        <4> QED  BY <2>1, <3>3, <4>1, <4>4
      <3>4. CASE v # u /\ w # u
        <4>1. e.q[v] = d.q[v] /\ e.q[w] = d.q[w]
          BY <1>2, <3>4
        <4> QED  BY <2>1, <2>3, <4>1
      <3> QED  BY <3>1, <3>2, <3>3, <3>4
    <2> QED  BY <2>3 DEF Once
  <1>11. OnDrive(e)
    <2>1. ASSUME NEW g \in Header, Queued(e, g) PROVE e.buf[g].cyl < Cylinders
      <3>1. CASE g = h
        BY <1>31, <3>1
      <3>2. CASE g # h
        <4>1. Queued(d, g)
          BY <1>9, <2>1, <3>2
        <4>2. d.buf[g].cyl < Cylinders
          BY <1>0, <4>1 DEF Base, OnDrive, Queued
        <4> QED  BY <1>31, <3>2, <4>2
      <3> QED  BY <3>1, <3>2
    <2>2. \A v \in Drive : e.q[v] \in Seq(Header)
      BY <1>31, FieldsOf
    <2>3. \A v \in Drive : \A i \in 1 .. Len(e.q[v]) : e.q[v][i] \in Header /\ Queued(e, e.q[v][i])
      BY <2>2 DEF Queued
    <2> QED  BY <2>1, <2>3 DEF OnDrive
  <1>12. Apart(e)
    BY <1>0, <1>31 DEF Base, Apart, Else
  <1>13. \A v \in Drive : OnWay(e, v) <=> OnWay(d, v)
    BY <1>31 DEF OnWay, InReady, Else
  <1>14. Transfers(e)
    <2> SUFFICES ASSUME e.transfer PROVE e.ready # <<>> /\ e.given = Head(e.q[Head(e.ready)])
      BY DEF Transfers
    <2>1. d.transfer /\ d.ready # <<>> /\ d.given = Head(d.q[Head(d.ready)])
      BY <1>0, <1>31 DEF Base, Transfers, Else
    <2> DEFINE v == Head(d.ready)
    <2>2. v \in Drive /\ 1 \in 1 .. Len(d.ready) /\ d.ready[1] = v
      BY <1>0, <2>1, FieldsOf
    <2>3. d.q[v] # <<>>
      BY <2>2 DEF DevInv, DriveOK, OnWay, InReady
    <2>4. Head(e.q[v]) = Head(d.q[v])
      BY <1>2, <1>4, <2>2, <2>3 DEF s
    <2> QED  BY <1>31, <2>1, <2>4 DEF Else
  <1>15. Base(e)
    BY <1>10, <1>11, <1>12, <1>14, <1>31 DEF Base
  <1>16. Adds(d, e, h)
    BY <1>9, <1>31 DEF Adds
  <1>17. \A v \in Drive \ {u} : DriveOK(e, v)
    BY <1>2, <1>13, <1>31 DEF DevInv, DriveOK, Else
  <1>18. ASSUME u \in d.active PROVE DriveOK(e, u)
    BY <1>2, <1>3, <1>13, <1>18, <1>31 DEF DevInv, DriveOK, Else
  <1>19. ASSUME u \notin d.active PROVE Startable(e, u)
    <2>1. ~ OnWay(e, u)
      BY <1>13, <1>19 DEF DevInv, DriveOK
    <2> QED  BY <1>2, <1>3, <1>15, <1>17, <2>1 DEF Startable, OnWay
  <1> QED  BY <1>2, <1>3, <1>15, <1>16, <1>17, <1>18, <1>19 DEF DevInv

\* A request ends without having been in a queue.
LEMMA EndsAtOnce ==
    ASSUME NEW d, AtWork(d), NEW h \in Header, ~ Queued(d, h), NEW error, NEW e, e = Iodone(d, h, error)
    PROVE  AtWork(e) /\ Ends(d, e, h) /\ e.errcnt = d.errcnt
  <1>1. d \in DiskSet
    BY DEF AtWork, DevInv, Base
  <1>2. /\ e \in DiskSet /\ e.q = d.q /\ Else(d, e)
        /\ \A g \in Header : e.buf[g].cyl = d.buf[g].cyl
        /\ IsDone(d, e, h)
    <2>1. EndsIt(d, h, error, e)
      BY <1>1 DEF EndsIt
    <2> QED  BY <2>1, IodoneIs
  <1>7. Base(d)
    BY DEF AtWork, DevInv
  <1>3. \A v \in Drive : e.q[v] \in Seq(Header)
    BY <1>2, FieldsOf
  <1>4. Once(e) /\ OnDrive(e) /\ Apart(e) /\ Transfers(e)
    <2>1. Once(e)
      BY <1>2, <1>7 DEF Base, Once
    <2>3. Apart(e)
      BY <1>2, <1>7 DEF Base, Apart, Else
    <2>4. Transfers(e)
      BY <1>2, <1>7 DEF Base, Transfers, Else
    <2>2. OnDrive(e)
      <3>1. \A v \in Drive : \A i \in 1 .. Len(e.q[v]) : e.q[v][i] \in Header
        BY <1>3
      <3> QED  BY <1>2, <1>7, <3>1 DEF Base, OnDrive
    <2> QED  BY <2>1, <2>2, <2>3, <2>4
  <1>5. \A v \in Drive : DriveOK(e, v)
    BY <1>2 DEF AtWork, DevInv, DriveOK, OnWay, InReady, Else
  <1>6. \A g \in Header : Queued(e, g) <=> Queued(d, g)
    BY <1>2 DEF Queued
  <1> QED  BY <1>2, <1>4, <1>5, <1>6 DEF AtWork, DevInv, Base, Else, Ends

\* A request is put in a queue, and goes on its way, or it ends.
LEMMA hpstrategyIs ==
    ASSUME load.offline = {}, NEW d, AtWork(d), NEW h \in Header, ~ Queued(d, h), NEW near,
           NEW e, e = hpstrategy(d, h, near)
    PROVE  /\ AtWork(e) /\ e.errcnt = d.errcnt
           /\ Adds(d, e, h) \/ Ends(d, e, h)
  <1> DEFINE u == dkunit(d.buf[h])
             c == dkblock(d.buf[h])
             b == [d EXCEPT !.buf[h].cyl = c]
             s == disksort(b, u, h)
             t == hpustart(s, u, near)
             error == TRUE
  <1>0. d \in DiskSet /\ DevInv(d)
    BY DEF AtWork, DevInv, Base
  <1>1. e = IF u \notin Drive \/ c >= Cylinders THEN Iodone(d, h, error)
            ELSE IF u \in d.active THEN s
            ELSE IF t.transfer THEN t ELSE hpstart(t)
    BY DEF hpstrategy
  <1>2. c \in Nat
    <2>1. d.buf \in [Header -> BufSet]
      BY <1>0, FieldsOf
    <2>2. d.buf[h].blk \in Nat /\ d.buf[h].dev.stripes \in Nat \ {0}
      BY <2>1 DEF BufSet
    <2> QED  BY <2>2, Quotient DEF dkblock
  <1> HIDE DEF u, c, error
  <1>3. CASE u \notin Drive \/ c >= Cylinders
    <2>1. e = Iodone(d, h, error)
      BY <1>1, <1>3
    <2> QED  BY <2>1, EndsAtOnce
  <1>4. CASE u \in Drive /\ ~ (c >= Cylinders)
    <2>1. e = IF u \in d.active THEN s ELSE IF t.transfer THEN t ELSE hpstart(t)
      BY <1>1, <1>4
    <2>2. c < Cylinders
      BY <1>2, <1>4, Constants
    <2>3. /\ b \in DiskSet /\ b.q = d.q /\ Else(d, b) /\ b.waits = d.waits
          /\ \A g \in Header : b.buf[g].flags = d.buf[g].flags
          /\ \A g \in Header : b.buf[g].cyl = IF g = h THEN c ELSE d.buf[g].cyl
      BY <1>0, <1>2, CylIs, SMTT(30)
    <2>11. s = disksort(b, u, h)
      OBVIOUS
    <2> HIDE DEF b, s
    <2>4. /\ s \in DiskSet /\ Else(b, s) /\ s.buf = b.buf /\ s.waits = b.waits
          /\ PutIn(b, s, u, h)
      BY <1>4, <2>3, <2>11, disksortIs
    <2>5. PutIn(d, s, u, h)
      BY <2>3, <2>4 DEF PutIn
    <2>6. Joins(d, s, u, h) /\ Else(d, s)
      <3>1. /\ s \in DiskSet /\ Else(d, s) /\ s.waits = d.waits
            /\ \A g \in Header : s.buf[g].flags = d.buf[g].flags
            /\ \A g \in Header \ {h} : s.buf[g].cyl = d.buf[g].cyl
            /\ s.buf[h].cyl < Cylinders
        BY <2>2, <2>3, <2>4 DEF Else
      <3> QED  BY <2>5, <3>1 DEF Joins
    <2>7. /\ Base(s) /\ Adds(d, s, h)
          /\ u \in d.active => DevInv(s)
          /\ u \notin d.active => Startable(s, u)
      BY <1>0, <1>4, <2>6, Joined
    <2>8. s.ready = d.ready /\ s.transfer = d.transfer /\ s.errcnt = d.errcnt
      BY <2>6 DEF Else
    <2>9. CASE u \in d.active
      <3>1. e = s
        BY <2>1, <2>9
      <3> QED  BY <2>7, <2>8, <2>9, <3>1 DEF AtWork
    <2>10. CASE u \notin d.active
      <3>1. DevInv(t) /\ Same(s, t) /\ t.transfer = s.transfer /\ t.errcnt = s.errcnt
        <4>1. StartsUp(s, u, near, t)
          BY <1>4, <2>7, <2>10 DEF StartsUp
        <4> QED  BY <4>1, hpustartStarts DEF IsUp
      <3> HIDE DEF t
      <3>2. CASE t.transfer
        <4>1. e = t
          BY <2>1, <2>10, <3>2
        <4>2. Adds(d, t, h)
          BY <2>7, <3>1 DEF Adds, Same
        <4> QED  BY <2>8, <3>1, <3>2, <4>1, <4>2 DEF AtWork
      <3>3. CASE ~ t.transfer
        <4>1. e = hpstart(t)
          BY <2>1, <2>10, <3>3
        <4>2. AtWork(e) /\ Same(t, e) /\ e.errcnt = t.errcnt
          BY <3>1, <4>1, hpstartIs
        <4>3. Adds(d, e, h)
          BY <2>7, <3>1, <4>2 DEF Adds, Same
        <4> QED  BY <2>8, <3>1, <4>2, <4>3
      <3> QED  BY <3>2, <3>3
    <2> QED  BY <2>9, <2>10
  <1> QED  BY <1>3, <1>4

-----------------------------------------------------------------------------
(* hp.c: a transfer is over                                                *)

\* What is left behind the first of a queue.
LEMMA RestOf ==
    ASSUME NEW S, NEW s \in Seq(S), s # <<>>, NEW t, t = Tail(s)
    PROVE  /\ t \in Seq(S) /\ Len(t) = Len(s) - 1 /\ Len(s) \in Nat /\ Len(s) >= 1
           /\ \A i \in 1 .. Len(t) : t[i] = s[i + 1]
           /\ Head(s) = s[1] /\ Head(s) \in S
  OBVIOUS

\* The request that was in transfer is taken from its queue, its drive from
\* the queue of the controller.
TakenOff(d, e, u) ==
    /\ e \in DiskSet
    /\ e.transfer = FALSE /\ e.errcnt = 0 /\ e.ready = Tail(d.ready)
    /\ e.active = d.active \ {u} /\ e.q = [d.q EXCEPT ![u] = Tail(d.q[u])]
    /\ e.searching = d.searching /\ e.attention = d.attention
    /\ \A g \in Header : e.buf[g].cyl = d.buf[g].cyl
LEMMA TakenOffIs ==
    ASSUME NEW d \in DiskSet, d.ready # <<>>, NEW u \in Drive, d.q[u] # <<>>,
           NEW m, m = [d EXCEPT !.transfer = FALSE, !.errcnt = 0, !.ready = Tail(@),
                                !.active = @ \ {u}, !.q[u] = Tail(@)]
    PROVE  TakenOff(d, m, u) /\ m.buf = d.buf /\ m.waits = d.waits
  <1> DEFINE t == Tail(d.q[u])
             r == Tail(d.ready)
             a == d.active \ {u}
             x == [d.q EXCEPT ![u] = t]
  <1>0. d.q \in [Drive -> Seq(Header)] /\ d.q[u] \in Seq(Header) /\ d.ready \in Seq(Drive)
    BY FieldsOf
  <1>1. t \in Seq(Header) /\ r \in Seq(Drive)
    BY <1>0, RestOf
  <1>2. x \in [Drive -> Seq(Header)] /\ a \subseteq Drive
    BY <1>0, <1>1, FieldsOf
  <1>3. m = [d EXCEPT !.transfer = FALSE, !.errcnt = 0, !.ready = r, !.active = a, !.q = x]
    BY <1>0, FieldsOf DEF DiskSet
  <1> HIDE DEF t, r, a, x
  <1> DEFINE n == [d EXCEPT !.transfer = FALSE, !.errcnt = 0]
  <1>5. /\ n \in DiskSet /\ n.transfer = FALSE /\ n.errcnt = 0
        /\ n.searching = d.searching /\ n.attention = d.attention
        /\ n.buf = d.buf /\ n.waits = d.waits
    BY DEF DiskSet
  <1>6. m = [n EXCEPT !.ready = r, !.active = a, !.q = x]
    BY <1>3 DEF DiskSet
  <1> HIDE DEF n
  <1>7. m \in DiskSet
    BY <1>1, <1>2, <1>5, <1>6, ZenonT(40) DEF DiskSet
  <1>8. /\ m.transfer = n.transfer /\ m.errcnt = n.errcnt /\ m.ready = r /\ m.active = a
        /\ m.q = x /\ m.searching = n.searching /\ m.attention = n.attention
        /\ m.buf = n.buf /\ m.waits = n.waits
    BY <1>5, <1>6, ZenonT(40) DEF DiskSet
  <1>4. /\ m.transfer = FALSE /\ m.errcnt = 0 /\ m.ready = r /\ m.active = a
        /\ m.q = x /\ m.searching = d.searching /\ m.attention = d.attention
        /\ m.buf = d.buf /\ m.waits = d.waits
    BY <1>5, <1>8
  <1> QED  BY <1>4, <1>7 DEF TakenOff, r, a, x, t

First(d, u) == u = Head(d.ready)
Orderly(d, e, u, h) ==
    /\ Queued(d, h)
    /\ \A g \in Header : Queued(e, g) <=> Queued(d, g) /\ g # h
    /\ e.q[u] = <<>> => DevInv(e)
    /\ e.q[u] # <<>> => Startable(e, u)

\* The rest is in order, but the drive is not started.
LEMMA OffIsOrderly ==
    ASSUME NEW d, DevInv(d), d.ready # <<>>, NEW u \in Drive, First(d, u),
           NEW h, h = Head(d.q[u]), NEW e, TakenOff(d, e, u)
    PROVE  Orderly(d, e, u, h)
  <1>30. u = Head(d.ready)
    BY DEF First
  <1> DEFINE s == d.q[u]
             t == Tail(d.q[u])
             r == d.ready
             y == Tail(d.ready)
  <1>22. \A g \in Header : e.buf[g].cyl = d.buf[g].cyl
    BY DEF TakenOff
  <1>0. d \in DiskSet /\ d.q \in [Drive -> Seq(Header)] /\ s \in Seq(Header) /\ r \in Seq(Drive)
        /\ Base(d) /\ e \in DiskSet
    BY FieldsOf DEF DevInv, Base, TakenOff
  <1>1. /\ Len(y) = Len(r) - 1 /\ Len(r) \in Nat /\ Len(r) >= 1 /\ u = r[1] /\ y \in Seq(Drive)
        /\ \A i \in 1 .. Len(y) : y[i] = r[i + 1]
    BY <1>0, <1>30, RestOf
  <1>2. s # <<>> /\ InReady(d, u)
    <2>1. 1 \in 1 .. Len(r)
      BY <1>1
    <2>2. InReady(d, u)
      BY <1>1, <2>1 DEF InReady
    <2> QED  BY <2>2 DEF DevInv, DriveOK, OnWay
  <1>3. /\ Len(t) = Len(s) - 1 /\ Len(s) \in Nat /\ Len(s) >= 1 /\ h = s[1] /\ h \in Header
        /\ t \in Seq(Header) /\ \A i \in 1 .. Len(t) : t[i] = s[i + 1]
    BY <1>0, <1>2, RestOf
  <1>4. e.q[u] = t /\ \A v \in Drive \ {u} : e.q[v] = d.q[v]
    BY <1>0 DEF TakenOff
  <1>5. e.ready = y /\ e.searching = d.searching /\ e.attention = d.attention /\ ~ e.transfer
        /\ e.active = d.active \ {u}
    BY DEF TakenOff
  <1>6. \A v, w \in Drive : \A i \in 1 .. Len(d.q[v]), j \in 1 .. Len(d.q[w]) :
           d.q[v][i] = d.q[w][j] => v = w /\ i = j
    BY <1>0 DEF Base, Once
  <1>7. Queued(d, h)
    <2>1. 1 \in 1 .. Len(s)
      BY <1>3
    <2> QED  BY <1>3, <2>1 DEF Queued
  <1>20. s = d.q[u]
    OBVIOUS
  <1> HIDE DEF s, t, r, y
  \* Where a request of e was in d.
  <1>8. ASSUME NEW v \in Drive, NEW i \in 1 .. Len(e.q[v])
        PROVE  \E j \in 1 .. Len(d.q[v]) : /\ d.q[v][j] = e.q[v][i] /\ j # 0
                                            /\ j = (IF v = u THEN i + 1 ELSE i)
    <2>1. CASE v = u
      <3>1. i \in 1 .. Len(t) /\ i + 1 \in 1 .. Len(s)
        BY <1>3, <1>4, <2>1
      <3> QED  BY <1>3, <1>4, <1>20, <2>1, <3>1
    <2>2. CASE v # u
      BY <1>4, <2>2
    <2> QED  BY <2>1, <2>2
  <1>9. \A g \in Header : Queued(e, g) <=> Queued(d, g) /\ g # h
    <2>1. ASSUME NEW g \in Header, Queued(e, g) PROVE Queued(d, g) /\ g # h
      <3>1. PICK v \in Drive : \E i \in 1 .. Len(e.q[v]) : e.q[v][i] = g
        BY <2>1 DEF Queued
      <3>2. PICK i \in 1 .. Len(e.q[v]) : e.q[v][i] = g
        BY <3>1
      <3>3. PICK j \in 1 .. Len(d.q[v]) : d.q[v][j] = g /\ j = (IF v = u THEN i + 1 ELSE i)
        BY <1>8, <3>2
      <3>4. 1 \in 1 .. Len(d.q[u]) /\ d.q[u][1] = h
        BY <1>3, <1>20
      <3>5. g # h
        <4> SUFFICES ASSUME g = h PROVE FALSE
          OBVIOUS
        <4>1. v = u /\ j = 1
          BY <1>6, <3>3, <3>4
        <4>2. i \in Nat /\ i >= 1
          BY <3>2
        <4> QED  BY <3>3, <4>1, <4>2
      <3> QED  BY <3>3, <3>5 DEF Queued
    <2>2. ASSUME NEW g \in Header, Queued(d, g), g # h PROVE Queued(e, g)
      <3>1. PICK v \in Drive : \E i \in 1 .. Len(d.q[v]) : d.q[v][i] = g
        BY <2>2 DEF Queued
      <3>2. PICK i \in 1 .. Len(d.q[v]) : d.q[v][i] = g
        BY <3>1
      <3>3. CASE v # u
        BY <1>4, <3>2, <3>3 DEF Queued
      <3>4. CASE v = u
        <4>1. i \in 1 .. Len(s) /\ s[i] = g /\ i # 1
          BY <1>3, <1>20, <2>2, <3>2, <3>4
        <4>2. i - 1 \in 1 .. Len(t) /\ t[i - 1] = s[(i - 1) + 1] /\ (i - 1) + 1 = i
          BY <1>3, <4>1
        <4> DEFINE k == i - 1
        <4>3. k \in 1 .. Len(e.q[u]) /\ e.q[u][k] = g
          BY <1>4, <4>1, <4>2
        <4> HIDE DEF k
        <4> QED  BY <4>3 DEF Queued
      <3> QED  BY <3>3, <3>4
    <2> QED  BY <2>1, <2>2
  <1>10. Once(e)
    <2>1. ASSUME NEW v \in Drive, NEW w \in Drive, NEW i \in 1 .. Len(e.q[v]), NEW j \in 1 .. Len(e.q[w]),
                 e.q[v][i] = e.q[w][j]
          PROVE  v = w /\ i = j
      <3>1. PICK k \in 1 .. Len(d.q[v]) : d.q[v][k] = e.q[v][i] /\ k = (IF v = u THEN i + 1 ELSE i)
        BY <1>8
      <3>2. PICK l \in 1 .. Len(d.q[w]) : d.q[w][l] = e.q[w][j] /\ l = (IF w = u THEN j + 1 ELSE j)
        BY <1>8
      <3>3. v = w /\ k = l
        BY <1>6, <2>1, <3>1, <3>2
      <3>4. i \in Nat /\ j \in Nat
        OBVIOUS
      <3> QED  BY <3>1, <3>2, <3>3, <3>4
    <2> QED  BY <2>1 DEF Once
  <1>11. OnDrive(e)
    <2>1. ASSUME NEW v \in Drive, NEW i \in 1 .. Len(e.q[v]) PROVE e.buf[e.q[v][i]].cyl < Cylinders
      <3>1. PICK k \in 1 .. Len(d.q[v]) : d.q[v][k] = e.q[v][i]
        BY <1>8
      <3>2. d.q[v][k] \in Header
        BY <1>0
      <3>3. d.buf[d.q[v][k]].cyl < Cylinders
        BY <1>0 DEF Base, OnDrive
      <3> QED  BY <1>22, <3>1, <3>2, <3>3
    <2> QED  BY <2>1 DEF OnDrive
  <1>12. \A i \in 1 .. Len(y) : i + 1 \in 1 .. Len(r) /\ y[i] = r[i + 1] /\ i \in Nat
    BY <1>1
  <1>13. r = d.ready
    BY DEF r
  <1>14. Apart(e)
    <2>1. \A i, j \in 1 .. Len(r) : r[i] = r[j] => i = j
      BY <1>0, <1>13 DEF Base, Apart
    <2>2. \A i, j \in 1 .. Len(y) : y[i] = y[j] => i = j
      <3>1. ASSUME NEW i \in 1 .. Len(y), NEW j \in 1 .. Len(y), y[i] = y[j] PROVE i = j
        <4>1. i + 1 = j + 1
          BY <1>12, <2>1, <3>1
        <4> QED  BY <1>12, <4>1
      <3> QED  BY <3>1
    <2>3. \A i \in 1 .. Len(y) : y[i] \notin d.searching \cup d.attention
      BY <1>0, <1>12, <1>13 DEF Base, Apart
    <2> QED  BY <1>0, <1>5, <2>2, <2>3 DEF Base, Apart
  <1>15. Transfers(e)
    BY <1>5 DEF Transfers
  <1>16. Base(e)
    BY <1>0, <1>10, <1>11, <1>14, <1>15 DEF Base
  <1>17. ~ OnWay(e, u)
    <2>1. ~ InReady(e, u)
      <3> SUFFICES ASSUME NEW i \in 1 .. Len(y), y[i] = u PROVE FALSE
        BY <1>5 DEF InReady
      <3>1. r[i + 1] = r[1] /\ i + 1 \in 1 .. Len(r) /\ 1 \in 1 .. Len(r) /\ i + 1 # 1
        BY <1>1, <1>12
      <3> QED  BY <1>0, <1>13, <3>1 DEF Base, Apart
    <2>2. u \notin d.searching \cup d.attention
      <3>1. 1 \in 1 .. Len(r) /\ r[1] = u
        BY <1>1
      <3> QED  BY <1>0, <1>13, <3>1 DEF Base, Apart
    <2> QED  BY <1>5, <2>1, <2>2 DEF OnWay
  <1>18. ASSUME NEW v \in Drive \ {u} PROVE DriveOK(e, v)
    <2>1. InReady(e, v) <=> InReady(d, v)
      <3>1. ASSUME InReady(e, v) PROVE InReady(d, v)
        BY <1>5, <1>12, <1>13, <3>1 DEF InReady
      <3>2. ASSUME InReady(d, v) PROVE InReady(e, v)
        <4>1. PICK i \in 1 .. Len(r) : r[i] = v
          BY <1>13, <3>2 DEF InReady
        <4> DEFINE k == i - 1
        <4>2. k \in 1 .. Len(y) /\ k + 1 = i
          BY <1>1, <4>1
        <4> HIDE DEF k
        <4>3. y[k] = v
          BY <1>12, <4>1, <4>2
        <4> QED  BY <1>5, <4>2, <4>3 DEF InReady
      <3> QED  BY <3>1, <3>2
    <2> QED  BY <1>4, <1>5, <2>1 DEF DevInv, DriveOK, OnWay
  <1>19. e.q[u] = <<>> => DevInv(e)
    <2>1. u \notin e.active
      BY <1>5
    <2>2. e.q[u] = <<>> => DriveOK(e, u)
      BY <1>17, <2>1 DEF DriveOK
    <2> QED  BY <1>16, <1>18, <2>2 DEF DevInv
  <1>21. e.q[u] # <<>> => Startable(e, u)
    BY <1>16, <1>17, <1>18 DEF Startable, OnWay
  <1> QED  BY <1>7, <1>9, <1>19, <1>21 DEF Orderly

\* The request in transfer ends, and its drive is started again if it has more.
LEMMA CompletedIs ==
    ASSUME load.offline = {}, NEW d, DevInv(d), d.transfer, NEW error, NEW near,
           NEW e, e = Completed(d, error, near)
    PROVE  /\ DevInv(e) /\ Ends(d, e, d.given) /\ ~ e.transfer /\ e.errcnt = 0
           /\ Queued(d, d.given)
           /\ d.attention \ {Head(d.ready)} \subseteq e.attention
  <1> DEFINE u == Head(d.ready)
             m == [d EXCEPT !.transfer = FALSE, !.errcnt = 0, !.ready = Tail(@),
                            !.active = @ \ {u}, !.q[u] = Tail(@)]
             h == Head(d.q[u])
             f == Iodone(m, h, error)
  <1>0. d \in DiskSet /\ Base(d) /\ d.ready # <<>> /\ d.given = h /\ u \in Drive
    <2>1. d \in DiskSet /\ Base(d) /\ d.ready # <<>> /\ d.given = h
      BY DEF DevInv, Base, Transfers
    <2> QED  BY <2>1, FieldsOf
  <1>1. e = IF f.q[u] = <<>> THEN f ELSE hpustart(f, u, near)
    BY DEF Completed
  <1>2. InReady(d, u) /\ d.q[u] # <<>>
    <2>1. d.ready \in Seq(Drive)
      BY <1>0, FieldsOf
    <2>2. 1 \in 1 .. Len(d.ready) /\ d.ready[1] = u
      BY <1>0, <2>1
    <2>3. InReady(d, u)
      BY <2>2 DEF InReady
    <2> QED  BY <1>0, <2>3 DEF DevInv, DriveOK, OnWay
  <1>3. h \in Header
    BY <1>0, <1>2, FieldsOf
  <1>4. TakenOff(d, m, u) /\ m.buf = d.buf /\ m.waits = d.waits
    <2> HIDE DEF u
    <2> QED  BY <1>0, <1>2, TakenOffIs
  <1>5. m \in DiskSet
    BY <1>4 DEF TakenOff
  <1>12. f = Iodone(m, h, error) /\ u = Head(d.ready) /\ h = Head(d.q[u])
    OBVIOUS
  <1> HIDE DEF m, f, h, u
  <1>6. /\ f \in DiskSet /\ f.q = m.q /\ Else(m, f)
        /\ \A g \in Header : f.buf[g].cyl = m.buf[g].cyl
        /\ IsDone(m, f, h)
    <2>1. EndsIt(m, h, error, f)
      BY <1>3, <1>5, <1>12 DEF EndsIt
    <2> QED  BY <2>1, IodoneIs
  <1>7. TakenOff(d, f, u)
    BY <1>4, <1>6 DEF TakenOff, Else
  <1>8. IsDone(d, f, h)
    BY <1>4, <1>6 DEF IsDone
  <1>13. Orderly(d, f, u, h)
    <2>1. h = Head(d.q[u]) /\ u \in Drive /\ d.ready # <<>> /\ First(d, u)
      BY <1>0, <1>12 DEF First
    <2> QED  BY <1>7, <2>1, OffIsOrderly
  <1>9. /\ Queued(d, h)
        /\ \A g \in Header : Queued(f, g) <=> Queued(d, g) /\ g # h
        /\ f.q[u] = <<>> => DevInv(f)
        /\ f.q[u] # <<>> => Startable(f, u)
    BY <1>13 DEF Orderly
  <1>10. CASE f.q[u] = <<>>
    BY <1>0, <1>1, <1>7, <1>8, <1>9, <1>10 DEF Ends, TakenOff
  <1>11. CASE f.q[u] # <<>>
    <2>1. e = hpustart(f, u, near)
      BY <1>1, <1>11
    <2>2. DevInv(e) /\ Same(f, e) /\ e.attention = f.attention \ {u}
          /\ e.transfer = f.transfer /\ e.errcnt = f.errcnt
      <3>1. StartsUp(f, u, near, e)
        BY <1>0, <1>9, <1>11, <2>1 DEF StartsUp
      <3> QED  BY <3>1, hpustartStarts DEF IsUp
    <2>3. Ends(d, e, h)
      <3>1. IsDone(d, e, h)
        BY <1>8, <2>2 DEF IsDone, Same
      <3>2. \A g \in Header : Queued(e, g) <=> Queued(d, g) /\ g # h
        BY <1>9, <2>2 DEF Same
      <3> QED  BY <3>1, <3>2 DEF Ends
    <2>4. f.attention = d.attention /\ f.transfer = FALSE /\ f.errcnt = 0
      BY <1>7 DEF TakenOff
    <2> QED  BY <1>0, <1>9, <1>12, <2>2, <2>3, <2>4
  <1> QED  BY <1>10, <1>11

-----------------------------------------------------------------------------
(* hp.c: the interrupts                                                    *)

\* What the end of a transfer does to the requests: nothing if it is tried
\* again, or that of the transfer has ended.
HasEnded(d, e) == Same(d, e) \/ (Ends(d, e, d.given) /\ Queued(d, d.given))

\* The controller counts an error.
WithErrors(d, n) == [d EXCEPT !.errcnt = n]
LEMMA Counted ==
    ASSUME NEW d, DevInv(d), NEW n \in Nat, NEW e, e = WithErrors(d, n)
    PROVE  DevInv(e) /\ Same(d, e) /\ e.errcnt = n /\ (e.transfer <=> d.transfer) /\ e.given = d.given
           /\ e.attention = d.attention /\ e.ready = d.ready /\ e.q = d.q
  <1>1. d \in DiskSet
    BY DEF DevInv, Base
  <1>2. /\ e \in DiskSet /\ e.q = d.q /\ e.active = d.active /\ e.ready = d.ready
        /\ e.transfer = d.transfer /\ e.given = d.given /\ e.searching = d.searching
        /\ e.attention = d.attention /\ e.buf = d.buf /\ e.waits = d.waits /\ e.errcnt = n
    BY <1>1 DEF DiskSet, WithErrors
  <1>3. Once(e) /\ OnDrive(e)
    BY <1>2 DEF DevInv, Base, Once, OnDrive
  <1>4. Apart(e) /\ Transfers(e)
    BY <1>2 DEF DevInv, Base, Apart, Transfers
  <1>5. \A v \in Drive : DriveOK(e, v)
    BY <1>2 DEF DevInv, DriveOK, OnWay, InReady
  <1> QED  BY <1>2, <1>3, <1>4, <1>5 DEF DevInv, Base, Same, Queued

\* The controller lets go of a transfer that is to be tried again.
LEMMA LetGo ==
    ASSUME NEW d, DevInv(d), NEW e, e = [d EXCEPT !.transfer = FALSE]
    PROVE  DevInv(e) /\ Same(d, e) /\ e.errcnt = d.errcnt /\ ~ e.transfer
           /\ e.attention = d.attention
  <1>1. d \in DiskSet
    BY DEF DevInv, Base
  <1>2. /\ e \in DiskSet /\ e.q = d.q /\ e.active = d.active /\ e.ready = d.ready
        /\ e.transfer = FALSE /\ e.given = d.given /\ e.searching = d.searching
        /\ e.attention = d.attention /\ e.buf = d.buf /\ e.waits = d.waits /\ e.errcnt = d.errcnt
    BY <1>1 DEF DiskSet
  <1>3. Once(e) /\ OnDrive(e)
    BY <1>2 DEF DevInv, Base, Once, OnDrive
  <1>4. Apart(e) /\ Transfers(e)
    BY <1>2 DEF DevInv, Base, Apart, Transfers
  <1>5. \A v \in Drive : DriveOK(e, v)
    BY <1>2 DEF DevInv, DriveOK, OnWay, InReady
  <1> QED  BY <1>2, <1>3, <1>4, <1>5 DEF DevInv, Base, Same, Queued

LEMMA EndedIs ==
    ASSUME load.offline = {}, NEW d, DevInv(d), d.transfer, d.errcnt <= MaxErrors,
           NEW how, NEW near, NEW r, r = Ended(d, how, near)
    PROVE  /\ DevInv(r) /\ ~ r.transfer /\ HasEnded(d, r) /\ r.errcnt <= MaxErrors
           /\ d.attention \ {Head(d.ready)} \subseteq r.attention
  <1> DEFINE n == d.errcnt + 1
             e == [d EXCEPT !.errcnt = n]
             bad == n > MaxErrors \/ how = "locked"
             no == FALSE
             f == [e EXCEPT !.transfer = FALSE]
             c == Corrects(d, how)
  <1>0. d.errcnt \in Nat /\ n \in Nat /\ d \in DiskSet
    BY FieldsOf DEF DevInv, Base
  <1>1. DevInv(e) /\ Same(d, e) /\ e.errcnt = n /\ (e.transfer <=> d.transfer) /\ e.given = d.given
        /\ e.attention = d.attention /\ e.ready = d.ready /\ e.q = d.q
    <2>1. e = WithErrors(d, n)
      BY DEF WithErrors
    <2> HIDE DEF n, e
    <2> QED  BY <1>0, <2>1, Counted, SMTT(30)
  <1>2. r = IF how = "done" THEN Completed(d, no, near)
            ELSE IF bad \/ c THEN Completed(e, bad, near) ELSE f
    <2>1. e.errcnt = n
      BY <1>1
    <2> HIDE DEF c
    <2> QED  BY <2>1 DEF Ended, c
  <1>3. n > MaxErrors => bad
    OBVIOUS
  <1>4. f = [e EXCEPT !.transfer = FALSE]
    OBVIOUS
  <1> HIDE DEF no, c, e, bad, f
  <1>5. CASE how = "done"
    <2>1. r = Completed(d, no, near)
      BY <1>2, <1>5
    <2>2. /\ DevInv(r) /\ Ends(d, r, d.given) /\ ~ r.transfer /\ r.errcnt = 0
          /\ Queued(d, d.given)
          /\ d.attention \ {Head(d.ready)} \subseteq r.attention
      BY <2>1, CompletedIs
    <2> QED  BY <2>2, Constants DEF HasEnded
  <1>6. CASE how # "done" /\ (bad \/ c)
    <2>1. r = Completed(e, bad, near)
      BY <1>2, <1>6
    <2>2. /\ DevInv(r) /\ Ends(e, r, e.given) /\ ~ r.transfer /\ r.errcnt = 0
          /\ Queued(e, e.given)
          /\ e.attention \ {Head(e.ready)} \subseteq r.attention
      BY <1>1, <2>1, CompletedIs
    <2>3. d.given \in Header
      BY <1>0, FieldsOf
    <2>4. Ends(d, r, d.given) /\ Queued(d, d.given)
      BY <1>1, <2>2, <2>3 DEF Ends, IsDone, Same
    <2> QED  BY <1>1, <2>2, <2>4, Constants DEF HasEnded
  <1>7. CASE how # "done" /\ ~ (bad \/ c)
    <2>1. r = f
      BY <1>2, <1>7
    <2>2. DevInv(r) /\ Same(e, r) /\ r.errcnt = e.errcnt /\ ~ r.transfer /\ r.attention = e.attention
      BY <1>1, <1>4, <2>1, LetGo
    <2>3. Same(d, r)
      BY <1>1, <2>2 DEF Same
    <2>4. r.errcnt <= MaxErrors
      BY <1>0, <1>1, <1>3, <1>7, <2>2, Constants
    <2> QED  BY <1>1, <2>2, <2>3, <2>4 DEF HasEnded
  <1> QED  BY <1>5, <1>6, <1>7

LEMMA EndedThenSame ==
    ASSUME NEW d, NEW e, NEW f, HasEnded(d, e), Same(e, f)
    PROVE  HasEnded(d, f)
  <1>1. CASE Same(d, e)
    BY <1>1 DEF Same, HasEnded
  <1>2. CASE Ends(d, e, d.given) /\ Queued(d, d.given)
    BY <1>2 DEF Same, HasEnded, Ends, IsDone
  <1> QED  BY <1>1, <1>2 DEF HasEnded

\* hpintr keeps the driver at work and ends at most one request.
LEMMA hpintrIs ==
    ASSUME load.offline = {}, NEW d, AtWork(d), d.errcnt <= MaxErrors,
           NEW how, NEW near, NEW e, e = hpintr(d, how, near)
    PROVE  AtWork(e) /\ HasEnded(d, e) /\ e.errcnt <= MaxErrors
  <1>0. DevInv(d)
    BY DEF AtWork
  <1>1. CASE d.transfer
    <2> DEFINE r == Ended(d, how, near)
               as == d.attention \ {Head(d.ready)}
               s == Attended(r, as, near)
    <2>1. e = hpstart(s)
      BY <1>1 DEF hpintr
    <2>2. DevInv(r) /\ ~ r.transfer /\ HasEnded(d, r) /\ r.errcnt <= MaxErrors /\ as \subseteq r.attention
      BY <1>0, <1>1, EndedIs
    <2> HIDE DEF r, as
    <2>7. s = Attended(r, as, near)
      OBVIOUS
    <2> HIDE DEF s
    <2>3. DevInv(s) /\ Same(r, s) /\ s.errcnt = r.errcnt
      <3>1. AttendsTo(r, as, near, s)
        BY <2>2, <2>7 DEF AttendsTo, Within
      <3> QED  BY <3>1, AttendedIs
    <2>4. AtWork(e) /\ Same(s, e) /\ e.errcnt = s.errcnt
      BY <2>1, <2>3, hpstartIs
    <2>5. HasEnded(d, s)
      BY <2>2, <2>3, EndedThenSame
    <2>6. HasEnded(d, e)
      BY <2>4, <2>5, EndedThenSame
    <2> QED  BY <2>2, <2>3, <2>4, <2>6
  <1>2. CASE ~ d.transfer
    <2> DEFINE s == Attended(d, d.attention, near)
    <2>1. e = hpstart(s)
      BY <1>2 DEF hpintr
    <2>2. AttendsTo(d, d.attention, near, s)
      BY <1>0 DEF AttendsTo, Within
    <2> HIDE DEF s
    <2>5. DevInv(s) /\ Same(d, s) /\ s.errcnt = d.errcnt
      BY <2>2, AttendedIs
    <2>3. AtWork(e) /\ Same(s, e) /\ e.errcnt = s.errcnt
      BY <2>1, <2>5, hpstartIs
    <2>4. HasEnded(d, s)
      BY <2>5 DEF HasEnded
    <2> QED  BY <2>3, <2>4, <2>5, EndedThenSame
  <1> QED  BY <1>1, <1>2

-----------------------------------------------------------------------------
(* bio.c: who has which header                                             *)

JobSet == [at : {"user", "get", "piece", "wait"}, rest : Seq(Call), buf : Header,
           left : Nat, blk : Nat]

\* The process has taken the header and has not let go of it.
Owns(w, h) == job[w].buf = h /\ job[w].at \in {"piece", "wait"}
FlagsOf(h) == disk.buf[h].flags
IsBusy(h) == "BUSY" \in FlagsOf(h)
IsOver(h) == "DONE" \in FlagsOf(h)
Awaits(w, h) == job[w].buf = h /\ job[w].at = "wait" /\ ~ IsOver(h)

JTypes ==
    /\ load \in Loads /\ AtWork(disk) /\ disk.errcnt <= MaxErrors /\ job \in [Worker -> JobSet]
    /\ busy \in Worker \cup {"nobody"} /\ panicked \in BOOLEAN
    /\ \A w \in Worker : job[w].at # "user" => job[w].rest # <<>>

\* A header that is busy has one owner, and a free one has none.
JOwners ==
    /\ \A w \in Worker : \A h \in Header : Owns(w, h) => IsBusy(h)
    /\ \A v, w \in Worker : \A h \in Header : Owns(v, h) /\ Owns(w, h) => v = w
    /\ \A h \in Header : IsBusy(h) => \E w \in Worker : Owns(w, h)

\* The requests in the queues are those that are waited for.
JRequests == \A h \in Header : Queued(disk, h) <=> \E w \in Worker : Awaits(w, h)

\* What is left to do; a transfer of more than a piece starts each one anew.
JPieces ==
    \A w \in Worker :
      /\ job[w].at = "wait" => job[w].left > 0
      /\ job[w].at # "user" /\ This(w).kind = "cache" => job[w].left <= 1
      /\ job[w].at = "piece" /\ job[w].left > 0 /\ This(w).kind # "raw" => ~ IsOver(job[w].buf)

\* Who sleeps for a header waits for its owner, and will be woken, or is its
\* owner and waits for the end of the transfer.
JSleepers ==
    /\ \A w \in Worker : \A h \in Header : disk.waits[w] = h =>
         /\ job[w].buf = h /\ job[w].at \in {"get", "wait"}
         /\ job[w].at = "wait" => ~ IsOver(h)
         /\ job[w].at = "get" => IsBusy(h) /\ "WANTED" \in FlagsOf(h)
    /\ \A w \in Worker : busy = w => disk.waits[w] \notin Header
    /\ \A w \in Worker : job[w].at = "piece" =>
         busy = w /\ \A v \in Worker : disk.waits[v] # job[w].buf

JInv == JTypes /\ JOwners /\ JRequests /\ JPieces /\ JSleepers

\* A change that leaves the queues as they are.
Alike(d, e) ==
    /\ e \in DiskSet /\ Else(d, e) /\ e.q = d.q
    /\ \A g \in Header : e.buf[g].cyl = d.buf[g].cyl

LEMMA StaysAtWork ==
    ASSUME NEW d, AtWork(d), NEW e, Alike(d, e)
    PROVE  /\ AtWork(e) /\ e.errcnt = d.errcnt
           /\ \A g \in Header : Queued(e, g) <=> Queued(d, g)
  <1>2. e \in DiskSet /\ e.q = d.q /\ Else(d, e) /\ \A g \in Header : e.buf[g].cyl = d.buf[g].cyl
    BY DEF Alike
  <1>7. Base(d)
    BY DEF AtWork, DevInv
  <1>3. \A v \in Drive : e.q[v] \in Seq(Header)
    BY <1>2, FieldsOf
  <1>4. Once(e) /\ OnDrive(e) /\ Apart(e) /\ Transfers(e)
    <2>1. Once(e)
      BY <1>2, <1>7 DEF Base, Once
    <2>3. Apart(e)
      BY <1>2, <1>7 DEF Base, Apart, Else
    <2>4. Transfers(e)
      BY <1>2, <1>7 DEF Base, Transfers, Else
    <2>2. OnDrive(e)
      <3>1. \A v \in Drive : \A i \in 1 .. Len(e.q[v]) : e.q[v][i] \in Header
        BY <1>3
      <3> QED  BY <1>2, <1>7, <3>1 DEF Base, OnDrive
    <2> QED  BY <2>1, <2>2, <2>3, <2>4
  <1>5. \A v \in Drive : DriveOK(e, v)
    BY <1>2 DEF AtWork, DevInv, DriveOK, OnWay, InReady, Else
  <1>6. \A g \in Header : Queued(e, g) <=> Queued(d, g)
    BY <1>2 DEF Queued
  <1> QED  BY <1>2, <1>4, <1>5, <1>6 DEF AtWork, DevInv, Base, Else

\* The flags of a header are set.
LEMMA WithFlagsIs ==
    ASSUME NEW d \in DiskSet, NEW h \in Header, NEW f \in SUBSET Flag7, NEW e, e = WithFlags(d, h, f)
    PROVE  /\ Alike(d, e) /\ e.waits = d.waits
           /\ \A g \in Header : e.buf[g].flags = IF g = h THEN f ELSE d.buf[g].flags
  <1> DEFINE x == [d.buf EXCEPT ![h].flags = f]
  <1>1. d.buf \in [Header -> BufSet]
    BY FieldsOf
  <1>2. x \in [Header -> BufSet] /\ \A g \in Header : /\ x[g].cyl = d.buf[g].cyl
                                                       /\ x[g].flags = IF g = h THEN f ELSE d.buf[g].flags
    BY <1>1 DEF BufSet
  <1>3. e = [d EXCEPT !.buf = x]
    BY DEF WithFlags
  <1> HIDE DEF x
  <1>4. e \in DiskSet /\ e.buf = x /\ e.waits = d.waits /\ Else(d, e) /\ e.q = d.q
    BY <1>2, <1>3 DEF DiskSet, Else
  <1> QED  BY <1>2, <1>4 DEF Alike

\* A process begins or ends to sleep.
LEMMA WaitIs ==
    ASSUME NEW d \in DiskSet, NEW w \in Worker, NEW x \in Header \cup {"none", "ready"},
           NEW e, e = [d EXCEPT !.waits[w] = x]
    PROVE  /\ Alike(d, e) /\ e.buf = d.buf
           /\ \A v \in Worker : e.waits[v] = IF v = w THEN x ELSE d.waits[v]
  <1> DEFINE y == [d.waits EXCEPT ![w] = x]
  <1>1. d.waits \in [Worker -> Header \cup {"none", "ready"}]
    BY FieldsOf
  <1>2. y \in [Worker -> Header \cup {"none", "ready"}]
        /\ \A v \in Worker : y[v] = IF v = w THEN x ELSE d.waits[v]
    BY <1>1
  <1>3. e = [d EXCEPT !.waits = y]
    OBVIOUS
  <1> HIDE DEF y
  <1>4. e \in DiskSet /\ e.buf = d.buf /\ e.waits = y /\ Else(d, e) /\ e.q = d.q
    BY <1>2, <1>3 DEF DiskSet, Else
  <1> QED  BY <1>2, <1>4 DEF Alike

\* All who sleep for a header are woken.
LEMMA WakeUpIs ==
    ASSUME NEW d \in DiskSet, NEW h, NEW e, e = WakeUp(d, h)
    PROVE  /\ Alike(d, e) /\ e.buf = d.buf
           /\ \A v \in Worker : e.waits[v] = IF d.waits[v] = h THEN "ready" ELSE d.waits[v]
  <1> DEFINE y == [v \in Worker |-> IF d.waits[v] = h THEN "ready" ELSE d.waits[v]]
  <1>1. d.waits \in [Worker -> Header \cup {"none", "ready"}]
    BY FieldsOf
  <1>2. y \in [Worker -> Header \cup {"none", "ready"}]
        /\ \A v \in Worker : y[v] = IF d.waits[v] = h THEN "ready" ELSE d.waits[v]
    BY <1>1
  <1>3. e = [d EXCEPT !.waits = y]
    BY DEF WakeUp
  <1> HIDE DEF y
  <1>4. e \in DiskSet /\ e.buf = d.buf /\ e.waits = y /\ Else(d, e) /\ e.q = d.q
    BY <1>2, <1>3 DEF DiskSet, Else
  <1> QED  BY <1>2, <1>4 DEF Alike

\* A header is filled in.
Filled(d, h, f, v, k) == [d EXCEPT !.buf[h] = [@ EXCEPT !.flags = f, !.dev = v, !.blk = k]]
DevSet == [first : Nat, stripes : Nat \ {0}]
FillsIn(d, h, f, v, k, e) ==
    /\ d \in DiskSet /\ h \in Header /\ f \in SUBSET Flag7 /\ v \in DevSet /\ k \in Nat
    /\ e = Filled(d, h, f, v, k)
LEMMA FilledIs ==
    ASSUME NEW d, NEW h, NEW f, NEW v, NEW k, NEW e, FillsIn(d, h, f, v, k, e)
    PROVE  /\ Alike(d, e) /\ e.waits = d.waits
           /\ \A g \in Header : e.buf[g].flags = IF g = h THEN f ELSE d.buf[g].flags
  <1>0. d \in DiskSet /\ h \in Header /\ f \in SUBSET Flag7 /\ v \in DevSet /\ k \in Nat
        /\ e = Filled(d, h, f, v, k)
    BY DEF FillsIn
  <1> DEFINE b == [d.buf[h] EXCEPT !.flags = f, !.dev = v, !.blk = k]
             x == [d.buf EXCEPT ![h] = b]
  <1>1. d.buf \in [Header -> BufSet]
    BY <1>0, FieldsOf
  <1>2. b \in BufSet /\ b.flags = f /\ b.cyl = d.buf[h].cyl
    <2>1. d.buf[h] \in BufSet
      BY <1>0, <1>1
    <2> QED  BY <1>0, <2>1 DEF BufSet, DevSet
  <1>3. e = [d EXCEPT !.buf = x]
    BY <1>0, <1>1, FieldsOf DEF DiskSet, Filled
  <1> HIDE DEF b
  <1>4. x \in [Header -> BufSet] /\ \A g \in Header : /\ x[g].cyl = d.buf[g].cyl
                                                       /\ x[g].flags = IF g = h THEN f ELSE d.buf[g].flags
    BY <1>0, <1>1, <1>2
  <1> HIDE DEF x
  <1>5. e \in DiskSet /\ e.buf = x /\ e.waits = d.waits /\ Else(d, e) /\ e.q = d.q
    BY <1>0, <1>3, <1>4 DEF DiskSet, Else
  <1> QED  BY <1>4, <1>5 DEF Alike

-----------------------------------------------------------------------------
(* The invariant: initially, and for each operation                        *)

\* The parts of a job.
LEMMA JobIs ==
    ASSUME JTypes, NEW w \in Worker
    PROVE  /\ job[w].at \in {"user", "get", "piece", "wait"} /\ job[w].rest \in Seq(Call)
           /\ job[w].buf \in Header /\ job[w].left \in Nat /\ job[w].blk \in Nat
           /\ job[w].at # "user" \/ job[w].rest # <<>> => This(w) \in Call
           /\ disk \in DiskSet /\ FlagsOf(job[w].buf) \in SUBSET Flag7
  <1>1. job[w] \in JobSet /\ disk \in DiskSet
    BY DEF JTypes, AtWork, DevInv, Base
  <1>2. disk.buf \in [Header -> BufSet]
    BY <1>1, FieldsOf
  <1>3. job[w].at \in {"user", "get", "piece", "wait"} /\ job[w].rest \in Seq(Call)
        /\ job[w].buf \in Header /\ job[w].left \in Nat /\ job[w].blk \in Nat
    BY <1>1 DEF JobSet
  <1>4. FlagsOf(job[w].buf) \in SUBSET Flag7
    <2>1. disk.buf[job[w].buf] \in BufSet
      BY <1>2, <1>3
    <2> QED  BY <2>1 DEF BufSet, FlagsOf
  <1>5. job[w].rest # <<>> => This(w) \in Call
    BY <1>3 DEF This
  <1>6. job[w].at # "user" => job[w].rest # <<>>
    BY DEF JTypes
  <1> QED  BY <1>1, <1>3, <1>4, <1>5, <1>6

\* The parts of a call.
LEMMA CallIs ==
    ASSUME NEW c \in Call
    PROVE  /\ c.kind \in {"swap", "raw", "cache"} /\ c.rw \in {"READ", "WRITE"}
           /\ c.dev \in [first : Nat, stripes : Nat \ {0}] /\ c.blk \in Nat /\ c.count \in Nat
           /\ c.kind = "cache" => c.count <= 1
  BY DEF Call, Transfer

LEMMA OwnFlagsAre ==
    ASSUME JTypes, NEW w \in Worker, job[w].at # "user"
    PROVE  OwnFlags(w) \in SUBSET Flag7 /\ "BUSY" \in OwnFlags(w) /\ "DONE" \notin OwnFlags(w)
  <1>1. This(w).rw \in {"READ", "WRITE"}
    BY JobIs, CallIs
  <1> QED  BY <1>1 DEF OwnFlags, Flag7

LEMMA Begins ==
    ASSUME DiskInit
    PROVE  JInv
  <1>1. load \in Loads /\ busy = "nobody" /\ panicked = FALSE
        /\ job = [w \in Worker |-> [at |-> "user", rest |-> load.transfers[w], buf |-> Swap1,
                                    left |-> 0, blk |-> 0]]
    BY DEF DiskInit
  <1>2. /\ disk.q = [u \in Drive |-> <<>>] /\ disk.active = {} /\ disk.ready = <<>>
        /\ disk.transfer = FALSE /\ disk.given = Swap1 /\ disk.errcnt = 0
        /\ disk.at = [u \in Drive |-> 0] /\ disk.searching = {} /\ disk.attention = {}
        /\ disk.buf = [h \in Header |-> NoRequest] /\ disk.waits = [w \in Worker |-> "none"]
    BY DEF DiskInit
  <1>3. NoRequest \in BufSet /\ NoRequest.flags = {}
    BY DEF NoRequest, BufSet
  <1>4. disk \in DiskSet
    <2>1. [u \in Drive |-> <<>>] \in [Drive -> Seq(Header)] /\ <<>> \in Seq(Drive)
      OBVIOUS
    <2>2. [u \in Drive |-> 0] \in [Drive -> 0 .. Cylinders - 1]
      BY Constants
    <2>3. [h \in Header |-> NoRequest] \in [Header -> BufSet]
      BY <1>3
    <2>4. [w \in Worker |-> "none"] \in [Worker -> Header \cup {"none", "ready"}]
      OBVIOUS
    <2> DEFINE q == [u \in Drive |-> <<>>]
               t == [u \in Drive |-> 0]
               b == [h \in Header |-> NoRequest]
               x == [w \in Worker |-> "none"]
    <2>5. disk = [q |-> q, active |-> {}, ready |-> <<>>, transfer |-> FALSE, given |-> Swap1,
                  errcnt |-> 0, at |-> t, searching |-> {}, attention |-> {}, buf |-> b, waits |-> x]
      BY DEF DiskInit
    <2> HIDE DEF q, t, b, x
    <2>6. q \in [Drive -> Seq(Header)] /\ t \in [Drive -> 0 .. Cylinders - 1]
          /\ b \in [Header -> BufSet] /\ x \in [Worker -> Header \cup {"none", "ready"}]
      BY <2>1, <2>2, <2>3, <2>4 DEF q, t, b, x
    <2> QED  BY <2>1, <2>5, <2>6, Constants DEF DiskSet
  <1>5. \A u \in Drive : disk.q[u] = <<>> /\ Len(disk.q[u]) = 0
    BY <1>2
  <1>6. AtWork(disk)
    <2>1. Once(disk) /\ OnDrive(disk)
      BY <1>5 DEF Once, OnDrive
    <2>2. Apart(disk) /\ Transfers(disk)
      BY <1>2 DEF Apart, Transfers
    <2>3. \A u \in Drive : DriveOK(disk, u)
      BY <1>2, <1>5 DEF DriveOK, OnWay, InReady
    <2> QED  BY <1>2, <1>4, <2>1, <2>2, <2>3 DEF AtWork, DevInv, Base
  <1>7. \A w \in Worker : load.transfers[w] \in Seq(Call)
    BY <1>1, DiskAssumption DEF Call
  <1>8. job \in [Worker -> JobSet] /\ \A w \in Worker : job[w].at = "user"
    BY <1>1, <1>7, Constants DEF JobSet
  <1>9. JTypes
    <2>1. panicked \in BOOLEAN
      BY <1>1
    <2>2. disk.errcnt <= MaxErrors
      BY <1>2, Constants
    <2> QED  BY <1>1, <1>6, <1>8, <2>1, <2>2 DEF JTypes
  <1>10. \A h \in Header : FlagsOf(h) = {}
    BY <1>2, <1>3 DEF FlagsOf
  <1>11. JOwners
    BY <1>8, <1>10 DEF JOwners, Owns, IsBusy
  <1>12. JRequests
    BY <1>5, <1>8 DEF JRequests, Queued, Awaits
  <1>13. JPieces
    BY <1>8 DEF JPieces
  <1>14. JSleepers
    BY <1>2, <1>8, Constants DEF JSleepers
  <1> QED  BY <1>9, <1>11, <1>12, <1>13, <1>14 DEF JInv

LEMMA StartTransferKeeps ==
    ASSUME JInv, NEW w \in Worker, StartTransfer(w)
    PROVE  JInv'
  <1> DEFINE b == CASE This(w).kind = "swap" -> SwapBuf
                    [] This(w).kind = "raw" -> RawBuf
                    [] This(w).kind = "cache" -> w
             r == [at |-> "get", rest |-> job[w].rest, buf |-> b,
                   left |-> This(w).count, blk |-> This(w).blk]
  <1>0. JTypes /\ JOwners /\ JRequests /\ JPieces /\ JSleepers
    BY DEF JInv
  <1>1. /\ busy = "nobody" /\ job[w].at = "user" /\ job[w].rest # <<>> /\ busy' = w
        /\ disk' = disk /\ load' = load /\ panicked' = panicked /\ job \in [Worker -> JobSet]
    BY <1>0 DEF StartTransfer, SameLoad, JTypes
  <1>2. job' = [job EXCEPT ![w] = r]
    BY <1>1 DEF StartTransfer
  <1>3. This(w) \in Call /\ job[w].rest \in Seq(Call) /\ This(w) = Head(job[w].rest)
    BY <1>0, <1>1, JobIs DEF This
  <1>4. b \in Header
    <2>1. This(w).kind \in {"swap", "raw", "cache"}
      BY <1>3, CallIs
    <2>2. SwapBuf \in Header
      BY Constants DEF SwapBuf
    <2> QED  BY <2>1, <2>2, Constants
  <1> HIDE DEF b
  <1>5. /\ r \in JobSet /\ r.at = "get" /\ r.rest = job[w].rest /\ r.left = This(w).count
    BY <1>3, <1>4, CallIs DEF JobSet
  <1> HIDE DEF r
  <1>6. job' \in [Worker -> JobSet] /\ job'[w] = r /\ \A v \in Worker \ {w} : job'[v] = job[v]
    BY <1>1, <1>2, <1>5
  <1>7. JTypes'
    BY <1>0, <1>1, <1>5, <1>6 DEF JTypes
  <1>8. \A v \in Worker : \A h \in Header : Owns(v, h)' <=> Owns(v, h)
    BY <1>1, <1>5, <1>6 DEF Owns
  <1>9. \A h \in Header : FlagsOf(h)' = FlagsOf(h)
    BY <1>1 DEF FlagsOf
  <1>10. JOwners'
    BY <1>0, <1>8, <1>9 DEF JOwners, IsBusy
  <1>11. \A v \in Worker : \A h \in Header : Awaits(v, h)' <=> Awaits(v, h)
    BY <1>1, <1>5, <1>6, <1>9 DEF Awaits, IsOver
  <1>12. JRequests'
    BY <1>0, <1>1, <1>11 DEF JRequests
  <1>13. JPieces'
    <2>1. This(w)' = This(w)
      BY <1>3, <1>5, <1>6 DEF This
    <2>2. \A v \in Worker \ {w} : This(v)' = This(v)
      BY <1>6 DEF This
    <2>3. \A v \in Worker : job[v].buf \in Header
      BY <1>0, JobIs
    <2>4. This(w).kind = "cache" => This(w).count <= 1
      BY <1>3, CallIs
    <2> QED  BY <1>0, <1>5, <1>6, <1>9, <2>1, <2>2, <2>3, <2>4 DEF JPieces, IsOver
  <1>14. JSleepers'
    <2>1. \A h \in Header : disk.waits[w] # h
      BY <1>0, <1>1 DEF JSleepers
    <2>2. \A v \in Worker : job[v].at # "piece"
      BY <1>0, <1>1, Constants DEF JSleepers
    <2>3. \A v \in Worker : \A h \in Header : disk'.waits[v] = h =>
              /\ job'[v].buf = h /\ job'[v].at \in {"get", "wait"}
              /\ job'[v].at = "wait" => ~ IsOver(h)'
              /\ job'[v].at = "get" => IsBusy(h)' /\ "WANTED" \in FlagsOf(h)'
      BY <1>0, <1>1, <1>6, <1>9, <2>1 DEF JSleepers, IsOver, IsBusy
    <2>4. \A v \in Worker : busy' = v => disk'.waits[v] \notin Header
      BY <1>1, <2>1
    <2>5. \A v \in Worker : job'[v].at # "piece"
      BY <1>5, <1>6, <2>2
    <2> QED  BY <2>3, <2>4, <2>5 DEF JSleepers
  <1> QED  BY <1>7, <1>10, <1>12, <1>13, <1>14 DEF JInv

\* Changes of the disk that leave flags and jobs alone.
LEMMA RerunKeeps ==
    ASSUME JInv, NEW w \in Worker, Rerun(w)
    PROVE  JInv'
  <1>0. JTypes /\ JOwners /\ JRequests /\ JPieces /\ JSleepers
    BY DEF JInv
  <1>1. /\ busy = "nobody" /\ disk.waits[w] = "ready" /\ busy' = w /\ job' = job
        /\ load' = load /\ panicked' = panicked /\ disk' = [disk EXCEPT !.waits[w] = "none"]
    BY DEF Rerun, SameLoad
  <1>2. disk \in DiskSet /\ AtWork(disk)
    BY <1>0 DEF JTypes, AtWork, DevInv, Base
  <1>3. /\ Alike(disk, disk') /\ disk'.buf = disk.buf
        /\ \A v \in Worker : disk'.waits[v] = IF v = w THEN "none" ELSE disk.waits[v]
    BY <1>1, <1>2, WaitIs
  <1>4. /\ AtWork(disk') /\ disk'.errcnt = disk.errcnt
        /\ \A g \in Header : Queued(disk', g) <=> Queued(disk, g)
    BY <1>2, <1>3, StaysAtWork
  <1>5. JTypes'
    BY <1>0, <1>1, <1>4 DEF JTypes
  <1>6. \A h \in Header : FlagsOf(h)' = FlagsOf(h)
    BY <1>3 DEF FlagsOf
  <1>7. JOwners'
    BY <1>0, <1>1, <1>6 DEF JOwners, Owns, IsBusy
  <1>8. JRequests'
    BY <1>0, <1>1, <1>4, <1>6 DEF JRequests, Awaits, IsOver
  <1>9. JPieces'
    <2>1. \A v \in Worker : This(v)' = This(v) /\ job[v].buf \in Header
      BY <1>0, <1>1, JobIs DEF This
    <2> QED  BY <1>0, <1>1, <1>6, <2>1 DEF JPieces, IsOver
  <1>10. JSleepers'
    <2>1. \A v \in Worker : job[v].at # "piece"
      BY <1>0, <1>1, Constants DEF JSleepers
    <2> QED  BY <1>0, <1>1, <1>3, <1>6, <2>1, Constants DEF JSleepers, IsOver, IsBusy
  <1> QED  BY <1>5, <1>7, <1>8, <1>9, <1>10 DEF JInv

LEMMA GetHeaderKeeps ==
    ASSUME JInv, NEW w \in Worker, GetHeader(w)
    PROVE  JInv'
  <1> DEFINE f == Flags(w) \cup {"WANTED"}
  <1>0. JTypes /\ JOwners /\ JRequests /\ JPieces /\ JSleepers
    BY DEF JInv
  <1>8. PICK h \in Header : h = job[w].buf
    BY <1>0, JobIs
  <1>1. busy = w /\ job[w].at = "get" /\ load' = load /\ panicked' = panicked
    BY DEF GetHeader, InStep, SameLoad
  <1>2. disk \in DiskSet /\ AtWork(disk) /\ h \in Header /\ job \in [Worker -> JobSet]
    BY <1>0 DEF JTypes, AtWork, DevInv, Base
  <1>3. Flags(w) = FlagsOf(h) /\ FlagsOf(h) \in SUBSET Flag7 /\ (Taken(w) <=> IsBusy(h))
    BY <1>0, <1>8, JobIs DEF Flags, FlagsOf, Taken, IsBusy
  <1>4. \A v \in Worker : job[v].at # "piece"
    BY <1>0, <1>1 DEF JSleepers
  <1>5. \A v \in Worker : job[v].buf \in Header
    BY <1>0, JobIs
  <1>6. CASE Taken(w)
    <2> DEFINE d == WithFlags(disk, h, f)
    <2>1. disk' = [d EXCEPT !.waits[w] = h] /\ busy' = "nobody" /\ job' = job
      BY <1>6, <1>8 DEF GetHeader, SleepFor
    <2>2. f \in SUBSET Flag7 /\ f = FlagsOf(h) \cup {"WANTED"}
      BY <1>3 DEF Flag7
    <2> HIDE DEF f
    <2>3. /\ Alike(disk, d) /\ d.waits = disk.waits
          /\ \A g \in Header : d.buf[g].flags = IF g = h THEN f ELSE disk.buf[g].flags
      BY <1>2, <2>2, WithFlagsIs
    <2> HIDE DEF d
    <2>4. d \in DiskSet
      BY <2>3 DEF Alike
    <2>5. /\ Alike(d, disk') /\ disk'.buf = d.buf
          /\ \A v \in Worker : disk'.waits[v] = IF v = w THEN h ELSE d.waits[v]
      BY <1>2, <2>1, <2>4, WaitIs
    <2>6. AtWork(d) /\ d.errcnt = disk.errcnt /\ \A g \in Header : Queued(d, g) <=> Queued(disk, g)
      BY <1>2, <2>3, StaysAtWork
    <2>7. /\ AtWork(disk') /\ disk'.errcnt = disk.errcnt
          /\ \A g \in Header : Queued(disk', g) <=> Queued(disk, g)
      BY <2>5, <2>6, StaysAtWork
    <2>8. \A g \in Header :
            /\ FlagsOf(g)' = IF g = h THEN f ELSE FlagsOf(g)
            /\ IsBusy(g)' <=> IsBusy(g)
            /\ IsOver(g)' <=> IsOver(g)
      <3>1. \A g \in Header : FlagsOf(g)' = IF g = h THEN f ELSE FlagsOf(g)
        BY <2>3, <2>5 DEF FlagsOf
      <3> QED  BY <2>2, <3>1 DEF IsBusy, IsOver
    <2>9. JTypes'
      BY <1>0, <1>1, <2>1, <2>7 DEF JTypes
    <2>10. JOwners'
      BY <1>0, <2>1, <2>8 DEF JOwners, Owns
    <2>11. JRequests'
      BY <1>0, <2>1, <2>7, <2>8 DEF JRequests, Awaits
    <2>12. JPieces'
      <3>1. \A v \in Worker : This(v)' = This(v)
        BY <2>1 DEF This
      <3> QED  BY <1>0, <1>5, <2>1, <2>8, <3>1 DEF JPieces
    <2>13. JSleepers'
      <3>1. \A v \in Worker : disk'.waits[v] = IF v = w THEN h ELSE disk.waits[v]
        BY <2>3, <2>5
      <3>2. \A g \in Header : "WANTED" \in FlagsOf(g) => "WANTED" \in FlagsOf(g)'
        BY <2>2, <2>8
      <3>3. IsBusy(h) /\ "WANTED" \in FlagsOf(h)' /\ h = job[w].buf
        BY <1>2, <1>3, <1>6, <1>8, <2>2, <2>8
      <3>4. \A v \in Worker : \A g \in Header : disk'.waits[v] = g =>
              /\ job'[v].buf = g /\ job'[v].at \in {"get", "wait"}
              /\ job'[v].at = "wait" => ~ IsOver(g)'
              /\ job'[v].at = "get" => IsBusy(g)' /\ "WANTED" \in FlagsOf(g)'
        BY <1>0, <1>1, <2>1, <2>8, <3>1, <3>2, <3>3 DEF JSleepers
      <3>5. \A v \in Worker : busy' = v => disk'.waits[v] \notin Header
        BY <2>1, Constants
      <3>6. \A v \in Worker : job'[v].at # "piece"
        BY <1>4, <2>1
      <3> QED  BY <3>4, <3>5, <3>6 DEF JSleepers
    <2> QED  BY <2>9, <2>10, <2>11, <2>12, <2>13 DEF JInv
  <1>7. CASE ~ Taken(w)
    <2> DEFINE o == OwnFlags(w)
    <2>1. disk' = WithFlags(disk, h, o) /\ busy' = w /\ job' = [job EXCEPT ![w].at = "piece"]
      BY <1>7, <1>8 DEF GetHeader, Goes
    <2>2. o \in SUBSET Flag7 /\ "BUSY" \in o /\ "DONE" \notin o
      BY <1>0, <1>1, OwnFlagsAre
    <2> HIDE DEF o
    <2>3. /\ Alike(disk, disk') /\ disk'.waits = disk.waits
          /\ \A g \in Header : disk'.buf[g].flags = IF g = h THEN o ELSE disk.buf[g].flags
      BY <1>2, <2>1, <2>2, WithFlagsIs
    <2>4. /\ AtWork(disk') /\ disk'.errcnt = disk.errcnt
          /\ \A g \in Header : Queued(disk', g) <=> Queued(disk, g)
      BY <1>2, <2>3, StaysAtWork
    <2>5. \A g \in Header : FlagsOf(g)' = IF g = h THEN o ELSE FlagsOf(g)
      BY <2>3 DEF FlagsOf
    <2>6. IsBusy(h)' /\ ~ IsOver(h)' /\ ~ IsBusy(h)
          /\ \A g \in Header \ {h} : (IsBusy(g)' <=> IsBusy(g)) /\ (IsOver(g)' <=> IsOver(g))
      BY <1>2, <1>3, <1>7, <2>2, <2>5 DEF IsBusy, IsOver
    <2>7. /\ job' \in [Worker -> JobSet] /\ \A v \in Worker \ {w} : job'[v] = job[v]
          /\ job'[w].at = "piece" /\ job'[w].buf = h /\ job'[w].left = job[w].left
          /\ job'[w].rest = job[w].rest
      BY <1>2, <1>8, <2>1 DEF JobSet
    <2>8. \A v \in Worker : ~ Owns(v, h)
      BY <1>0, <1>2, <2>6 DEF JOwners
    <2>9. \A v \in Worker \ {w} : \A g \in Header : Owns(v, g)' <=> Owns(v, g)
      BY <2>7 DEF Owns
    <2>10. \A g \in Header : (Owns(w, g)' <=> g = h) /\ ~ Owns(w, g)
      BY <1>1, <2>7 DEF Owns
    <2>11. JTypes'
      <3>1. \A v \in Worker : job'[v].at # "user" => job'[v].rest # <<>>
        BY <1>0, <1>1, <2>7 DEF JTypes
      <3> QED  BY <1>0, <1>1, <2>1, <2>4, <2>7, <3>1 DEF JTypes
    <2>12. JOwners'
      <3>1. \A v \in Worker : \A g \in Header : Owns(v, g)' => IsBusy(g)'
        BY <1>0, <2>6, <2>8, <2>9, <2>10 DEF JOwners
      <3>2. \A u, v \in Worker : \A g \in Header : Owns(u, g)' /\ Owns(v, g)' => u = v
        BY <1>0, <2>8, <2>9, <2>10 DEF JOwners
      <3>3. \A g \in Header : IsBusy(g)' => \E v \in Worker : Owns(v, g)'
        <4>1. ASSUME NEW g \in Header, IsBusy(g)' PROVE \E v \in Worker : Owns(v, g)'
          <5>1. CASE g = h
            BY <2>10, <5>1
          <5>2. CASE g # h
            <6>1. PICK v \in Worker : Owns(v, g)
              BY <1>0, <2>6, <4>1, <5>2 DEF JOwners
            <6> QED  BY <2>9, <2>10, <6>1
          <5> QED  BY <5>1, <5>2
        <4> QED  BY <4>1
      <3> QED  BY <3>1, <3>2, <3>3 DEF JOwners
    <2>13. JRequests'
      <3>1. ASSUME NEW v \in Worker, NEW g \in Header PROVE Awaits(v, g)' <=> Awaits(v, g)
        <4>1. CASE v = w
          BY <1>1, <2>7, <4>1 DEF Awaits
        <4>2. CASE v # w /\ g # h
          BY <2>6, <2>7, <4>2 DEF Awaits
        <4>3. CASE v # w /\ g = h
          BY <2>7, <2>8, <4>3 DEF Awaits, Owns
        <4> QED  BY <4>1, <4>2, <4>3
      <3> QED  BY <1>0, <2>4, <3>1 DEF JRequests
    <2>15. JPieces'
      <3>1. This(w)' = This(w) /\ \A v \in Worker \ {w} : This(v)' = This(v)
        BY <2>7 DEF This
      <3>2. ASSUME NEW v \in Worker \ {w}
            PROVE  /\ job'[v].at = "wait" => job'[v].left > 0
                   /\ job'[v].at # "user" /\ This(v)'.kind = "cache" => job'[v].left <= 1
                   /\ job'[v].at # "piece"
        BY <1>0, <1>4, <2>7, <3>1 DEF JPieces
      <3>3. /\ job'[w].at # "wait"
            /\ This(w)'.kind = "cache" => job'[w].left <= 1
            /\ ~ IsOver(h)' /\ job'[w].buf = h
        BY <1>0, <1>1, <2>6, <2>7, <3>1 DEF JPieces
      <3>4. \A v \in Worker : v = w \/ v \in Worker \ {w}
        OBVIOUS
      <3> QED  BY <3>2, <3>3, <3>4 DEF JPieces, IsOver, FlagsOf
    <2>16. JSleepers'
      <3>1. \A v \in Worker : disk.waits[v] # h
        <4> SUFFICES ASSUME NEW v \in Worker, disk.waits[v] = h PROVE FALSE
          OBVIOUS
        <4>1. job[v].buf = h /\ job[v].at \in {"get", "wait"} /\ (job[v].at = "get" => IsBusy(h))
          BY <1>0, <1>2 DEF JSleepers
        <4>2. Owns(v, h)
          BY <2>6, <4>1 DEF Owns
        <4> QED  BY <2>8, <4>2
      <3>2. disk.waits[w] \notin Header
        BY <1>0, <1>1 DEF JSleepers
      <3>3. \A v \in Worker : \A g \in Header : disk'.waits[v] = g =>
              /\ job'[v].buf = g /\ job'[v].at \in {"get", "wait"}
              /\ job'[v].at = "wait" => ~ IsOver(g)'
              /\ job'[v].at = "get" => IsBusy(g)' /\ "WANTED" \in FlagsOf(g)'
        BY <1>0, <2>3, <2>5, <2>6, <2>7, <3>1, <3>2 DEF JSleepers
      <3>4. \A v \in Worker : busy' = v => disk'.waits[v] \notin Header
        BY <2>1, <2>3, <3>2
      <3>5. \A v \in Worker : job'[v].at = "piece" => v = w
        BY <1>4, <2>7
      <3> QED  BY <2>1, <2>3, <2>7, <3>1, <3>3, <3>4, <3>5 DEF JSleepers
    <2> QED  BY <2>11, <2>12, <2>13, <2>15, <2>16 DEF JInv
  <1> QED  BY <1>6, <1>7

\* A header that was in no queue was put in one, or its request has ended.
Handed(d, e, h) ==
    /\ AtWork(e) /\ e.errcnt = d.errcnt
    /\ Adds(d, e, h) \/ Ends(d, e, h)

LEMMA PieceKeeps ==
    ASSUME AllOnLine, JInv, NEW w \in Worker, Piece(w)
    PROVE  JInv'
  <1>0. JTypes /\ JOwners /\ JRequests /\ JPieces /\ JSleepers
    BY DEF JInv
  <1>8. PICK h \in Header : h = job[w].buf
    BY <1>0, JobIs
  <1>1. busy = w /\ job[w].at = "piece" /\ job[w].left > 0 /\ load' = load /\ panicked' = panicked
        /\ busy' = w /\ job' = [job EXCEPT ![w].at = "wait"]
    BY DEF Piece, InStep, SameLoad, Goes
  <1>2. disk \in DiskSet /\ AtWork(disk) /\ job \in [Worker -> JobSet] /\ load.offline = {}
    BY <1>0 DEF JTypes, AtWork, DevInv, Base, AllOnLine
  <1> DEFINE f == IF This(w).kind = "raw" THEN OwnFlags(w) ELSE Flags(w)
             v == This(w).dev
             k == job[w].blk
             d == Filled(disk, h, f, v, k)
  <1>3. Owns(w, h) /\ IsBusy(h) /\ \A x \in Worker : Owns(x, h) => x = w
    BY <1>0, <1>1, <1>8 DEF Owns, JOwners
  <1>4. f \in SUBSET Flag7 /\ "BUSY" \in f /\ "DONE" \notin f
    <2>1. Flags(w) = FlagsOf(h) /\ FlagsOf(h) \in SUBSET Flag7
      BY <1>0, <1>8, JobIs DEF Flags, FlagsOf
    <2>2. This(w).kind # "raw" => "DONE" \notin FlagsOf(h)
      BY <1>0, <1>1, <1>8 DEF JPieces, IsOver
    <2>3. OwnFlags(w) \in SUBSET Flag7 /\ "BUSY" \in OwnFlags(w) /\ "DONE" \notin OwnFlags(w)
      BY <1>0, <1>1, OwnFlagsAre
    <2> QED  BY <1>3, <2>1, <2>2, <2>3 DEF IsBusy
  <1>5. v \in DevSet /\ k \in Nat
    BY <1>0, <1>1, JobIs, CallIs DEF DevSet
  <1>6. PICK near : disk' = hpstrategy(d, h, near)
    BY <1>8 DEF Piece, Filled
  <1>7. d = Filled(disk, h, f, v, k)
    OBVIOUS
  <1> HIDE DEF d, f, v, k
  <1>9. /\ Alike(disk, d) /\ d.waits = disk.waits
        /\ \A g \in Header : d.buf[g].flags = IF g = h THEN f ELSE disk.buf[g].flags
    <2>1. FillsIn(disk, h, f, v, k, d)
      BY <1>2, <1>4, <1>5, <1>7 DEF FillsIn
    <2> QED  BY <2>1, FilledIs
  <1>10. /\ AtWork(d) /\ d.errcnt = disk.errcnt
         /\ \A g \in Header : Queued(d, g) <=> Queued(disk, g)
    BY <1>2, <1>9, StaysAtWork
  <1>11. ~ Queued(disk, h)
    <2> SUFFICES ASSUME Queued(disk, h) PROVE FALSE
      OBVIOUS
    <2>1. PICK x \in Worker : Awaits(x, h)
      BY <1>0 DEF JRequests
    <2>2. x = w
      BY <1>3, <2>1 DEF Awaits, Owns
    <2> QED  BY <1>1, <2>1, <2>2 DEF Awaits
  <1>12. Handed(d, disk', h)
    <2>1. ~ Queued(d, h)
      BY <1>10, <1>11
    <2> QED  BY <1>2, <1>6, <1>10, <2>1, hpstrategyIs DEF Handed
  <1>13. /\ AtWork(disk') /\ disk'.errcnt = disk.errcnt
         /\ \A g \in Header \ {h} : (Queued(disk', g) <=> Queued(disk, g)) /\ FlagsOf(g)' = FlagsOf(g)
         /\ IsBusy(h)' /\ (Queued(disk', h) <=> ~ IsOver(h)')
         /\ \A x \in Worker : disk'.waits[x] = disk.waits[x]
    <2>1. AtWork(disk') /\ disk'.errcnt = disk.errcnt
      BY <1>10, <1>12 DEF Handed
    <2>2. \A x \in Worker : disk.waits[x] # h
      BY <1>0, <1>1, <1>8 DEF JSleepers
    <2>3. CASE Adds(d, disk', h)
      <3>1. \A g \in Header \ {h} : (Queued(disk', g) <=> Queued(disk, g)) /\ FlagsOf(g)' = FlagsOf(g)
        BY <1>9, <1>10, <2>3 DEF Adds, FlagsOf
      <3>2. IsBusy(h)' /\ ~ IsOver(h)' /\ Queued(disk', h)
        BY <1>4, <1>9, <2>3 DEF Adds, IsBusy, IsOver, FlagsOf
      <3>3. \A x \in Worker : disk'.waits[x] = disk.waits[x]
        BY <1>9, <2>3 DEF Adds
      <3> QED  BY <2>1, <3>1, <3>2, <3>3
    <2>4. CASE Ends(d, disk', h)
      <3>1. \A g \in Header \ {h} : (Queued(disk', g) <=> Queued(disk, g)) /\ FlagsOf(g)' = FlagsOf(g)
        BY <1>9, <1>10, <2>4 DEF Ends, IsDone, FlagsOf
      <3>2. IsBusy(h)' /\ IsOver(h)' /\ ~ Queued(disk', h)
        BY <1>4, <1>9, <2>4 DEF Ends, IsDone, IsBusy, IsOver, FlagsOf
      <3>3. \A x \in Worker : disk'.waits[x] = disk.waits[x]
        BY <1>9, <2>2, <2>4 DEF Ends, IsDone
      <3> QED  BY <2>1, <3>1, <3>2, <3>3
    <2> QED  BY <1>12, <2>3, <2>4 DEF Handed
  <1>14. /\ job' \in [Worker -> JobSet] /\ \A x \in Worker \ {w} : job'[x] = job[x]
         /\ job'[w].at = "wait" /\ job'[w].buf = h /\ job'[w].left = job[w].left
         /\ job'[w].rest = job[w].rest
    BY <1>1, <1>2, <1>8 DEF JobSet
  <1>15. \A x \in Worker : \A g \in Header : Owns(x, g)' <=> Owns(x, g)
    BY <1>1, <1>8, <1>14 DEF Owns
  <1>16. \A g \in Header : IsBusy(g)' <=> IsBusy(g)
    BY <1>3, <1>13 DEF IsBusy
  <1>17. JTypes'
    BY <1>0, <1>1, <1>13, <1>14 DEF JTypes
  <1>18. JOwners'
    BY <1>0, <1>15, <1>16 DEF JOwners
  <1>19. JRequests'
    <2>1. ASSUME NEW g \in Header, g # h PROVE Queued(disk', g) <=> \E x \in Worker : Awaits(x, g)'
      <3>1. \A x \in Worker : Awaits(x, g)' <=> Awaits(x, g)
        BY <1>1, <1>8, <1>13, <1>14, <2>1 DEF Awaits, IsOver
      <3> QED  BY <1>0, <1>13, <2>1, <3>1 DEF JRequests
    <2>2. Queued(disk', h) <=> \E x \in Worker : Awaits(x, h)'
      <3>1. ~ IsOver(h)' => Awaits(w, h)'
        BY <1>14 DEF Awaits
      <3>2. \A x \in Worker : Awaits(x, h)' => ~ IsOver(h)'
        BY DEF Awaits
      <3> QED  BY <1>13, <3>1, <3>2
    <2> QED  BY <2>1, <2>2 DEF JRequests
  <1>20. JPieces'
    <2>1. This(w)' = This(w) /\ \A x \in Worker \ {w} : This(x)' = This(x)
      BY <1>14 DEF This
    <2>2. \A x \in Worker \ {w} : job[x].at # "piece"
      BY <1>0, <1>1 DEF JSleepers
    <2>3. ASSUME NEW x \in Worker \ {w}
          PROVE  /\ job'[x].at = "wait" => job'[x].left > 0
                 /\ job'[x].at # "user" /\ This(x)'.kind = "cache" => job'[x].left <= 1
                 /\ job'[x].at # "piece"
      BY <1>0, <1>14, <2>1, <2>2 DEF JPieces
    <2>4. /\ job'[w].at # "piece"
          /\ This(w)'.kind = "cache" => job'[w].left <= 1
          /\ job'[w].left > 0
      BY <1>0, <1>1, <1>14, <2>1 DEF JPieces
    <2> QED  BY <2>3, <2>4 DEF JPieces
  <1>21. JSleepers'
    <2>1. \A x \in Worker : disk.waits[x] # h
      BY <1>0, <1>1, <1>8 DEF JSleepers
    <2>2. disk.waits[w] \notin Header
      BY <1>0, <1>1 DEF JSleepers
    <2>3. \A x \in Worker \ {w} : job'[x].at # "piece"
      BY <1>0, <1>1, <1>14 DEF JSleepers
    <2>4. \A x \in Worker : \A g \in Header : disk'.waits[x] = g =>
              /\ job'[x].buf = g /\ job'[x].at \in {"get", "wait"}
              /\ job'[x].at = "wait" => ~ IsOver(g)'
              /\ job'[x].at = "get" => IsBusy(g)' /\ "WANTED" \in FlagsOf(g)'
      BY <1>0, <1>13, <1>14, <2>1, <2>2 DEF JSleepers, IsOver, IsBusy
    <2>5. \A x \in Worker : busy' = x => disk'.waits[x] \notin Header
      BY <1>1, <1>13, <2>2
    <2> QED  BY <1>14, <2>3, <2>4, <2>5 DEF JSleepers
  <1> QED  BY <1>17, <1>18, <1>19, <1>20, <1>21 DEF JInv

LEMMA AwaitEndKeeps ==
    ASSUME JInv, NEW w \in Worker, AwaitEnd(w)
    PROVE  JInv'
  <1>0. JTypes /\ JOwners /\ JRequests /\ JPieces /\ JSleepers
    BY DEF JInv
  <1>8. PICK h \in Header : h = job[w].buf
    BY <1>0, JobIs
  <1>1. busy = w /\ job[w].at = "wait" /\ load' = load
    BY DEF AwaitEnd, InStep
  <1>2. disk \in DiskSet /\ AtWork(disk) /\ job \in [Worker -> JobSet] /\ job[w].left > 0
        /\ job[w].left \in Nat
    BY <1>0, <1>1, JobIs DEF JTypes, AtWork, DevInv, Base, JPieces
  <1>3. Flags(w) = FlagsOf(h) /\ FlagsOf(h) \in SUBSET Flag7
    BY <1>0, <1>8, JobIs DEF Flags, FlagsOf
  <1>4. \A x \in Worker : job[x].at # "piece"
    BY <1>0, <1>1 DEF JSleepers
  <1>5. Owns(w, h) /\ IsBusy(h) /\ \A x \in Worker : Owns(x, h) => x = w
    BY <1>0, <1>1, <1>8 DEF Owns, JOwners
  <1>9. disk.waits[w] \notin Header /\ \A x \in Worker : job[x].buf \in Header
    BY <1>0, <1>1, JobIs DEF JSleepers
  <1>6. CASE "DONE" \notin Flags(w)
    <2>1. disk' = [disk EXCEPT !.waits[w] = h] /\ busy' = "nobody" /\ job' = job /\ panicked' = panicked
      BY <1>6, <1>8 DEF AwaitEnd, SleepFor
    <2>2. /\ Alike(disk, disk') /\ disk'.buf = disk.buf
          /\ \A x \in Worker : disk'.waits[x] = IF x = w THEN h ELSE disk.waits[x]
      BY <1>2, <2>1, WaitIs
    <2>3. /\ AtWork(disk') /\ disk'.errcnt = disk.errcnt
          /\ \A g \in Header : Queued(disk', g) <=> Queued(disk, g)
      BY <1>2, <2>2, StaysAtWork
    <2>4. \A g \in Header : FlagsOf(g)' = FlagsOf(g)
      BY <2>2 DEF FlagsOf
    <2>5. JTypes'
      BY <1>0, <1>1, <2>1, <2>3 DEF JTypes
    <2>6. JOwners'
      BY <1>0, <2>1, <2>4 DEF JOwners, Owns, IsBusy
    <2>7. JRequests'
      BY <1>0, <2>1, <2>3, <2>4 DEF JRequests, Awaits, IsOver
    <2>8. JPieces'
      <3>1. \A x \in Worker : This(x)' = This(x)
        BY <2>1 DEF This
      <3> QED  BY <1>0, <1>9, <2>1, <2>4, <3>1 DEF JPieces, IsOver
    <2>9. JSleepers'
      <3>1. ~ IsOver(h)
        BY <1>3, <1>6 DEF IsOver
      <3>2. \A x \in Worker : \A g \in Header : disk'.waits[x] = g =>
              /\ job'[x].buf = g /\ job'[x].at \in {"get", "wait"}
              /\ job'[x].at = "wait" => ~ IsOver(g)'
              /\ job'[x].at = "get" => IsBusy(g)' /\ "WANTED" \in FlagsOf(g)'
        BY <1>0, <1>1, <1>8, <2>1, <2>2, <2>4, <3>1 DEF JSleepers, IsOver, IsBusy
      <3>3. \A x \in Worker : busy' = x => disk'.waits[x] \notin Header
        BY <2>1, Constants
      <3> QED  BY <1>4, <2>1, <3>2, <3>3 DEF JSleepers
    <2> QED  BY <2>5, <2>6, <2>7, <2>8, <2>9 DEF JInv
  <1>7. CASE "DONE" \in Flags(w)
    <2> DEFINE a == Awoken(w)
               f == Flags(w) \ {"WANTED", "DONE"}
               e == IF This(w).kind = "swap" THEN WithFlags(a, h, f) ELSE a
    <2>1. /\ disk' = e /\ busy' = w
          /\ job' = [job EXCEPT ![w].at = "piece", ![w].left = @ - 1, ![w].blk = @ + 1]
      BY <1>7, <1>8 DEF AwaitEnd
    <2>2. panicked' \in BOOLEAN
      BY <1>7 DEF AwaitEnd
    <2>3. /\ Alike(disk, a) /\ a.buf = disk.buf
          /\ \A x \in Worker : a.waits[x] = disk.waits[x] \/ a.waits[x] = "ready"
          /\ \A x \in Worker : a.waits[x] # h
      <3>1. CASE "WANTED" \in Flags(w)
        <4>1. a = WakeUp(disk, h)
          BY <1>8, <3>1 DEF Awoken
        <4> HIDE DEF a
        <4>2. /\ Alike(disk, a) /\ a.buf = disk.buf
              /\ \A x \in Worker : a.waits[x] = IF disk.waits[x] = h THEN "ready" ELSE disk.waits[x]
          BY <1>2, <4>1, WakeUpIs
        <4> QED  BY <4>2, Constants
      <3>2. CASE "WANTED" \notin Flags(w)
        <4>1. a = disk
          BY <3>2 DEF Awoken
        <4>2. ASSUME NEW x \in Worker, disk.waits[x] = h PROVE FALSE
          <5>1. /\ job[x].buf = h /\ job[x].at \in {"get", "wait"}
                /\ job[x].at = "get" => "WANTED" \in FlagsOf(h)
            BY <1>0, <4>2 DEF JSleepers
          <5>2. Owns(x, h)
            BY <1>3, <3>2, <5>1 DEF Owns
          <5> QED  BY <1>5, <1>9, <4>2, <5>2
        <4> HIDE DEF a
        <4> QED  BY <1>2, <4>1, <4>2 DEF Alike, Else
      <3> QED  BY <3>1, <3>2
    <2>4. e = IF This(w).kind = "swap" THEN WithFlags(a, h, f) ELSE a
      OBVIOUS
    <2>5. f \in SUBSET Flag7 /\ f = FlagsOf(h) \ {"WANTED", "DONE"}
      BY <1>3
    <2> HIDE DEF a, f, e
    <2>6. /\ AtWork(a) /\ a.errcnt = disk.errcnt
          /\ \A g \in Header : Queued(a, g) <=> Queued(disk, g)
      BY <1>2, <2>3, StaysAtWork
    <2>7. Alike(a, e) /\ e.waits = a.waits
          /\ \A g \in Header : e.buf[g].flags =
                 IF g = h /\ This(w).kind = "swap" THEN f ELSE disk.buf[g].flags
      <3>1. a \in DiskSet
        BY <2>3 DEF Alike
      <3>2. CASE This(w).kind = "swap"
        <4>1. e = WithFlags(a, h, f)
          BY <2>4, <3>2
        <4>2. /\ Alike(a, e) /\ e.waits = a.waits
              /\ \A g \in Header : e.buf[g].flags = IF g = h THEN f ELSE a.buf[g].flags
          BY <2>5, <3>1, <4>1, WithFlagsIs
        <4> QED  BY <2>3, <3>2, <4>2
      <3>3. CASE This(w).kind # "swap"
        <4>1. e = a
          BY <2>4, <3>3
        <4> QED  BY <2>3, <3>1, <3>3, <4>1 DEF Alike, Else
      <3> QED  BY <3>2, <3>3
    <2>8. /\ AtWork(disk') /\ disk'.errcnt = disk.errcnt
          /\ \A g \in Header : Queued(disk', g) <=> Queued(disk, g)
      BY <2>1, <2>6, <2>7, StaysAtWork
    <2>9. /\ \A g \in Header : g # h => FlagsOf(g)' = FlagsOf(g)
          /\ IsBusy(h)'
          /\ This(w).kind = "swap" => ~ IsOver(h)'
      <3>1. \A g \in Header : FlagsOf(g)' =
                 IF g = h /\ This(w).kind = "swap" THEN f ELSE FlagsOf(g)
        BY <2>1, <2>7 DEF FlagsOf
      <3> QED  BY <1>5, <2>5, <3>1 DEF IsBusy, IsOver
    <2>10. /\ job' \in [Worker -> JobSet] /\ \A x \in Worker \ {w} : job'[x] = job[x]
           /\ job'[w].at = "piece" /\ job'[w].buf = h /\ job'[w].left = job[w].left - 1
           /\ job'[w].rest = job[w].rest
      <3>1. job[w] \in JobSet
        BY <1>2
      <3>5. /\ job[w].rest \in Seq(Call) /\ job[w].buf = h /\ job[w].left - 1 \in Nat
            /\ job[w].blk + 1 \in Nat /\ h \in Header
        BY <1>0, <1>2, <1>8, JobIs
      <3> DEFINE l == job[w].left - 1
                 k == job[w].blk + 1
                 r == [job[w] EXCEPT !.at = "piece", !.left = l, !.blk = k]
      <3>2. job' = [job EXCEPT ![w] = r]
        BY <1>2, <2>1, <3>1 DEF JobSet
      <3>6. l \in Nat /\ k \in Nat /\ l = job[w].left - 1
        BY <3>5
      <3> HIDE DEF l, k
      <3>3. /\ r \in JobSet /\ r.at = "piece" /\ r.buf = h /\ r.left = l
            /\ r.rest = job[w].rest
        BY <3>1, <3>5, <3>6 DEF JobSet
      <3> HIDE DEF r
      <3> QED  BY <1>2, <3>2, <3>3, <3>6
    <2>11. \A x \in Worker : \A g \in Header : Owns(x, g)' <=> Owns(x, g)
      BY <1>1, <1>8, <2>10 DEF Owns
    <2>12. \A g \in Header : IsBusy(g)' <=> IsBusy(g)
      BY <1>5, <2>9 DEF IsBusy
    <2>13. JTypes'
      <3>1. \A x \in Worker : job'[x].at # "user" => job'[x].rest # <<>>
        BY <1>0, <1>1, <2>10 DEF JTypes
      <3> QED  BY <1>0, <1>1, <2>1, <2>2, <2>8, <2>10, <3>1 DEF JTypes
    <2>14. JOwners'
      BY <1>0, <2>11, <2>12 DEF JOwners
    <2>15. JRequests'
      <3>1. ASSUME NEW x \in Worker, NEW g \in Header PROVE Awaits(x, g)' <=> Awaits(x, g)
        <4>1. CASE g = h
          <5>1. IsOver(h)
            BY <1>3, <1>7 DEF IsOver
          <5>2. ~ Awaits(x, g)
            BY <4>1, <5>1 DEF Awaits
          <5>3. ~ Awaits(x, g)'
            <6> SUFFICES ASSUME Awaits(x, g)' PROVE FALSE
              OBVIOUS
            <6>1. job'[x].buf = h /\ job'[x].at = "wait"
              BY <4>1 DEF Awaits
            <6>2. x # w
              BY <2>10, <6>1
            <6>3. Owns(x, h)
              BY <2>10, <6>1, <6>2 DEF Owns
            <6> QED  BY <1>5, <6>2, <6>3
          <5> QED  BY <5>2, <5>3
        <4>2. CASE g # h
          <5>1. ~ Awaits(w, g) /\ ~ Awaits(w, g)'
            BY <1>8, <2>10, <4>2 DEF Awaits
          <5>2. x # w => (Awaits(x, g)' <=> Awaits(x, g))
            BY <2>9, <2>10, <4>2 DEF Awaits, IsOver
          <5> QED  BY <5>1, <5>2
        <4> QED  BY <4>1, <4>2
      <3> QED  BY <1>0, <2>8, <3>1 DEF JRequests
    <2>16. JPieces'
      <3>1. This(w)' = This(w) /\ \A x \in Worker \ {w} : This(x)' = This(x)
        BY <2>10 DEF This
      <3>2. ASSUME NEW x \in Worker \ {w}
            PROVE  /\ job'[x].at = "wait" => job'[x].left > 0
                   /\ job'[x].at # "user" /\ This(x)'.kind = "cache" => job'[x].left <= 1
                   /\ job'[x].at # "piece"
        BY <1>0, <1>4, <2>10, <3>1 DEF JPieces
      <3>3. /\ job'[w].at # "wait"
            /\ This(w)'.kind = "cache" => job'[w].left <= 1 /\ ~ (job'[w].left > 0)
        <4>1. This(w).kind = "cache" => job[w].left <= 1
          BY <1>0, <1>1 DEF JPieces
        <4> QED  BY <1>2, <2>10, <3>1, <4>1
      <3>4. This(w)'.kind \in {"swap", "raw", "cache"}
        BY <1>0, <1>1, <3>1, JobIs, CallIs
      <3>5. job'[w].left > 0 /\ This(w)'.kind # "raw" => ~ IsOver(job[w].buf)'
        <4> SUFFICES ASSUME job'[w].left > 0, This(w)'.kind # "raw" PROVE ~ IsOver(job[w].buf)'
          OBVIOUS
        <4>1. This(w).kind = "swap"
          BY <3>1, <3>3, <3>4
        <4>2. ~ IsOver(h)'
          BY <2>9, <4>1
        <4> QED  BY <2>10, <4>2 DEF IsOver, FlagsOf
      <3>6. \A x \in Worker : x = w \/ x \in Worker \ {w}
        OBVIOUS
      <3> QED  BY <3>2, <3>3, <3>5, <3>6 DEF JPieces
    <2>17. JSleepers'
      <3>1. \A x \in Worker : disk'.waits[x] # h /\ (disk'.waits[x] = disk.waits[x] \/ disk'.waits[x] = "ready")
        BY <2>1, <2>3, <2>7
      <3>2. \A x \in Worker : \A g \in Header : disk'.waits[x] = g =>
              disk.waits[x] = g /\ g # h /\ x # w
        BY <1>9, <3>1, Constants
      <3>3. \A x \in Worker : \A g \in Header : disk'.waits[x] = g =>
              /\ job'[x].buf = g /\ job'[x].at \in {"get", "wait"}
              /\ job'[x].at = "wait" => ~ IsOver(g)'
              /\ job'[x].at = "get" => IsBusy(g)' /\ "WANTED" \in FlagsOf(g)'
        BY <1>0, <2>9, <2>10, <3>2 DEF JSleepers, IsOver, IsBusy
      <3>4. \A x \in Worker : busy' = x => disk'.waits[x] \notin Header
        BY <2>1, <3>2
      <3>5. \A x \in Worker : job'[x].at = "piece" => x = w
        BY <1>4, <2>10
      <3> QED  BY <2>1, <2>10, <3>1, <3>3, <3>4, <3>5 DEF JSleepers
    <2> QED  BY <2>13, <2>14, <2>15, <2>16, <2>17 DEF JInv
  <1> QED  BY <1>6, <1>7

LEMMA FinishKeeps ==
    ASSUME JInv, NEW w \in Worker, Finish(w)
    PROVE  JInv'
  <1>0. JTypes /\ JOwners /\ JRequests /\ JPieces /\ JSleepers
    BY DEF JInv
  <1>8. PICK h \in Header : h = job[w].buf
    BY <1>0, JobIs
  <1>1. busy = w /\ job[w].at = "piece" /\ load' = load /\ panicked' = panicked /\ busy' = "nobody"
        /\ job' = [job EXCEPT ![w].at = "user", ![w].rest = Tail(@)]
    BY DEF Finish, InStep, SameLoad
  <1>2. disk \in DiskSet /\ AtWork(disk) /\ job \in [Worker -> JobSet]
    BY <1>0 DEF JTypes, AtWork, DevInv, Base
  <1>3. Flags(w) = FlagsOf(h) /\ FlagsOf(h) \in SUBSET Flag7
    BY <1>0, <1>8, JobIs DEF Flags, FlagsOf
  <1> DEFINE f == Flags(w) \ {"BUSY", "WANTED", "PHYS"}
  <1>4. disk' = WithFlags(disk, h, f)
    BY <1>8 DEF Finish
  <1>5. f \in SUBSET Flag7 /\ "BUSY" \notin f /\ ("DONE" \in f <=> IsOver(h))
    BY <1>3 DEF IsOver
  <1> HIDE DEF f
  <1>6. Owns(w, h) /\ \A x \in Worker : Owns(x, h) => x = w
    BY <1>0, <1>1, <1>8 DEF Owns, JOwners
  <1>7. \A x \in Worker : disk.waits[x] # h /\ (x # w => job[x].at # "piece")
    BY <1>0, <1>1, <1>8 DEF JSleepers
  <1>9. /\ Alike(disk, disk') /\ disk'.waits = disk.waits
        /\ \A g \in Header : disk'.buf[g].flags = IF g = h THEN f ELSE disk.buf[g].flags
    BY <1>2, <1>4, <1>5, WithFlagsIs
  <1>10. /\ AtWork(disk') /\ disk'.errcnt = disk.errcnt
         /\ \A g \in Header : Queued(disk', g) <=> Queued(disk, g)
    BY <1>2, <1>9, StaysAtWork
  <1>11. \A g \in Header : /\ g # h => FlagsOf(g)' = FlagsOf(g)
                           /\ IsBusy(g)' <=> IsBusy(g) /\ g # h
                           /\ IsOver(g)' <=> IsOver(g)
    BY <1>5, <1>9 DEF FlagsOf, IsBusy, IsOver
  <1>12. /\ job' \in [Worker -> JobSet] /\ \A x \in Worker \ {w} : job'[x] = job[x]
         /\ job'[w].at = "user" /\ job'[w].buf = h
    <2>1. job[w] \in JobSet /\ job[w].rest # <<>> /\ job[w].rest \in Seq(Call)
      BY <1>0, <1>1, <1>2, JobIs DEF JTypes
    <2> DEFINE t == Tail(job[w].rest)
               r == [job[w] EXCEPT !.at = "user", !.rest = t]
    <2>2. t \in Seq(Call)
      BY <2>1
    <2>3. job' = [job EXCEPT ![w] = r]
      BY <1>1, <1>2, <2>1 DEF JobSet
    <2> HIDE DEF t
    <2>4. r \in JobSet /\ r.at = "user" /\ r.buf = h
      BY <1>8, <2>1, <2>2 DEF JobSet
    <2> HIDE DEF r
    <2> QED  BY <1>2, <2>3, <2>4
  <1>13. JTypes'
    <2>1. \A x \in Worker : job'[x].at # "user" => job'[x].rest # <<>>
      BY <1>0, <1>12 DEF JTypes
    <2> QED  BY <1>0, <1>1, <1>10, <1>12, <2>1 DEF JTypes
  <1>14. JOwners'
    <2>1. ASSUME NEW x \in Worker, NEW g \in Header PROVE Owns(x, g)' <=> Owns(x, g) /\ g # h
      <3>1. CASE x = w
        BY <1>8, <1>12, <3>1 DEF Owns
      <3>2. CASE x # w
        <4>1. Owns(x, g)' <=> Owns(x, g)
          BY <1>12, <3>2 DEF Owns
        <4> QED  BY <1>6, <3>2, <4>1
      <3> QED  BY <3>1, <3>2
    <2> QED  BY <1>0, <1>11, <2>1 DEF JOwners
  <1>15. JRequests'
    <2>1. ASSUME NEW x \in Worker, NEW g \in Header PROVE Awaits(x, g)' <=> Awaits(x, g)
      <3>1. CASE x = w
        BY <1>1, <1>12, <3>1 DEF Awaits
      <3>2. CASE x # w
        BY <1>11, <1>12, <3>2 DEF Awaits
      <3> QED  BY <3>1, <3>2
    <2> QED  BY <1>0, <1>10, <2>1 DEF JRequests
  <1>16. JPieces'
    <2>1. \A x \in Worker \ {w} : This(x)' = This(x)
      BY <1>12 DEF This
    <2>2. ASSUME NEW x \in Worker \ {w}
          PROVE  /\ job'[x].at = "wait" => job'[x].left > 0
                 /\ job'[x].at # "user" /\ This(x)'.kind = "cache" => job'[x].left <= 1
                 /\ job'[x].at # "piece"
      BY <1>0, <1>7, <1>12, <2>1 DEF JPieces
    <2>3. \A x \in Worker : x = w \/ x \in Worker \ {w}
      OBVIOUS
    <2> QED  BY <1>12, <2>2, <2>3 DEF JPieces
  <1>17. JSleepers'
    <2>1. disk.waits[w] \notin Header
      BY <1>0, <1>1 DEF JSleepers
    <2>2. \A x \in Worker : \A g \in Header : disk'.waits[x] = g => disk.waits[x] = g /\ g # h /\ x # w
      BY <1>7, <1>9, <2>1
    <2>3. \A x \in Worker : \A g \in Header : disk'.waits[x] = g =>
            /\ job'[x].buf = g /\ job'[x].at \in {"get", "wait"}
            /\ job'[x].at = "wait" => ~ IsOver(g)'
            /\ job'[x].at = "get" => IsBusy(g)' /\ "WANTED" \in FlagsOf(g)'
      BY <1>0, <1>11, <1>12, <2>2 DEF JSleepers
    <2>4. \A x \in Worker : busy' = x => disk'.waits[x] \notin Header
      BY <1>1, Constants
    <2>5. \A x \in Worker : job'[x].at # "piece"
      BY <1>7, <1>12
    <2> QED  BY <2>3, <2>4, <2>5 DEF JSleepers
  <1> QED  BY <1>13, <1>14, <1>15, <1>16, <1>17 DEF JInv

\* An interrupt ends a request that is waited for, or none.
LEMMA InterruptKeeps ==
    ASSUME JInv, AtWork(disk'), disk'.errcnt <= MaxErrors, HasEnded(disk, disk'),
           UNCHANGED <<load, job, busy, panicked>>
    PROVE  JInv'
  <1>0. JTypes /\ JOwners /\ JRequests /\ JPieces /\ JSleepers
    BY DEF JInv
  <1>1. load' = load /\ job' = job /\ busy' = busy /\ panicked' = panicked
    OBVIOUS
  <1>2. JTypes'
    <2>1. panicked' \in BOOLEAN
      BY <1>0, <1>1 DEF JTypes
    <2> QED  BY <1>0, <1>1, <2>1 DEF JTypes
  <1>3. \A x \in Worker : This(x)' = This(x)
    BY <1>1 DEF This
  <1>4. CASE Same(disk, disk')
    <2>1. \A h \in Header : FlagsOf(h)' = FlagsOf(h) /\ (Queued(disk', h) <=> Queued(disk, h))
      BY <1>4 DEF Same, FlagsOf
    <2>2. \A x \in Worker : disk'.waits[x] = disk.waits[x] /\ job[x].buf \in Header
      BY <1>0, <1>4, JobIs DEF Same
    <2>3. JOwners'
      BY <1>0, <1>1, <2>1 DEF JOwners, Owns, IsBusy
    <2>4. JRequests'
      BY <1>0, <1>1, <2>1 DEF JRequests, Awaits, IsOver
    <2>5. JPieces'
      BY <1>0, <1>1, <1>3, <2>1, <2>2 DEF JPieces, IsOver
    <2>6. JSleepers'
      BY <1>0, <1>1, <2>1, <2>2 DEF JSleepers, IsOver, IsBusy
    <2> QED  BY <1>2, <2>3, <2>4, <2>5, <2>6 DEF JInv
  <1>5. CASE Ends(disk, disk', disk.given) /\ Queued(disk, disk.given)
    <2>1. PICK h \in Header : h = disk.given
      BY <1>0, FieldsOf DEF JTypes, AtWork, DevInv, Base
    <2>2. Ends(disk, disk', h) /\ Queued(disk, h)
      BY <1>5, <2>1
    <2>3. PICK w \in Worker : Awaits(w, h)
      BY <1>0, <2>2 DEF JRequests
    <2>4. job[w].at = "wait" /\ job[w].buf = h /\ \A x \in Worker : Owns(x, h) => x = w
      BY <1>0, <2>3 DEF Awaits, Owns, JOwners
    <2>5. /\ \A g \in Header : g # h => FlagsOf(g)' = FlagsOf(g)
          /\ IsOver(h)' /\ (IsBusy(h)' <=> IsBusy(h))
          /\ \A x \in Worker : disk'.waits[x] = IF disk.waits[x] = h THEN "ready" ELSE disk.waits[x]
          /\ \A g \in Header : Queued(disk', g) <=> Queued(disk, g) /\ g # h
      BY <2>2 DEF Ends, IsDone, FlagsOf, IsOver, IsBusy
    <2>6. JOwners'
      BY <1>0, <1>1, <2>5 DEF JOwners, Owns, IsBusy
    <2>7. JRequests'
      <3>1. ASSUME NEW x \in Worker, NEW g \in Header PROVE Awaits(x, g)' <=> Awaits(x, g) /\ g # h
        BY <1>1, <2>5 DEF Awaits, IsOver
      <3> QED  BY <1>0, <2>5, <3>1 DEF JRequests
    <2>8. JPieces'
      <3>1. ASSUME NEW x \in Worker, job[x].at = "piece" PROVE job[x].buf \in Header /\ job[x].buf # h
        BY <1>0, <2>4, <3>1, JobIs DEF Owns
      <3> QED  BY <1>0, <1>1, <1>3, <2>5, <3>1 DEF JPieces, IsOver
    <2>9. JSleepers'
      <3>1. ASSUME NEW x \in Worker, NEW g \in Header, disk'.waits[x] = g
            PROVE  disk.waits[x] = g /\ g # h
        BY <2>5, <3>1, Constants
      <3>2. \A x \in Worker : \A g \in Header : disk'.waits[x] = g =>
              /\ job'[x].buf = g /\ job'[x].at \in {"get", "wait"}
              /\ job'[x].at = "wait" => ~ IsOver(g)'
              /\ job'[x].at = "get" => IsBusy(g)' /\ "WANTED" \in FlagsOf(g)'
        BY <1>0, <1>1, <2>5, <3>1 DEF JSleepers, IsOver, IsBusy
      <3>3. \A x \in Worker : busy' = x => disk'.waits[x] \notin Header
        BY <1>0, <1>1, <3>1 DEF JSleepers
      <3>4. \A x \in Worker : job'[x].at = "piece" =>
              busy' = x /\ \A v \in Worker : disk'.waits[v] # job'[x].buf
        <4>1. ASSUME NEW x \in Worker, job[x].at = "piece" PROVE job[x].buf \in Header
          BY <1>0, JobIs
        <4> QED  BY <1>0, <1>1, <3>1, <4>1 DEF JSleepers
      <3> QED  BY <3>2, <3>3, <3>4 DEF JSleepers
    <2> QED  BY <1>2, <2>6, <2>7, <2>8, <2>9 DEF JInv
  <1> QED  BY <1>4, <1>5 DEF HasEnded

\* A drive has found its sector.
LEMMA Found ==
    ASSUME NEW d, AtWork(d), NEW u \in Drive, u \in d.searching,
           NEW e, e = [d EXCEPT !.searching = @ \ {u}, !.attention = @ \cup {u}]
    PROVE  AtWork(e) /\ Same(d, e) /\ e.errcnt = d.errcnt
  <1>1. d \in DiskSet /\ Base(d)
    BY DEF AtWork, DevInv, Base
  <1>2. /\ e \in DiskSet /\ e.q = d.q /\ e.active = d.active /\ e.ready = d.ready
        /\ e.given = d.given /\ e.searching = d.searching \ {u}
        /\ e.attention = d.attention \cup {u} /\ e.buf = d.buf /\ e.waits = d.waits /\ e.errcnt = d.errcnt
    BY <1>1 DEF DiskSet
  <1>6. e.transfer = d.transfer
    BY <1>1 DEF DiskSet
  <1>3. Once(e) /\ OnDrive(e)
    BY <1>1, <1>2 DEF Base, Once, OnDrive
  <1>4. Apart(e)
    BY <1>1, <1>2 DEF Base, Apart
  <1>7. Transfers(e)
    BY <1>1, <1>2, <1>6 DEF Base, Transfers
  <1>5. \A v \in Drive : DriveOK(e, v)
    <2>1. \A v \in Drive : OnWay(e, v) <=> OnWay(d, v)
      BY <1>2 DEF OnWay, InReady
    <2> QED  BY <1>2, <2>1 DEF AtWork, DevInv, DriveOK
  <1>8. e.ready # <<>> => e.transfer
    BY <1>2, <1>6 DEF AtWork
  <1>9. Same(d, e)
    BY <1>2 DEF Same, Queued
  <1> QED  BY <1>2, <1>3, <1>4, <1>5, <1>7, <1>8, <1>9 DEF AtWork, DevInv, Base

LEMMA InterruptsKeep ==
    ASSUME AllOnLine, JInv, TransferEnds \/ Attention \/ \E u \in Drive : SearchEnds(u)
    PROVE  JInv'
  <1>0. JTypes /\ AtWork(disk) /\ disk.errcnt <= MaxErrors /\ load.offline = {}
    BY DEF JInv, JTypes, AllOnLine
  <1>1. CASE TransferEnds
    <2>1. PICK how, near : disk' = hpintr(disk, how, near)
      BY <1>1 DEF TransferEnds
    <2>2. AtWork(disk') /\ HasEnded(disk, disk') /\ disk'.errcnt <= MaxErrors
      BY <1>0, <2>1, hpintrIs
    <2>3. UNCHANGED <<load, job, busy, panicked>>
      BY <1>1 DEF TransferEnds
    <2> QED  BY <2>2, <2>3, InterruptKeeps
  <1>2. CASE Attention
    <2>1. PICK near : disk' = hpintr(disk, "done", near)
      BY <1>2 DEF Attention
    <2>2. AtWork(disk') /\ HasEnded(disk, disk') /\ disk'.errcnt <= MaxErrors
      BY <1>0, <2>1, hpintrIs
    <2>3. UNCHANGED <<load, job, busy, panicked>>
      BY <1>2 DEF Attention
    <2> QED  BY <2>2, <2>3, InterruptKeeps
  <1>3. ASSUME NEW u \in Drive, SearchEnds(u) PROVE JInv'
    <2>1. AtWork(disk') /\ Same(disk, disk') /\ disk'.errcnt = disk.errcnt
      BY <1>0, <1>3, Found DEF SearchEnds
    <2>2. UNCHANGED <<load, job, busy, panicked>> /\ HasEnded(disk, disk')
      BY <1>3, <2>1 DEF SearchEnds, HasEnded
    <2> QED  BY <1>0, <2>1, <2>2, InterruptKeeps
  <1> QED  BY <1>1, <1>2, <1>3

LEMMA StutterKeeps ==
    ASSUME JInv, UNCHANGED diskVars
    PROVE  JInv'
  <1>1. disk' = disk /\ UNCHANGED <<load, job, busy, panicked>>
    BY DEF diskVars
  <1>2. JTypes /\ AtWork(disk) /\ disk.errcnt <= MaxErrors
    BY DEF JInv, JTypes
  <1>3. HasEnded(disk, disk')
    BY <1>1 DEF HasEnded, Same
  <1> QED  BY <1>1, <1>2, <1>3, InterruptKeeps

-----------------------------------------------------------------------------
(* The properties                                                          *)

\* A set with one element, and one with none.
LEMMA OneMember ==
    ASSUME NEW S, NEW a \in S, \A b \in S : b = a
    PROVE  Cardinality(S) = 1
  <1>1. S = {a}
    OBVIOUS
  <1> QED  BY <1>1, FS_Singleton

LEMMA NoMember ==
    ASSUME NEW S, \A b \in S : FALSE
    PROVE  Cardinality(S) = 0
  <1>1. S = {}
    OBVIOUS
  <1> QED  BY <1>1, FS_EmptySet

\* A queue in which every header is at most once is not longer than the
\* number of headers.
LEMMA Fits ==
    ASSUME NEW s \in Seq(Header), \A i, j \in 1 .. Len(s) : s[i] = s[j] => i = j
    PROVE  Len(s) <= Cardinality(Header)
  <1>1. Len(s) \in Nat /\ s \in [1 .. Len(s) -> Header]
    OBVIOUS
  <1>2. s \in Injection(1 .. Len(s), Header)
    BY <1>1 DEF Injection, IsInjective
  <1>3. Cardinality(1 .. Len(s)) <= Cardinality(Header)
    BY <1>2, Constants, FS_Injection
  <1>4. Cardinality(1 .. Len(s)) = Len(s)
    <2>1. Cardinality(1 .. Len(s)) = IF 1 > Len(s) THEN 0 ELSE Len(s) - 1 + 1
      BY <1>1, FS_Interval
    <2> QED  BY <1>1, <2>1
  <1> QED  BY <1>3, <1>4

LEMMA TypesFollow ==
    ASSUME JInv
    PROVE  DiskTypeOK
  <1>1. JTypes /\ disk \in DiskSet /\ OnDrive(disk) /\ disk.errcnt <= MaxErrors
    BY DEF JInv, JTypes, AtWork, DevInv, Base
  <1>2. \A u \in Drive : Range(disk.q[u]) \subseteq Header /\ disk.at[u] \in 0 .. Cylinders - 1
    <2>1. \A u \in Drive : disk.q[u] \in Seq(Header)
      BY <1>1, FieldsOf
    <2>2. \A u \in Drive : Range(disk.q[u]) \subseteq Header
      BY <2>1 DEF Range
    <2>3. disk.at \in [Drive -> 0 .. Cylinders - 1]
      BY <1>1 DEF DiskSet
    <2> QED  BY <2>2, <2>3
  <1>3. Range(disk.ready) \cup disk.active \cup disk.searching \cup disk.attention \subseteq Drive
    <2>1. disk.ready \in Seq(Drive) /\ disk.active \subseteq Drive /\ disk.searching \subseteq Drive
          /\ disk.attention \subseteq Drive
      BY <1>1, FieldsOf DEF DiskSet
    <2>2. Range(disk.ready) \subseteq Drive
      BY <2>1 DEF Range
    <2> QED  BY <2>1, <2>2
  <1>4. disk.given \in Header /\ disk.errcnt \in 0 .. MaxErrors
    <2>1. disk.given \in Header /\ disk.errcnt \in Nat
      BY <1>1, FieldsOf
    <2> QED  BY <1>1, <2>1, Constants
  <1>5. \A h \in Header : disk.buf[h].flags \subseteq
         {"BUSY", "WANTED", "DONE", "ERROR", "PHYS", "READ", "WRITE"}
    <2>1. disk.buf \in [Header -> BufSet]
      BY <1>1, FieldsOf
    <2>2. \A h \in Header : disk.buf[h] \in BufSet
      BY <2>1
    <2> QED  BY <2>2 DEF BufSet, Flag7
  <1>6. \A w \in Worker : /\ disk.waits[w] \in Header \cup {"none", "ready"}
                           /\ job[w].at \in {"user", "get", "piece", "wait"}
                           /\ job[w].buf \in Header /\ job[w].left \in Nat
    <2>1. disk.waits \in [Worker -> Header \cup {"none", "ready"}]
      BY <1>1, FieldsOf
    <2> QED  BY <1>1, <2>1, JobIs
  <1>7. panicked \in BOOLEAN
    BY <1>1 DEF JTypes
  <1>8. load \in Loads /\ busy \in Worker \cup {"nobody"}
    BY <1>1 DEF JTypes
  <1> QED  BY <1>2, <1>3, <1>4, <1>5, <1>6, <1>7, <1>8 DEF DiskTypeOK

\* A drive is once where it is on its way.
LEMMA DrivesAreUnderway ==
    ASSUME JInv, NEW u \in Drive
    PROVE  Cardinality({i \in DOMAIN disk.ready : disk.ready[i] = u})
             + Cardinality({u} \cap disk.searching) + Cardinality({u} \cap disk.attention)
             = IF disk.q[u] = <<>> THEN 0 ELSE 1
  <1> DEFINE A == {i \in DOMAIN disk.ready : disk.ready[i] = u}
             B == {u} \cap disk.searching
             C == {u} \cap disk.attention
  <1>1. Apart(disk) /\ DriveOK(disk, u) /\ disk \in DiskSet
    BY DEF JInv, JTypes, AtWork, DevInv, Base
  <1>2. disk.ready \in Seq(Drive) /\ DOMAIN disk.ready = 1 .. Len(disk.ready)
    BY <1>1, FieldsOf
  <1>3. /\ u \in disk.searching => Cardinality(B) = 1
        /\ u \notin disk.searching => Cardinality(B) = 0
        /\ u \in disk.attention => Cardinality(C) = 1
        /\ u \notin disk.attention => Cardinality(C) = 0
    <2>1. u \in disk.searching => B = {u}
      OBVIOUS
    <2>2. u \notin disk.searching => B = {}
      OBVIOUS
    <2>3. u \in disk.attention => C = {u}
      OBVIOUS
    <2>4. u \notin disk.attention => C = {}
      OBVIOUS
    <2> HIDE DEF B, C
    <2> QED  BY <2>1, <2>2, <2>3, <2>4, FS_Singleton, FS_EmptySet
  <1>4. InReady(disk, u) => Cardinality(A) = 1 /\ u \notin disk.searching \cup disk.attention
    <2> SUFFICES ASSUME InReady(disk, u)
                 PROVE  Cardinality(A) = 1 /\ u \notin disk.searching \cup disk.attention
      OBVIOUS
    <2>1. PICK i \in 1 .. Len(disk.ready) : disk.ready[i] = u
      BY DEF InReady
    <2>2. i \in A /\ \A j \in A : j = i
      BY <1>1, <1>2, <2>1 DEF Apart
    <2>3. u \notin disk.searching \cup disk.attention
      BY <1>1, <2>1 DEF Apart
    <2> HIDE DEF A
    <2> QED  BY <2>2, <2>3, OneMember
  <1>5. ~ InReady(disk, u) => Cardinality(A) = 0
    <2> SUFFICES ASSUME ~ InReady(disk, u) PROVE Cardinality(A) = 0
      OBVIOUS
    <2>1. \A i \in A : FALSE
      BY <1>2 DEF InReady
    <2> HIDE DEF A
    <2> QED  BY <2>1, NoMember
  <1>6. disk.q[u] # <<>> <=> u \in disk.searching \cup disk.attention \/ InReady(disk, u)
    BY <1>1 DEF DriveOK, OnWay
  <1>7. ~ (u \in disk.searching /\ u \in disk.attention)
    BY <1>1 DEF Apart
  <1> HIDE DEF A, B, C
  <1>8. Cardinality(A) + Cardinality(B) + Cardinality(C) = IF disk.q[u] = <<>> THEN 0 ELSE 1
    <2>1. CASE disk.q[u] = <<>>
      <3>1. ~ InReady(disk, u) /\ u \notin disk.searching /\ u \notin disk.attention
        BY <1>6, <2>1
      <3> QED  BY <1>3, <1>5, <2>1, <3>1
    <2>2. CASE disk.q[u] # <<>>
      <3>1. CASE InReady(disk, u)
        <4>1. Cardinality(A) = 1 /\ Cardinality(B) = 0 /\ Cardinality(C) = 0
          BY <1>3, <1>4, <3>1
        <4> QED  BY <2>2, <4>1
      <3>2. CASE ~ InReady(disk, u) /\ u \in disk.searching
        <4>1. Cardinality(A) = 0 /\ Cardinality(B) = 1 /\ Cardinality(C) = 0
          BY <1>3, <1>5, <1>7, <3>2
        <4> QED  BY <2>2, <4>1
      <3>3. CASE ~ InReady(disk, u) /\ u \notin disk.searching
        <4>1. Cardinality(A) = 0 /\ Cardinality(B) = 0 /\ Cardinality(C) = 1
          BY <1>3, <1>5, <1>6, <2>2, <3>3
        <4> QED  BY <2>2, <4>1
      <3> QED  BY <3>1, <3>2, <3>3
    <2> QED  BY <2>1, <2>2
  <1> QED  BY <1>8 DEF A, B, C

\* A request is once in the queues while it is waited for.
LEMMA RequestsAreUnderway ==
    ASSUME JInv, NEW h \in Header
    PROVE  Cardinality({p \in Drive \X (1 .. Cardinality(Header)) :
                          p[2] \in DOMAIN disk.q[p[1]] /\ disk.q[p[1]][p[2]] = h})
             = IF \E w \in Worker : /\ job[w].buf = h /\ job[w].at = "wait"
                                     /\ "DONE" \notin disk.buf[h].flags
               THEN 1 ELSE 0
  <1> DEFINE P == {p \in Drive \X (1 .. Cardinality(Header)) :
                     p[2] \in DOMAIN disk.q[p[1]] /\ disk.q[p[1]][p[2]] = h}
  <1>1. Once(disk) /\ disk \in DiskSet /\ JRequests
    BY DEF JInv, JTypes, AtWork, DevInv, Base
  <1>2. \A u \in Drive : disk.q[u] \in Seq(Header) /\ DOMAIN disk.q[u] = 1 .. Len(disk.q[u])
                          /\ Len(disk.q[u]) \in Nat
    BY <1>1, FieldsOf
  <1>3. (\E w \in Worker : /\ job[w].buf = h /\ job[w].at = "wait"
                            /\ "DONE" \notin disk.buf[h].flags) <=> Queued(disk, h)
    BY <1>1 DEF JRequests, Awaits, IsOver, FlagsOf
  <1>4. ASSUME NEW u \in Drive PROVE Len(disk.q[u]) <= Cardinality(Header)
    <2>1. \A i, j \in 1 .. Len(disk.q[u]) : disk.q[u][i] = disk.q[u][j] => i = j
      BY <1>1 DEF Once
    <2> QED  BY <1>2, <2>1, Fits
  <1>5. CASE Queued(disk, h)
    <2>1. PICK u \in Drive : \E i \in 1 .. Len(disk.q[u]) : disk.q[u][i] = h
      BY <1>5 DEF Queued
    <2>2. PICK i \in 1 .. Len(disk.q[u]) : disk.q[u][i] = h
      BY <2>1
    <2>3. Cardinality(Header) \in Nat
      BY Constants, FS_CardinalityType
    <2>4. i \in 1 .. Cardinality(Header) /\ i \in DOMAIN disk.q[u]
      BY <1>2, <1>4, <2>3
    <2>5. <<u, i>> \in P
      BY <2>2, <2>4
    <2>6. ASSUME NEW p \in P PROVE p = <<u, i>>
      <3>1. PICK v \in Drive, j \in 1 .. Cardinality(Header) : p = <<v, j>>
        OBVIOUS
      <3>2. j \in 1 .. Len(disk.q[v]) /\ disk.q[v][j] = h
        BY <1>2, <3>1
      <3>3. v = u /\ j = i
        BY <1>1, <2>2, <3>2 DEF Once
      <3> QED  BY <3>1, <3>3
    <2> HIDE DEF P
    <2>7. Cardinality(P) = 1
      BY <2>5, <2>6, OneMember
    <2> QED  BY <1>3, <1>5, <2>7 DEF P
  <1>6. CASE ~ Queued(disk, h)
    <2>1. ASSUME NEW p \in P PROVE FALSE
      <3>1. PICK v \in Drive, j \in 1 .. Cardinality(Header) : p = <<v, j>>
        OBVIOUS
      <3>2. j \in 1 .. Len(disk.q[v]) /\ disk.q[v][j] = h
        BY <1>2, <3>1
      <3> QED  BY <1>6, <3>2 DEF Queued
    <2> HIDE DEF P
    <2>2. Cardinality(P) = 0
      BY <2>1, NoMember
    <2> QED  BY <1>3, <1>6, <2>2 DEF P
  <1> QED  BY <1>5, <1>6

LEMMA OwnersFollow ==
    ASSUME JInv
    PROVE  OneOwner
  <1> SUFFICES ASSUME NEW h \in Header
               PROVE  LET owners == {w \in Worker : job[w].buf = h /\ job[w].at \in {"piece", "wait"}}
                      IN /\ Cardinality(owners) = IF "BUSY" \in disk.buf[h].flags THEN 1 ELSE 0
                         /\ \A w \in Worker : disk.waits[w] = h =>
                              IF w \in owners THEN "DONE" \notin disk.buf[h].flags ELSE owners # {}
    BY DEF OneOwner
  <1> DEFINE O == {w \in Worker : job[w].buf = h /\ job[w].at \in {"piece", "wait"}}
  <1>0. JOwners /\ JSleepers
    BY DEF JInv
  <1>1. \A w \in Worker : w \in O <=> Owns(w, h)
    BY DEF Owns
  <1>2. IsBusy(h) <=> "BUSY" \in disk.buf[h].flags
    BY DEF IsBusy, FlagsOf
  <1>3. O \subseteq Worker
    OBVIOUS
  <1>4. \A w \in Worker : disk.waits[w] = h =>
          /\ job[w].buf = h /\ job[w].at \in {"get", "wait"}
          /\ job[w].at = "wait" => ~ IsOver(h)
          /\ job[w].at = "get" => IsBusy(h)
    BY <1>0 DEF JSleepers
  <1>5. IsBusy(h) => \E w \in Worker : w \in O
    BY <1>0, <1>1 DEF JOwners
  <1>6. \A w \in Worker : disk.waits[w] = h =>
          IF w \in O THEN "DONE" \notin disk.buf[h].flags ELSE O # {}
    <2> SUFFICES ASSUME NEW w \in Worker, disk.waits[w] = h
                 PROVE  IF w \in O THEN "DONE" \notin disk.buf[h].flags ELSE O # {}
      OBVIOUS
    <2>1. CASE job[w].at = "wait"
      <3>1. w \in O /\ ~ IsOver(h)
        BY <1>1, <1>4, <2>1 DEF Owns
      <3> QED  BY <3>1 DEF IsOver, FlagsOf
    <2>2. CASE job[w].at = "get"
      <3>1. w \notin O
        BY <1>1, <2>2 DEF Owns
      <3>2. O # {}
        BY <1>4, <1>5, <2>2
      <3> QED  BY <3>1, <3>2
    <2> QED  BY <1>4, <2>1, <2>2
  <1>7. CASE IsBusy(h)
    <2>1. PICK w \in Worker : w \in O
      BY <1>5, <1>7
    <2>2. \A v \in O : v = w
      BY <1>0, <1>1, <1>3, <2>1 DEF JOwners
    <2> HIDE DEF O
    <2>3. Cardinality(O) = 1
      BY <2>1, <2>2, OneMember
    <2> QED  BY <1>2, <1>6, <1>7, <2>3 DEF O
  <1>8. CASE ~ IsBusy(h)
    <2>1. \A v \in O : FALSE
      BY <1>0, <1>1, <1>3, <1>8 DEF JOwners
    <2> HIDE DEF O
    <2>2. Cardinality(O) = 0
      BY <2>1, NoMember
    <2> QED  BY <1>2, <1>6, <1>8, <2>2 DEF O
  <1> QED  BY <1>7, <1>8

LEMMA KeptFollows ==
    ASSUME JInv
    PROVE  RequestsKept
  <1>1. DiskTypeOK /\ OneOwner
    BY TypesFollow, OwnersFollow
  <1>2. Underway
    <2>1. (disk.transfer <=> disk.ready # <<>>)
          /\ (disk.transfer => disk.given = Head(disk.q[Head(disk.ready)]))
      BY DEF JInv, JTypes, AtWork, DevInv, Base, Transfers
    <2> QED  BY <2>1, DrivesAreUnderway, RequestsAreUnderway DEF Underway
  <1> QED  BY <1>1, <1>2 DEF RequestsKept

-----------------------------------------------------------------------------

\* Where no drive is off line, every request that is waited for is once in the
\* queue of its drive until its end, whatever order transfers begin, fail and
\* end in; a drive with requests is searching, calls for attention or is in
\* the queue of the controller; and a buffer header has one owner, for whom
\* those wait who sleep for it (hp.c, dsort.c, swap and physio of bio.c).
THEOREM RequestsAreKept ==
    ASSUME AllOnLine
    PROVE  DiskSpec => []RequestsKept
  <1>1. DiskInit => JInv
    BY Begins
  <1>2. JInv /\ [DiskNext]_diskVars => JInv'
    <2> SUFFICES ASSUME JInv, [DiskNext]_diskVars PROVE JInv'
      OBVIOUS
    <2>1. ASSUME NEW w \in Worker, Works(w) PROVE JInv'
      <3>1. CASE StartTransfer(w)
        BY <3>1, StartTransferKeeps
      <3>2. CASE Rerun(w)
        BY <3>2, RerunKeeps
      <3>3. CASE GetHeader(w)
        BY <3>3, GetHeaderKeeps
      <3>4. CASE Piece(w)
        BY <3>4, PieceKeeps
      <3>5. CASE AwaitEnd(w)
        BY <3>5, AwaitEndKeeps
      <3>6. CASE Finish(w)
        BY <3>6, FinishKeeps
      <3> QED  BY <2>1, <3>1, <3>2, <3>3, <3>4, <3>5, <3>6 DEF Works
    <2>2. CASE TransferEnds \/ Attention \/ \E u \in Drive : SearchEnds(u)
      BY <2>2, InterruptsKeep
    <2>3. CASE UNCHANGED diskVars
      BY <2>3, StutterKeeps
    <2> QED  BY <2>1, <2>2, <2>3 DEF DiskNext
  <1>3. JInv => RequestsKept
    BY KeptFollows
  <1> QED  BY <1>1, <1>2, <1>3, PTL DEF DiskSpec
=============================================================================
