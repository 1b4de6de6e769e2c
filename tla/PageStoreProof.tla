--------------------------- MODULE PageStoreProof ---------------------------
(***************************************************************************)
(* What clients see of the pool: every call returns, a clean frame holds   *)
(* what is on disk, and the pool implements PageStore.                     *)
(***************************************************************************)
EXTENDS BufMgrProof

-----------------------------------------------------------------------------
(* Every call returns. *)

(* Every dirty frame has its file, and a victim can be written.            *)
LEMMA NoStray ==
  ASSUME NEW L \in SUBSET File, CoherentInv(L), NEW S \in SUBSET Frames
  PROVE  ~Stray(S)
<1>1. ASSUME NEW i \in Frames, bufTable[i].dirty
      PROVE  bufTable[i].file # NULL
  <2>1. bufTable[i].valid
    BY <1>1 DEF CoherentInv, Coherent, DescsSound, ClearDesc
  <2>. QED BY <2>1, TargetSound, NullFacts
<1>. QED BY <1>1 DEF Stray

LEMMA NoEvictFails ==
  ASSUME NEW L \in SUBSET File, CoherentInv(L), NoStale(L), WellBehaved
  PROVE  /\ \A v \in Frames : ~EvictFails(v)
         /\ \A op : ~FrameOutOfRange(op)
<1>1. ASSUME NEW v \in Frames, EvictFails(v)
      PROVE  FALSE
  <2>1. bufTable[v].valid /\ bufTable[v].file \in L /\ TargetOf(v) = NULL
    BY <1>1 DEF EvictFails, MustWrite, WellBehaved, NoStale
  <2>. QED BY <2>1, TargetSound, NullFacts
<1>. QED BY <1>1 DEF FrameOutOfRange, Victims

LEMMA ReadReturns ==
  ASSUME NEW L \in SUBSET File, CoherentInv(L), NoStale(L), WellBehaved,
         NEW f \in L, NEW p \in 0 .. MaxPage, ReadPage(f, p)
  PROVE  process' = process
<1>1. ASSUME NEW e \in AllocBufResults, ReadInto(f, p, e)
      PROVE  process' = process
  <2>1. unixFile[f] \in Inode
    BY LiveOpen
  <2>2. ~ReadHangs(e.disk[unixFile[f]], p)
    BY <2>1, EvictedCoherent, SoundListWalked DEF Coherent
  <2>. QED BY <1>1, <2>2 DEF ReadInto
<1>. QED BY <1>1, NoEvictFails DEF ReadPage, ReadHit, ReadMiss, Exceeded

LEMMA CallReturns ==
  ASSUME NEW L \in SUBSET File, CoherentInv(L), WellBehaved, NEW f \in L,
         (NoStale(L) /\ Fetch(f)) \/ Release(f)
  PROVE  process' = process
<1>1. ASSUME NoStale(L), NEW p \in 0 .. MaxPage, ReadPage(f, p)
      PROVE  process' = process
  BY <1>1, ReadReturns
<1>2. ASSUME NoStale(L), AllocPage(f)
      PROVE  process' = process
  BY <1>2, NoEvictFails DEF AllocPage, Exceeded, AllocInto
<1>3. ASSUME FlushFile(f)
      PROVE  process' = process
  <2>1. Scanned \in SUBSET Frames
    BY DEF Scanned
  <2>. QED BY <1>3, <2>1, NoStray DEF FlushFile
<1>. QED BY <1>1, <1>2, <1>3 DEF Fetch, Release, DisposePage, UnPinPage

LEMMA ProcessSteps ==
  ASSUME CoherentInv(File), WellBehaved, Next
  PROVE  \/ process' = process
         \/ Delete /\ process' = "exited"
<1>1. ASSUME NEW f \in OpenFile, Fetch(f) \/ Release(f)
      PROVE  process' = process
  BY <1>1, AllLive, CallReturns
<1>2. Delete => process' = "exited"
  BY NoStray DEF Delete
<1>. QED BY <1>1, <1>2 DEF Next, Call, ClearBufStats, WritePage

(* No call of a well-behaved client crashes or hangs, whatever reads,      *)
(* allocations, disposes and flushes fail before it, victims being written *)
(* (WellBehaved): the loop of onFreeList ends on every free list that      *)
(* allocatePage and disposePage leave, and no frame is written through a   *)
(* null File*.                                                             *)
THEOREM EveryCallReturns ==
  ASSUME WellBehaved
  PROVE  Spec => []CallsReturn
<1>1. Init => CallsReturn
  BY DEF Init, NewBufMgr, CallsReturn
<1>2. CoherentInv(File) /\ CallsReturn /\ [Next]_vars => CallsReturn'
  <2>1. ASSUME CoherentInv(File), CallsReturn, Next
        PROVE  CallsReturn'
    BY <2>1, ProcessSteps DEF CallsReturn
  <2>. QED BY <2>1 DEF CallsReturn, vars
<1>. QED BY <1>1, <1>2, CoherentAlways, PTL DEF Spec
-----------------------------------------------------------------------------
(* Clean frames.  As with Coherent, the invariant is a predicate of a      *)
(* table, a pool and a disk, for a call changes them one after the other.  *)

PageUnder(t, k, i) == k[unixFile[t[i].file]].page[t[i].pageNo]

CleanMatch(t, b, k, L) ==
  \A i \in Frames :
    t[i].valid /\ t[i].file \in L /\ ~t[i].dirty /\ t[i].pinCnt = 0 /\ PageUnder(t, k, i) \in Value
      => b[i] = PageUnder(t, k, i)

CleanInv(L) == CoherentInv(L) /\ CleanMatch(bufTable, bufPool, disk, L)

(* Two descriptors that differ in the loved bit only.                      *)
SameBut(b, c) ==
  /\ c.valid = b.valid /\ c.file = b.file /\ c.pageNo = b.pageNo
  /\ c.dirty = b.dirty /\ c.pinCnt = b.pinCnt

LEMMA SweptSame ==
  ASSUME NEW t \in TableType, NEW h, NEW v, NEW i \in Frames
  PROVE  SameBut(t[i], SweptTo(t, h, v)[i]) /\ SameBut(t[i], SweptAll(t)[i])
BY DEF SameBut, SweptTo, SweptAll, Unloved, TableType, BufDesc

(* allocBuf: one frame that is not pinned leaves the pool, and nothing but *)
(* its page is written.                                                    *)
LEMMA EvictedPages ==
  ASSUME NEW L \in SUBSET File, CoherentInv(L), NoStale(L), WellBehaved, NEW e \in AllocBufResults
  PROVE  \E v \in Frames :
           /\ e.frame = v /\ ~e.table[v].valid
           /\ bufTable[v].valid => bufTable[v].pinCnt = 0
           /\ \A i \in Frames \ {v} : SameBut(bufTable[i], e.table[i])
           /\ \A n \in Inode, p \in Page :
                /\ Allocates(e.disk[n], p) <=> Allocates(disk[n], p)
                /\ e.disk[n].page[p] = IF MustWrite(v) /\ Holds(v, n, p)
                                       THEN bufPool[v] ELSE disk[n].page[p]
<1>1. PICK v \in Frames : Victim(bufTable, clockHand, v) /\ e = Evicted(v)
  BY NoEvictFails DEF AllocBufResults, Victims
<1>2. PoolTypeOK /\ bufTable \in TableType
  BY DEF CoherentInv, PoolTypeOK, TableType
<1>3. /\ e.frame = v
      /\ e.table = [SweptTo(bufTable, clockHand, v) EXCEPT ![v] = ClearDesc]
      /\ e.disk = IF MustWrite(v)
                  THEN [disk EXCEPT ![TargetOf(v)] = Written(@, bufTable[v].pageNo, bufPool[v])]
                  ELSE disk
  BY <1>1 DEF Evicted
<1>4. ~e.table[v].valid
  BY <1>3, EvictedCoherent
<1>5. \A i \in Frames \ {v} : SameBut(bufTable[i], e.table[i])
  <2>1. SweptTo(bufTable, clockHand, v) \in TableType
    BY <1>2, SweptTypes
  <2>. QED BY <1>2, <1>3, <2>1, SweptSame DEF TableType
<1>6. bufTable[v].valid => bufTable[v].pinCnt = 0
  BY <1>1, <1>2 DEF Victim, Replaceable, TableType, BufDesc
<1>7. ASSUME NEW n \in Inode, NEW p \in Page
      PROVE  /\ Allocates(e.disk[n], p) <=> Allocates(disk[n], p)
             /\ e.disk[n].page[p] = IF MustWrite(v) /\ Holds(v, n, p)
                                    THEN bufPool[v] ELSE disk[n].page[p]
  <2>1. CASE ~(MustWrite(v) /\ TargetOf(v) = n)
    BY <1>2, <1>3, <2>1 DEF Holds, PoolTypeOK
  <2>2. CASE MustWrite(v) /\ TargetOf(v) = n
    <3>. DEFINE x == e.disk[n]
    <3>1. disk[n] \in File_ /\ FreeListSound(disk[n]) /\ x \in File_
      BY EvictedCoherent DEF CoherentInv, Coherent
    <3>2. bufTable[v].pageNo \in Page /\ bufTable[v].pageNo \notin FreeList(disk[n])
      BY <2>2, TargetSound DEF MustWrite, NoStale, Allocates
    <3>3. x = Written(disk[n], bufTable[v].pageNo, bufPool[v])
      BY <1>2, <1>3, <2>2 DEF PoolTypeOK
    <3>4. /\ x.nextFree = disk[n].nextFree /\ x.numPages = disk[n].numPages
          /\ x.page = [disk[n].page EXCEPT ![bufTable[v].pageNo] = bufPool[v]]
      BY <3>1, <3>3 DEF Written, File_
    <3>5. x.page[p] = IF bufTable[v].pageNo = p THEN bufPool[v] ELSE disk[n].page[p]
      BY <3>1, <3>4 DEF File_
    <3>6. \A q \in FreeList(disk[n]) : x.page[q] = disk[n].page[q]
      BY <3>1, <3>2, <3>4, FreeListHoldsChain DEF File_
    <3>7. x.numPages >= disk[n].numPages
      BY <3>1, <3>4 DEF File_
    <3>8. FreeList(x) = FreeList(disk[n])
      BY <3>1, <3>4, <3>6, <3>7, RewrittenSound
    <3>. QED BY <2>2, <3>4, <3>5, <3>8 DEF Holds, Allocates
  <2>. QED BY <2>1, <2>2
<1>. QED BY <1>3, <1>4, <1>5, <1>6, <1>7

LEMMA ExceededClean ==
  ASSUME NEW L \in SUBSET File, CleanInv(L), NEW op, Exceeded(op)
  PROVE  CleanMatch(bufTable', bufPool', disk', L)
<1>1. \A i \in Frames : SameBut(bufTable[i], bufTable'[i])
  BY SweptSame DEF Exceeded, CleanInv, CoherentInv, Coherent
<1>. QED BY <1>1 DEF Exceeded, CleanInv, CleanMatch, PageUnder, SameBut

LEMMA EvictedClean ==
  ASSUME NEW L \in SUBSET File, CleanInv(L), NoStale(L), WellBehaved, NEW e \in AllocBufResults
  PROVE  CleanMatch(e.table, bufPool, e.disk, L)
<1>1. PICK v \in Frames :
        /\ e.frame = v /\ ~e.table[v].valid
        /\ \A i \in Frames \ {v} : SameBut(bufTable[i], e.table[i])
        /\ \A n \in Inode, p \in Page :
             e.disk[n].page[p] = IF MustWrite(v) /\ Holds(v, n, p)
                                 THEN bufPool[v] ELSE disk[n].page[p]
  BY EvictedPages DEF CleanInv
<1>2. ASSUME NEW i \in Frames \ {v}, e.table[i].valid, e.table[i].file \in L
      PROVE  PageUnder(e.table, e.disk, i) = PageUnder(bufTable, disk, i)
  <2>1. SameBut(bufTable[i], e.table[i]) /\ bufTable[i].valid /\ bufTable[i].file \in L
    BY <1>1, <1>2 DEF SameBut
  <2>2. /\ TargetOf(i) = unixFile[bufTable[i].file] /\ TargetOf(i) \in Inode
        /\ bufTable[i].file \in File /\ bufTable[i].pageNo \in Page
    BY <2>1, TargetSound DEF CleanInv
  <2>3. ~(MustWrite(v) /\ Holds(v, TargetOf(i), bufTable[i].pageNo))
    <3>. SUFFICES ASSUME MustWrite(v), Holds(v, TargetOf(i), bufTable[i].pageNo) PROVE FALSE
      OBVIOUS
    <3>1. bufTable[v].valid /\ bufTable[v].file \in L
          /\ TargetOf(v) = unixFile[bufTable[v].file]
      BY TargetSound DEF MustWrite, NoStale, CleanInv
    <3>. QED BY <2>1, <2>2, <3>1
             DEF Holds, CleanInv, CoherentInv, Coherent, Distinct, UnixFileSound
  <2>. QED BY <1>1, <2>1, <2>2, <2>3 DEF PageUnder, SameBut
<1>. QED BY <1>1, <1>2 DEF CleanInv, CleanMatch, SameBut

(* A frame that is pinned need not match; the others are as they were.     *)
LEMMA CleanStays ==
  ASSUME NEW L, NEW t, NEW b, NEW k, NEW u, NEW c, NEW x, CleanMatch(t, b, k, L),
         \A i \in Frames :
           \/ u[i].pinCnt # 0
           \/ /\ u[i] = t[i] /\ c[i] = b[i]
              /\ t[i].valid /\ t[i].file \in L => PageUnder(u, x, i) = PageUnder(t, k, i)
  PROVE  CleanMatch(u, c, x, L)
BY DEF CleanMatch

LEMMA ReadPageClean ==
  ASSUME NEW L \in SUBSET File, CleanInv(L), NoStale(L), WellBehaved, NEW f \in L, NEW p \in 0 .. MaxPage, ReadPage(f, p)
  PROVE  CleanMatch(bufTable', bufPool', disk', L)
<1>0. CoherentInv(L) /\ PoolTypeOK /\ CleanMatch(bufTable, bufPool, disk, L)
  BY DEF CleanInv, CoherentInv
<1>1. ASSUME NEW i \in Frames,
             bufTable' = [bufTable EXCEPT ![i].pinCnt = @ + 1],
             UNCHANGED <<bufPool, disk>>
      PROVE  CleanMatch(bufTable', bufPool', disk', L)
  <2>1. bufTable'[i].pinCnt # 0
    BY <1>0, <1>1, BoundsAssumption DEF PoolTypeOK, BufDesc
  <2>2. \A j \in Frames \ {i} : bufTable'[j] = bufTable[j]
    BY <1>0, <1>1 DEF PoolTypeOK
  <2>3. \A j \in Frames \ {i} : PageUnder(bufTable', disk', j) = PageUnder(bufTable, disk, j)
    BY <1>1, <2>2 DEF PageUnder
  <2>4. \A j \in Frames :
          \/ bufTable'[j].pinCnt # 0
          \/ /\ bufTable'[j] = bufTable[j] /\ bufPool'[j] = bufPool[j]
             /\ bufTable[j].valid /\ bufTable[j].file \in L
                  => PageUnder(bufTable', disk', j) = PageUnder(bufTable, disk, j)
    BY <1>1, <2>1, <2>2, <2>3
  <2>. QED BY <1>0, <2>4, CleanStays
<1>2. CASE Exceeded("readPage")
  BY <1>0, <1>2, ExceededClean
<1>3. ASSUME NEW e \in AllocBufResults, ReadInto(f, p, e)
      PROVE  CleanMatch(bufTable', bufPool', disk', L)
  <2>1. e \in ResultType /\ CleanMatch(e.table, bufPool, e.disk, L)
    BY EvictedClean, EvictedCoherent DEF CleanInv
  <2>2. CASE SetUp(e, f, p) /\ bufPool' = [bufPool EXCEPT ![e.frame] = e.disk[unixFile[f]].page[p]]
    <3>1. bufTable' = [e.table EXCEPT ![e.frame] = SetDesc(f, p)] /\ disk' = e.disk
      BY <1>3, <2>2 DEF SetUp, ReadInto
    <3>2. bufTable'[e.frame].pinCnt # 0
      BY <2>1, <3>1 DEF ResultType, TableType, SetDesc
    <3>3. \A j \in Frames \ {e.frame} : bufTable'[j] = e.table[j] /\ bufPool'[j] = bufPool[j]
      BY <1>0, <2>1, <2>2, <3>1 DEF ResultType, TableType, PoolTypeOK
    <3>4. \A j \in Frames \ {e.frame} : PageUnder(bufTable', disk', j) = PageUnder(e.table, e.disk, j)
      BY <3>1, <3>3 DEF PageUnder
    <3>. QED BY <2>1, <3>2, <3>3, <3>4, CleanStays
  <2>3. CASE LeaveFree(e) /\ UNCHANGED bufPool
    BY <1>3, <2>1, <2>3 DEF ReadInto, LeaveFree
  <2>. QED BY <1>3, <2>2, <2>3 DEF ReadInto
<1>. QED BY <1>0, <1>1, <1>2, <1>3, NoEvictFails DEF ReadPage, ReadHit, ReadMiss

LEMMA AllocPageClean ==
  ASSUME NEW L \in SUBSET File, CleanInv(L), NoStale(L), WellBehaved, NEW f \in L, AllocPage(f)
  PROVE  CleanMatch(bufTable', bufPool', disk', L)
<1>0. CoherentInv(L) /\ PoolTypeOK /\ f \in File /\ unixFile[f] \in Inode /\ UnixFileSound(L)
  BY DEF CleanInv, CoherentInv, UnixFileSound
<1>1. CASE Exceeded("allocPage")
  BY <1>0, <1>1, ExceededClean DEF CleanInv
<1>2. ASSUME NEW e \in AllocBufResults, AllocInto(f, e)
      PROVE  CleanMatch(bufTable', bufPool', disk', L)
  <2>. DEFINE n == unixFile[f]
              d == e.disk[n]
  <2>1. e \in ResultType /\ CleanMatch(e.table, bufPool, e.disk, L)
        /\ Coherent(e.table, e.map, e.disk, L) /\ d \in File_ /\ FreeListSound(d)
    BY <1>0, EvictedClean, EvictedCoherent DEF CleanInv, Coherent
  (* The file changes, and no page that was allocated does.                *)
  <2>2. ASSUME NEW x, \A q \in Page : Allocates(d, q) => x.page[q] = d.page[q],
               NEW i \in Frames, e.table[i].valid, e.table[i].file \in L
        PROVE  PageUnder(e.table, [e.disk EXCEPT ![n] = x], i) = PageUnder(e.table, e.disk, i)
    BY <1>0, <2>1, <2>2 DEF PageUnder, Coherent, Placed, DescsSound, UnixFileSound
  <2>3. CASE /\ AllocSucceeds(d)
             /\ disk' = [e.disk EXCEPT ![n] = Allocated(d)]
             /\ SetUp(e, f, AllocPageNo(d))
    <3>. DEFINE p == AllocPageNo(d)
    <3>1. bufTable' = [e.table EXCEPT ![e.frame] = SetDesc(f, p)] /\ bufPool' = bufPool
      BY <1>2, <2>3 DEF SetUp, AllocInto
    <3>2. bufTable'[e.frame].pinCnt # 0
      BY <2>1, <3>1 DEF ResultType, TableType, SetDesc
    <3>3. \A j \in Frames \ {e.frame} : bufTable'[j] = e.table[j]
      BY <2>1, <3>1 DEF ResultType, TableType
    <3>4. \A q \in Page : Allocates(d, q) => Allocated(d).page[q] = d.page[q]
      BY <2>1, <2>3, AllocatedPages
    <3>5. \A i \in Frames \ {e.frame} :
            bufTable'[i].valid /\ bufTable'[i].file \in L
              => PageUnder(bufTable', disk', i) = PageUnder(e.table, e.disk, i)
      <4>. SUFFICES ASSUME NEW i \in Frames \ {e.frame}, bufTable'[i].valid, bufTable'[i].file \in L
                    PROVE  PageUnder(bufTable', disk', i) = PageUnder(e.table, e.disk, i)
        OBVIOUS
      <4>1. bufTable'[i] = e.table[i]
        BY <3>3
      <4>2. PageUnder(bufTable', disk', i) = PageUnder(e.table, disk', i)
        BY <4>1 DEF PageUnder
      <4>. QED BY <2>2, <2>3, <3>4, <4>1, <4>2
    <3>6. \A j \in Frames :
            \/ bufTable'[j].pinCnt # 0
            \/ /\ bufTable'[j] = e.table[j] /\ bufPool'[j] = bufPool[j]
               /\ e.table[j].valid /\ e.table[j].file \in L
                    => PageUnder(bufTable', disk', j) = PageUnder(e.table, e.disk, j)
      <4>. HIDE DEF d, n, p
      <4>. QED BY <3>1, <3>2, <3>3, <3>5
    <3>. QED BY <2>1, <3>6, CleanStays
  <2>4. ASSUME NEW x \in AllocFailures(d), disk' = [e.disk EXCEPT ![n] = x], LeaveFree(e)
        PROVE  CleanMatch(bufTable', bufPool', disk', L)
    <3>1. bufTable' = e.table /\ bufPool' = bufPool
      BY <1>2, <2>4 DEF LeaveFree, AllocInto
    <3>2. \A i \in Frames :
            e.table[i].valid /\ e.table[i].file \in L
              => PageUnder(e.table, disk', i) = PageUnder(e.table, e.disk, i)
      BY <2>1, <2>2, <2>4, AllocFailuresPages
    <3>. QED BY <2>1, <3>1, <3>2 DEF CleanMatch
  <2>. QED BY <1>2, <2>3, <2>4 DEF AllocInto
<1>. QED BY <1>1, <1>2, <1>0, NoEvictFails DEF AllocPage

(* Two frames of open files never hold the same page of a Unix file.  A    *)
(* frame that would be written is one of them.                             *)
LEMMA HoldsOnce ==
  ASSUME NEW L \in SUBSET File, CoherentInv(L), NEW i \in Frames, NEW j \in Frames,
         NEW n, NEW p, bufTable[i].valid, bufTable[j].valid,
         bufTable[i].file \in L, bufTable[j].file \in L, Holds(i, n, p), Holds(j, n, p)
  PROVE  i = j
BY TargetSound DEF Holds, CoherentInv, Coherent, Distinct, UnixFileSound

LEMMA WritesLive ==
  ASSUME NEW L \in SUBSET File, CoherentInv(L), NEW S \in SUBSET Frames, NEW fault,
         NEW W \in Writes(S, fault), NEW i \in W
  PROVE  i \in Frames /\ bufTable[i].valid /\ bufTable[i].dirty /\ bufTable[i].file \in L
<1>1. i \in Frames /\ bufTable[i].dirty /\ TargetOf(i) # NULL
  BY DEF Writes, Writable
<1>2. bufTable[i].valid
  BY <1>1 DEF CoherentInv, Coherent, DescsSound, ClearDesc
<1>. QED BY <1>1, <1>2, TargetSound

(* The scan of flushFile and ~BufMgr: the pages of the frames it wrote     *)
(* reach the disk, and no other page changes.                              *)
LEMMA WrittenBackPages ==
  ASSUME NEW L \in SUBSET File, CoherentInv(L), NEW S \in SUBSET Frames, NEW fault, NEW W \in Writes(S, fault),
         NEW n \in Inode
  PROVE  /\ \A i \in W : bufTable[i].valid /\ bufTable[i].dirty /\ bufTable[i].file \in L
         /\ \A p \in Page :
              /\ \A i \in W : Holds(i, n, p) => WrittenBack(W)[n].page[p] = bufPool[i]
              /\ (\A i \in W : ~Holds(i, n, p)) => WrittenBack(W)[n].page[p] = disk[n].page[p]
              /\ Allocates(WrittenBack(W)[n], p) <=> Allocates(disk[n], p)
<1>. DEFINE x == WrittenBack(W)[n]
            d == disk[n]
<1>1. \A i \in W : i \in Frames /\ bufTable[i].valid /\ bufTable[i].dirty /\ bufTable[i].file \in L
  BY WritesLive
<1>2. d \in File_ /\ FreeListSound(d) /\ x \in File_
  BY WrittenBackType DEF CoherentInv, Coherent
<1>3. ASSUME NEW p \in Page, NEW i \in Frames
      PROVE  LastCopy(W, n, p, i) <=> i \in W /\ Holds(i, n, p)
  BY <1>1, HoldsOnce, BufsAssumption DEF LastCopy, Frames
<1>. DEFINE g == [p \in Page |-> IF \E i \in Frames : LastCopy(W, n, p, i)
                                 THEN bufPool[CHOOSE i \in Frames : LastCopy(W, n, p, i)]
                                 ELSE d.page[p]]
<1>4. x.page = g /\ x.nextFree = d.nextFree /\ x.numPages = d.numPages
  <2>1. x = [d EXCEPT !.page = g]
    BY DEF WrittenBack
  <2>. QED BY <1>2, <2>1 DEF File_
<1>5. ASSUME NEW p \in Page, NEW i \in W, Holds(i, n, p)
      PROVE  x.page[p] = bufPool[i]
  <2>1. i \in Frames /\ LastCopy(W, n, p, i)
    BY <1>1, <1>3, <1>5
  <2>2. \A j \in Frames : LastCopy(W, n, p, j) => j = i
    BY <1>1, <1>3, <1>5, HoldsOnce
  <2>3. (CHOOSE j \in Frames : LastCopy(W, n, p, j)) = i
    BY <2>1, <2>2
  <2>. QED BY <1>4, <2>1, <2>3
<1>6. ASSUME NEW p \in Page, \A i \in W : ~Holds(i, n, p)
      PROVE  x.page[p] = d.page[p]
  BY <1>3, <1>4, <1>6
<1>7. FreeList(x) = FreeList(d)
  <2>1. \A p \in FreeList(d) : p \in Page /\ \A i \in W : ~Holds(i, n, p)
    BY <1>1, TargetSound, FreeListHoldsChain DEF Holds, Allocates
  <2>2. \A p \in FreeList(d) : x.page[p] = d.page[p]
    BY <1>6, <2>1
  <2>3. x.numPages >= d.numPages
    BY <1>2, <1>4 DEF File_
  <2>. QED BY <1>2, <1>4, <2>2, <2>3, RewrittenSound
<1>. QED BY <1>1, <1>4, <1>5, <1>6, <1>7 DEF Allocates

LEMMA WriteBackClean ==
  ASSUME NEW L \in SUBSET File, CleanInv(L), NEW S \in SUBSET Frames, NEW fault, NEW W \in Writes(S, fault)
  PROVE  CleanMatch(bufTable, bufPool, WrittenBack(W), L)
<1>1. ASSUME NEW i \in Frames, bufTable[i].valid, bufTable[i].file \in L, ~bufTable[i].dirty
      PROVE  PageUnder(bufTable, WrittenBack(W), i) = PageUnder(bufTable, disk, i)
  <2>1. TargetOf(i) \in Inode /\ bufTable[i].pageNo \in Page
        /\ TargetOf(i) = unixFile[bufTable[i].file]
    BY <1>1, TargetSound DEF CleanInv
  <2>2. \A j \in W : j \in Frames /\ bufTable[j].valid /\ bufTable[j].dirty /\ bufTable[j].file \in L
    BY WritesLive DEF CleanInv
  <2>3. \A j \in W : ~Holds(j, TargetOf(i), bufTable[i].pageNo)
    BY <1>1, <2>2, HoldsOnce DEF CleanInv, Holds
  <2>. QED BY <2>1, <2>3, WrittenBackPages DEF CleanInv, PageUnder
<1>. QED BY <1>1 DEF CleanInv, CleanMatch

(* The last unPinPage of a page that is not reported dirty leaves a frame  *)
(* in which every store was reported.                                      *)
LEMMA UnPinClean ==
  ASSUME NEW L \in SUBSET File, CleanInv(L), NEW f \in File, NEW p \in 0 .. MaxPage,
         NEW dirty \in BOOLEAN, NEW love \in BOOLEAN, UnPinPage(f, p, dirty, love)
  PROVE  CleanMatch(bufTable', bufPool', disk', L)
<1>0. PoolTypeOK /\ UNCHANGED <<bufPool, disk>>
  BY DEF CleanInv, CoherentInv, UnPinPage
<1>1. CASE UNCHANGED bufTable
  BY <1>0, <1>1 DEF CleanInv
<1>2. ASSUME NEW i \in Frames, LosePin(i, dirty, love)
      PROVE  CleanMatch(bufTable', bufPool', disk', L)
  <2>1. \A j \in Frames \ {i} : bufTable'[j] = bufTable[j]
    BY <1>0, <1>2 DEF LosePin, PoolTypeOK
  <2>2. /\ bufTable'[i].valid = bufTable[i].valid /\ bufTable'[i].file = bufTable[i].file
        /\ bufTable'[i].pageNo = bufTable[i].pageNo
        /\ bufTable'[i].dirty = (bufTable[i].dirty \/ dirty)
        /\ bufTable'[i].pinCnt = bufTable[i].pinCnt - 1
    BY <1>0, <1>2 DEF LosePin, PoolTypeOK, BufDesc
  <2>3. ASSUME bufTable[i].valid, bufTable[i].file \in L, ~bufTable[i].dirty, ~dirty,
               bufTable[i].pinCnt - 1 = 0
        PROVE  PageUnder(bufTable, disk, i) \in Value => bufPool[i] = PageUnder(bufTable, disk, i)
    <3>1. Reported(i)
      BY <1>2, <2>3 DEF LosePin
    <3>. QED BY <2>3, <3>1, TargetSound, NullFacts DEF Reported, OnDisk, PageUnder, CleanInv
  <2>4. \A j \in Frames : PageUnder(bufTable', disk', j) = PageUnder(bufTable, disk, j)
    BY <1>0, <2>1, <2>2 DEF PageUnder
  <2>5. ASSUME NEW j \in Frames, bufTable'[j].valid, bufTable'[j].file \in L, ~bufTable'[j].dirty,
               bufTable'[j].pinCnt = 0, PageUnder(bufTable', disk', j) \in Value
        PROVE  bufPool'[j] = PageUnder(bufTable', disk', j)
    <3>1. CASE j = i
      BY <1>0, <2>2, <2>3, <2>4, <2>5, <3>1
    <3>2. CASE j # i
      BY <1>0, <2>1, <2>4, <2>5, <3>2 DEF CleanInv, CleanMatch
    <3>. QED BY <3>1, <3>2
  <2>. QED BY <2>5 DEF CleanMatch
<1>. QED BY <1>1, <1>2 DEF UnPinPage, UnPinFound, NotPinned, UnPinNotFound

(* disposePage drops the page from the pool, and nothing else.             *)
LEMMA DisposedFrames ==
  ASSUME NEW L \in SUBSET File, CoherentInv(L), NEW f \in File, NEW p \in Page, DisposeTried(f, p), NEW i \in Frames
  PROVE  IF bufTable[i].valid /\ bufTable[i].file = f /\ bufTable[i].pageNo = p
         THEN ~bufTable'[i].valid
         ELSE bufTable'[i] = bufTable[i]
<1>1. LookupAt(bufMap, f, p, i)
        <=> bufTable[i].valid /\ bufTable[i].file = f /\ bufTable[i].pageNo = p
  <2>1. \A j \in Frames : bufMap[j] = Entry(f, p)
          <=> bufTable[j].valid /\ bufTable[j].file = f /\ bufTable[j].pageNo = p
    BY NullFacts, EntryEq DEF CoherentInv, Coherent, Mirrors
  <2>2. \A j \in Frames : bufMap[j] = Entry(f, p) /\ bufMap[i] = Entry(f, p) => i = j
    BY <2>1 DEF CoherentInv, Coherent, Distinct
  <2>3. DOMAIN bufMap = Frames
    BY DEF CoherentInv, PoolTypeOK
  <2>. QED BY <2>1, <2>2, <2>3, BufsAssumption DEF LookupAt, Frames
<1>2. bufTable'[i] = Dropped(f, p, i)
  BY DEF DisposeTried
<1>. QED BY <1>1, <1>2 DEF Dropped, ClearDesc

LEMMA DisposePageClean ==
  ASSUME NEW L \in SUBSET File, CleanInv(L), WellBehaved, NEW f \in L, NEW p \in 0 .. MaxPage, DisposePage(f, p)
  PROVE  CleanMatch(bufTable', bufPool', disk', L)
<1>0. /\ CoherentInv(L) /\ f \in File /\ unixFile[f] \in Inode /\ UnixFileSound(L)
      /\ disk \in [Inode -> File_] /\ CleanMatch(bufTable, bufPool, disk, L)
  BY LiveOpen DEF CleanInv, CoherentInv, UnixFileSound, PoolTypeOK
<1>1. CASE DisposeRefused(f, p)
  BY <1>0, <1>1 DEF DisposePage, DisposeRefused
<1>2. CASE DisposeTried(f, p)
  <2>1. p \in Page /\ bufPool' = bufPool
    BY <1>2, MaxPageAssumption DEF DisposeTried, Page, DisposePage
  <2>2. \A i \in Frames : bufTable'[i].valid =>
          bufTable'[i] = bufTable[i] /\ (bufTable[i].file # f \/ bufTable[i].pageNo # p)
    BY <1>0, <1>2, <2>1, DisposedFrames
  <2>3. ASSUME NEW q \in Page, NEW n \in Inode, n # unixFile[f] \/ q # p
        PROVE  disk'[n].page[q] = disk[n].page[q]
    <3>1. CASE disk'[n] = disk[n]
      BY <3>1
    <3>2. CASE n = unixFile[f] /\ disk'[n] # disk[n]
      <4>1. disk'[n] = Disposed(disk[n], p) \/ disk'[n] \in DisposeFailures(disk[n], p)
        BY <1>0, <1>2, <3>2 DEF DisposeTried
      <4>2. disk[n] \in File_ /\ q # p
        BY <1>0, <2>3, <3>2
      <4>3. /\ Disposed(disk[n], p).page[q] = disk[n].page[q]
            /\ \A x \in DisposeFailures(disk[n], p) : x.page[q] = disk[n].page[q]
        BY <2>1, <4>2, DisposedPages
      <4>. QED BY <4>1, <4>3
    <3>3. n # unixFile[f] => disk'[n] = disk[n]
      BY <1>0, <1>2 DEF DisposeTried
    <3>. QED BY <3>1, <3>2, <3>3
  <2>4. ASSUME NEW i \in Frames, bufTable'[i].valid, bufTable'[i].file \in L
        PROVE  PageUnder(bufTable', disk', i) = PageUnder(bufTable, disk, i)
    BY <1>0, <2>2, <2>3, <2>4, TargetSound DEF PageUnder, UnixFileSound
  <2>. QED BY <1>0, <2>1, <2>2, <2>4 DEF CleanMatch
<1>. QED BY <1>1, <1>2 DEF DisposePage

LEMMA CallClean ==
  ASSUME NEW L \in SUBSET File, CleanInv(L), WellBehaved, NEW f \in L,
         (NoStale(L) /\ Fetch(f)) \/ Release(f)
  PROVE  CleanInv(L)'
<1>. DEFINE Goal == CleanMatch(bufTable', bufPool', disk', L)
<1>1. ASSUME NoStale(L), NEW p \in 0 .. MaxPage, ReadPage(f, p) PROVE Goal
  BY <1>1, ReadPageClean
<1>2. ASSUME NoStale(L), AllocPage(f) PROVE Goal
  BY <1>2, AllocPageClean
<1>3. ASSUME FlushFile(f) PROVE Goal
  <2>1. Scanned \in SUBSET Frames
    BY DEF Scanned
  <2>. QED BY <1>3, <2>1, NoStray, WriteBackClean DEF FlushFile, WriteScanned, CleanInv
<1>4. ASSUME NEW p \in 0 .. MaxPage, DisposePage(f, p) PROVE Goal
  BY <1>4, DisposePageClean
<1>5. ASSUME NEW p \in 0 .. MaxPage, NEW dirty \in BOOLEAN, NEW love \in Hints,
             UnPinPage(f, p, dirty, love)
      PROVE  Goal
  BY <1>5, UnPinClean, HintsAssumption
<1>6. Goal /\ unixFile' = unixFile
  BY <1>1, <1>2, <1>3, <1>4, <1>5, CallKeepsFiles DEF Fetch, Release
<1>7. CoherentInv(L)'
  BY CallCoherent DEF CleanInv
<1>. QED BY <1>6, <1>7 DEF CleanInv, CleanMatch, PageUnder

LEMMA StoreClean ==
  ASSUME NEW L \in SUBSET File, CleanInv(L), NEW i \in Frames, NEW c \in Value, WritePage(i, c)
  PROVE  CleanInv(L)'
<1>1. bufTable[i].pinCnt # 0 /\ \A j \in Frames \ {i} : bufPool'[j] = bufPool[j]
  BY DEF WritePage, CleanInv, CoherentInv, PoolTypeOK, BufDesc
<1>2. CoherentInv(L)'
  BY StoreCoherent DEF CleanInv
<1>. QED BY <1>1, <1>2 DEF WritePage, CleanInv, CleanMatch, PageUnder

LEMMA EndClean ==
  ASSUME NEW L \in SUBSET File, CleanInv(L), Delete
  PROVE  CleanInv(L)'
<1>1. CoherentInv(L)' /\ unixFile' = unixFile /\ bufTable' = bufTable /\ bufPool' = bufPool
  BY EndCoherent DEF CleanInv, Delete, Crash
<1>2. CleanMatch(bufTable, bufPool, disk', L)
  BY NoStray, WriteBackClean DEF Delete, CleanInv
<1>. QED BY <1>1, <1>2 DEF CleanInv, CleanMatch, PageUnder

LEMMA CleanStep ==
  ASSUME WellBehaved, CleanInv(File), [Next]_vars
  PROVE  CleanInv(File)'
<1>0. CoherentInv(File)'
  BY CoherentStep DEF CleanInv
<1>1. CASE UNCHANGED vars \/ ClearBufStats
  BY <1>0, <1>1 DEF vars, ClearBufStats, CleanInv, CleanMatch, PageUnder
<1>2. ASSUME NEW f \in OpenFile, Fetch(f) \/ Release(f)
      PROVE  CleanInv(File)'
  BY <1>2, AllLive, CallClean DEF CleanInv
<1>. QED BY <1>1, <1>2, EndClean, StoreClean DEF Next, Call

LEMMA CleanAlways ==
  ASSUME WellBehaved
  PROVE  Spec => []CleanInv(File)
<1>1. Init => CleanInv(File)
  BY CoherentInit DEF Init, NewBufMgr, ClearDesc, CleanMatch, CleanInv
<1>. QED BY <1>1, CleanStep, PTL DEF Spec

(* Losing an unpinned clean frame loses nothing: whatever was evicted,     *)
(* written back or disposed of before, and whatever but the write of a     *)
(* victim failed (WellBehaved), it holds the page as it is on disk. The    *)
(* client's part is to report its stores, see LosePin.                     *)
THEOREM CleanFramesMatch ==
  ASSUME WellBehaved
  PROVE  Spec => []CleanFramesMatchDisk
<1>1. CleanInv(File) => CleanFramesMatchDisk
  <2>1. ASSUME CleanInv(File), NEW i \in Frames, bufTable[i].valid
        PROVE  /\ bufTable[i].file \in File /\ bufTable[i].pinCnt \in Nat
               /\ OnDisk(i) = PageUnder(bufTable, disk, i)
    BY <2>1, TargetSound DEF CleanInv, PageUnder, OnDisk, CoherentInv, PoolTypeOK, BufDesc
  <2>. QED BY <2>1 DEF CleanInv, CleanMatch, CleanFramesMatchDisk, Pinned
<1>. QED BY <1>1, CleanAlways, PTL
-----------------------------------------------------------------------------
(* The refinement.  View is PageOf for any table, pool and disk: what the  *)
(* client would read of page p of file f.                                  *)

Held(t, f, p, i) == t[i].valid /\ t[i].file = f /\ t[i].pageNo = p

View(t, b, k, f, p) ==
  IF ~Allocates(k[unixFile[f]], p) THEN "gone"
  ELSE IF \E i \in Frames : Held(t, f, p, i)
       THEN LET i == CHOOSE i \in Frames : Held(t, f, p, i)
            IN IF t[i].dirty \/ k[unixFile[f]].page[p] \in Value
               THEN Stored(b[i]) ELSE "blank"
       ELSE Stored(k[unixFile[f]].page[p])

LEMMA ViewHeld ==
  ASSUME NEW t, NEW b, NEW k, NEW f, NEW p, Distinct(t), Allocates(k[unixFile[f]], p),
         NEW i \in Frames, Held(t, f, p, i)
  PROVE  View(t, b, k, f, p) =
           IF t[i].dirty \/ k[unixFile[f]].page[p] \in Value THEN Stored(b[i]) ELSE "blank"
<1>1. \A j \in Frames : Held(t, f, p, j) => j = i
  BY DEF Held, Distinct
<1>2. (CHOOSE j \in Frames : Held(t, f, p, j)) = i
  BY <1>1
<1>. QED BY <1>2 DEF View

LEMMA ViewFree ==
  ASSUME NEW t, NEW b, NEW k, NEW f, NEW p, Allocates(k[unixFile[f]], p),
         \A i \in Frames : ~Held(t, f, p, i)
  PROVE  View(t, b, k, f, p) = Stored(k[unixFile[f]].page[p])
BY DEF View

LEMMA ViewGone ==
  ASSUME NEW t, NEW b, NEW k, NEW f, NEW p, ~Allocates(k[unixFile[f]], p)
  PROVE  View(t, b, k, f, p) = "gone"
BY DEF View

LEMMA StoredFacts ==
  /\ \A c : Stored(c) \in Store!Content /\ Stored(c) # "gone"
  /\ \A c : c \in Value => Stored(c) = c
  /\ \A c : c \notin Value => Stored(c) = "blank"
  /\ \A c : Stored(c) \in Value => Stored(c) = c
BY StoreAssumption DEF Stored, Store!Content

LEMMA ViewRange ==
  ASSUME NEW t, NEW b, NEW k, NEW f, NEW p
  PROVE  /\ View(t, b, k, f, p) \in Store!Content \cup {"gone"}
         /\ View(t, b, k, f, p) # "gone" <=> Allocates(k[unixFile[f]], p)
<1>1. "blank" \in Store!Content /\ "blank" # "gone"
  BY DEF Store!Content
<1>. QED BY <1>1, StoredFacts DEF View

LEMMA PageOfIsView ==
  ASSUME process # "exited", NEW f, NEW p
  PROVE  PageOf(f, p) = View(bufTable, bufPool, disk, f, p)
BY DEF PageOf, PageIn, View, HeldBy, Held

LEMMA NextPageOfIsView ==
  ASSUME process' # "exited", unixFile' = unixFile, NEW f, NEW p
  PROVE  PageOf(f, p)' = View(bufTable', bufPool', disk', f, p)
BY DEF PageOf, PageIn, View, HeldBy, Held, Allocates

LEMMA PageOfAtEnd ==
  ASSUME process' = "exited", unixFile' = unixFile, NEW f, NEW p
  PROVE  PageOf(f, p)' = IF Allocates(disk'[unixFile[f]], p)
                         THEN Stored(disk'[unixFile[f]].page[p]) ELSE "gone"
BY DEF PageOf, PageIn

(* Nothing is seen of a change that leaves the frame of a page, what it    *)
(* holds and what the disk holds; under a dirty frame the disk may change. *)
LEMMA SameView ==
  ASSUME NEW t, NEW b, NEW k, NEW u, NEW c, NEW x, NEW f, NEW p, Distinct(t), Distinct(u),
         Allocates(x[unixFile[f]], p) <=> Allocates(k[unixFile[f]], p),
         \A i \in Frames : Held(u, f, p, i) <=> Held(t, f, p, i),
         \A i \in Frames : Held(t, f, p, i) => u[i].dirty = t[i].dirty /\ c[i] = b[i],
         \/ ~Allocates(k[unixFile[f]], p)
         \/ x[unixFile[f]].page[p] = k[unixFile[f]].page[p]
         \/ \E i \in Frames : Held(t, f, p, i) /\ t[i].dirty
  PROVE  View(u, c, x, f, p) = View(t, b, k, f, p)
<1>1. CASE ~Allocates(k[unixFile[f]], p)
  BY <1>1, ViewGone
<1>2. CASE Allocates(k[unixFile[f]], p) /\ \A i \in Frames : ~Held(t, f, p, i)
  BY <1>2, ViewFree
<1>3. ASSUME Allocates(k[unixFile[f]], p), NEW i \in Frames, Held(t, f, p, i)
      PROVE  View(u, c, x, f, p) = View(t, b, k, f, p)
  <2>1. View(t, b, k, f, p) =
          IF t[i].dirty \/ k[unixFile[f]].page[p] \in Value THEN Stored(b[i]) ELSE "blank"
    BY <1>3, ViewHeld
  <2>2. View(u, c, x, f, p) =
          IF u[i].dirty \/ x[unixFile[f]].page[p] \in Value THEN Stored(c[i]) ELSE "blank"
    BY <1>3, ViewHeld
  <2>3. t[i].dirty \/ x[unixFile[f]].page[p] = k[unixFile[f]].page[p]
    BY <1>3 DEF Held, Distinct
  <2>. QED BY <1>3, <2>1, <2>2, <2>3
<1>. QED BY <1>1, <1>2, <1>3

LEMMA HeldHolds ==
  ASSUME NEW L \in SUBSET File, CoherentInv(L), NEW i \in Frames, bufTable[i].valid,
         bufTable[i].dirty \/ bufTable[i].file \in L, NEW f \in L, NEW p
  PROVE  Holds(i, unixFile[f], p) <=> Held(bufTable, f, p, i)
<1>1. unixFile[f] # NULL
  BY LiveOpen, NullFacts
<1>. QED BY <1>1, TargetSound DEF Holds, Held, CoherentInv, UnixFileSound

(* Nothing is seen of allocBuf: a dirty victim is written, and a clean one *)
(* holds what is on disk.                                                  *)
LEMMA EvictedView ==
  ASSUME NEW L \in SUBSET File, CleanInv(L), NoStale(L), WellBehaved, NEW e \in AllocBufResults,
         NEW f \in L, NEW p \in Page
  PROVE  View(e.table, bufPool, e.disk, f, p) = View(bufTable, bufPool, disk, f, p)
<1>. DEFINE n == unixFile[f]
<1>0. CoherentInv(L) /\ n \in Inode /\ Distinct(bufTable) /\ Distinct(e.table)
  BY EvictedCoherent DEF CleanInv, CoherentInv, UnixFileSound, Coherent
<1>1. PICK v \in Frames :
        /\ e.frame = v /\ ~e.table[v].valid
        /\ bufTable[v].valid => bufTable[v].pinCnt = 0
        /\ \A i \in Frames \ {v} : SameBut(bufTable[i], e.table[i])
        /\ Allocates(e.disk[n], p) <=> Allocates(disk[n], p)
        /\ e.disk[n].page[p] = IF MustWrite(v) /\ Holds(v, n, p)
                               THEN bufPool[v] ELSE disk[n].page[p]
  BY <1>0, EvictedPages
<1>2. CASE Held(bufTable, f, p, v)
  <2>1. bufTable[v].valid /\ Holds(v, n, p) /\ Allocates(disk[n], p)
    BY <1>0, <1>2, TargetSound DEF Held, Holds
  <2>2. \A i \in Frames : ~Held(e.table, f, p, i)
    BY <1>0, <1>1, <1>2 DEF Held, SameBut, Distinct
  <2>3. View(e.table, bufPool, e.disk, f, p) = Stored(e.disk[n].page[p])
    BY <1>1, <2>1, <2>2, ViewFree
  <2>4. View(bufTable, bufPool, disk, f, p) =
          IF bufTable[v].dirty \/ disk[n].page[p] \in Value THEN Stored(bufPool[v]) ELSE "blank"
    BY <1>0, <1>2, <2>1, ViewHeld
  <2>5. bufTable[v].dirty \/ disk[n].page[p] \notin Value \/ bufPool[v] = disk[n].page[p]
    BY <1>1, <1>2, <2>1 DEF CleanInv, CleanMatch, PageUnder, Held
  <2>. QED BY <1>1, <2>1, <2>3, <2>4, <2>5, StoredFacts DEF MustWrite
<1>3. CASE ~Held(bufTable, f, p, v)
  <2>1. ~(MustWrite(v) /\ Holds(v, n, p))
    BY <1>0, <1>3, HeldHolds DEF MustWrite
  <2>2. \A i \in Frames : Held(e.table, f, p, i) <=> Held(bufTable, f, p, i)
    BY <1>1, <1>3 DEF Held, SameBut
  <2>3. \A i \in Frames : Held(bufTable, f, p, i) => e.table[i].dirty = bufTable[i].dirty
    BY <1>1, <1>3 DEF Held, SameBut
  <2>. QED BY <1>0, <1>1, <2>1, <2>2, <2>3, SameView
<1>. QED BY <1>2, <1>3

LEMMA ExceededView ==
  ASSUME NEW L \in SUBSET File, CleanInv(L), NEW op \in Ops, Exceeded(op), NEW f \in L, NEW p \in Page
  PROVE  View(bufTable', bufPool', disk', f, p) = View(bufTable, bufPool, disk, f, p)
<1>1. \A i \in Frames : SameBut(bufTable[i], bufTable'[i])
  BY SweptSame DEF Exceeded, CleanInv, CoherentInv, Coherent
<1>2. Distinct(bufTable) /\ Distinct(bufTable') /\ UNCHANGED <<bufPool, disk>>
  BY ExceededCoherent DEF CleanInv, CoherentInv, Coherent, Exceeded
<1>3. \A i \in Frames : /\ Held(bufTable', f, p, i) <=> Held(bufTable, f, p, i)
                        /\ bufTable'[i].dirty = bufTable[i].dirty
  BY <1>1 DEF Held, SameBut
<1>. QED BY <1>2, <1>3, SameView

-----------------------------------------------------------------------------
(* The steps of PageStore in terms of View, for the files of L.            *)

Seen(f, p) == View(bufTable, bufPool, disk, f, p)
NextSeen(f, p) == View(bufTable', bufPool', disk', f, p)

SameSeen(L) == \A f \in L, p \in Page : NextSeen(f, p) = Seen(f, p)

MovedSeen(L, g, q, c) ==
  \A f \in L, p \in Page :
    NextSeen(f, p) = IF f = g /\ p = q THEN c ELSE Seen(f, p)

Gave(op, f, p) == ret'.op = op /\ ret'.data # NULL /\ ret'.file = f /\ ret'.pageNo = p

ReadSeen(L, f, p) ==
  /\ Gave("readPage", f, p) /\ Seen(f, p) # "gone"
  /\ Seen(f, p) \in Value => ret'.data = Seen(f, p)
  /\ SameSeen(L)

AllocateSeen(L, f, p) ==
  Gave("allocPage", f, p) /\ Seen(f, p) = "gone" /\ MovedSeen(L, f, p, "blank")

WriteSeen(L, f, p, c) ==
  /\ ret'.op = "writePage" \/ (ret'.op = "unPinPage" /\ Seen(f, p) = "blank")
  /\ Seen(f, p) # "gone" /\ MovedSeen(L, f, p, c)

DisposeSeen(L, f, p, c) ==
  ret'.op = "disposePage" /\ Seen(f, p) # "gone" /\ MovedSeen(L, f, p, c)

StoreEffect(L) ==
  \/ ret'.data = NULL /\ SameSeen(L)
  \/ \E f \in L, p \in Page :
       \/ ReadSeen(L, f, p) \/ AllocateSeen(L, f, p)
       \/ \E c \in Store!Content : WriteSeen(L, f, p, c)
       \/ \E c \in Store!Content \cup {"gone"} : DisposeSeen(L, f, p, c)

LEMMA ToRead ==
  ASSUME NEW L, SameSeen(L), NEW f \in L, NEW p \in Page, NEW c, c # NULL,
         ret' = PageReply("readPage", f, p, c),
         Seen(f, p) # "gone", Seen(f, p) \in Value => c = Seen(f, p)
  PROVE  StoreEffect(L)
<1>1. /\ ret'.op = "readPage" /\ ret'.data = c /\ ret'.file = f /\ ret'.pageNo = p
  BY DEF PageReply
<1>. QED BY <1>1 DEF StoreEffect, ReadSeen, Gave

LEMMA ToAllocate ==
  ASSUME NEW L, NEW f \in L, NEW p \in Page, NEW c, c # NULL, MovedSeen(L, f, p, "blank"),
         ret' = PageReply("allocPage", f, p, c), Seen(f, p) = "gone"
  PROVE  StoreEffect(L)
<1>1. /\ ret'.op = "allocPage" /\ ret'.data = c /\ ret'.file = f /\ ret'.pageNo = p
  BY DEF PageReply
<1>. QED BY <1>1 DEF StoreEffect, AllocateSeen, Gave

-----------------------------------------------------------------------------
(* Each call is a step of PageStore. *)

LEMMA NoData ==
  \A op, s : Reply(op, s).data = NULL /\ \A f, p : CallReply(op, s, f, p).data = NULL
BY DEF Reply, CallReply

(* A free frame takes page p of file f: that page is now read from it.     *)
LEMMA SetUpView ==
  ASSUME NEW t, NEW k, NEW v \in Frames, ~t[v].valid,
         NEW f, NEW p, Allocates(k[unixFile[f]], p),
         Distinct(t), \A i \in Frames : ~Held(t, f, p, i),
         NEW b, NEW c, \A i \in Frames \ {v} : c[i] = b[i],
         NEW u, u[v] = SetDesc(f, p), \A i \in Frames \ {v} : u[i] = t[i],
         NEW g, NEW q
  PROVE  View(u, c, k, g, q) =
           IF g = f /\ q = p
           THEN IF k[unixFile[f]].page[p] \in Value THEN Stored(c[v]) ELSE "blank"
           ELSE View(t, b, k, g, q)
<1>1. u[v].valid /\ u[v].file = f /\ u[v].pageNo = p /\ ~u[v].dirty
  BY DEF SetDesc
<1>2. Distinct(u)
  BY <1>1 DEF Distinct, Held
<1>3. CASE g = f /\ q = p
  <2>1. Held(u, f, p, v)
    BY <1>1 DEF Held
  <2>2. View(u, c, k, f, p) =
          IF u[v].dirty \/ k[unixFile[f]].page[p] \in Value THEN Stored(c[v]) ELSE "blank"
    BY <1>2, <2>1, ViewHeld
  <2>. QED BY <1>1, <1>3, <2>2
<1>4. CASE ~(g = f /\ q = p)
  <2>1. \A i \in Frames : Held(u, g, q, i) <=> Held(t, g, q, i)
    BY <1>1, <1>4 DEF Held
  <2>2. \A i \in Frames : Held(t, g, q, i) => u[i].dirty = t[i].dirty /\ c[i] = b[i]
    BY <1>1 DEF Held
  <2>3. View(u, c, k, g, q) = View(t, b, k, g, q)
    BY <1>2, <2>1, <2>2, SameView
  <2>. QED BY <1>4, <2>3
<1>. QED BY <1>3, <1>4

LEMMA ReadHitStep ==
  ASSUME NEW L \in SUBSET File, CleanInv(L), NEW f \in L, NEW p \in 0 .. MaxPage, ReadHit(f, p)
  PROVE  StoreEffect(L)
<1>0. /\ CoherentInv(L) /\ PoolTypeOK /\ Coherent(bufTable, bufMap, disk, L)
      /\ Distinct(bufTable) /\ bufTable \in TableType
  BY DEF CleanInv, CoherentInv, Coherent
<1>1. PICK i \in Frames :
        /\ LookupAt(bufMap, f, p, i)
        /\ bufTable' = [bufTable EXCEPT ![i].pinCnt = @ + 1]
        /\ ret' = PageReply("readPage", f, p, bufPool[i])
        /\ UNCHANGED <<bufPool, disk>>
  BY DEF ReadHit
<1>2. Held(bufTable, f, p, i)
  BY <1>0, <1>1, NullFacts, EntryEq DEF LookupAt, Coherent, Mirrors, Held
<1>3. p \in Page /\ Allocates(disk[unixFile[f]], p)
  BY <1>0, <1>2, TargetSound DEF Held
<1>4. \A j \in Frames :
        /\ bufTable'[j].valid = bufTable[j].valid /\ bufTable'[j].file = bufTable[j].file
        /\ bufTable'[j].pageNo = bufTable[j].pageNo /\ bufTable'[j].dirty = bufTable[j].dirty
  BY <1>0, <1>1 DEF TableType, BufDesc
<1>5. SameSeen(L)
  <2>1. Distinct(bufTable')
    BY <1>0, <1>4 DEF Distinct
  <2>2. ASSUME NEW g \in L, NEW q \in Page
        PROVE  NextSeen(g, q) = Seen(g, q)
    <3>1. \A j \in Frames : Held(bufTable', g, q, j) <=> Held(bufTable, g, q, j)
      BY <1>4 DEF Held
    <3>2. View(bufTable', bufPool, disk, g, q) = View(bufTable, bufPool, disk, g, q)
      BY <1>0, <1>4, <2>1, <3>1, SameView
    <3>. QED BY <1>1, <3>2 DEF Seen, NextSeen
  <2>. QED BY <2>2 DEF SameSeen
<1>6. Seen(f, p) = IF bufTable[i].dirty \/ disk[unixFile[f]].page[p] \in Value
                   THEN Stored(bufPool[i]) ELSE "blank"
  BY <1>0, <1>2, <1>3, ViewHeld DEF Seen
<1>7. bufPool[i] # NULL
  BY <1>0, NullAssumption DEF PoolTypeOK
<1>8. Seen(f, p) # "gone" /\ (Seen(f, p) \in Value => bufPool[i] = Seen(f, p))
  BY <1>6, StoredFacts, StoreAssumption
<1>. QED BY <1>1, <1>3, <1>5, <1>7, <1>8, ToRead

LEMMA ReadMissStep ==
  ASSUME NEW L \in SUBSET File, CleanInv(L), NoStale(L), WellBehaved, NEW f \in L, NEW p \in 0 .. MaxPage,
         NEW e \in AllocBufResults, LookupFails(bufMap, f, p), MayRead(f, p), ReadInto(f, p, e)
  PROVE  StoreEffect(L)
<1>. DEFINE d == e.disk[unixFile[f]]
<1>0. CoherentInv(L) /\ PoolTypeOK /\ f \in File /\ unixFile[f] \in Inode
  BY DEF CleanInv, CoherentInv, UnixFileSound
<1>1. /\ e \in ResultType /\ Coherent(e.table, e.map, e.disk, L) /\ ~e.table[e.frame].valid
      /\ d.numPages = disk[unixFile[f]].numPages /\ LookupFails(e.map, f, p)
      /\ d \in File_ /\ FreeListSound(d) /\ disk' = e.disk
  BY <1>0, EvictedCoherent DEF Coherent, ReadInto
<1>2. \A g \in L, q \in Page : View(e.table, bufPool, e.disk, g, q) = Seen(g, q)
  BY EvictedView DEF Seen
<1>3. CASE /\ ReadSucceeds(d, p)
           /\ SetUp(e, f, p)
           /\ bufPool' = [bufPool EXCEPT ![e.frame] = d.page[p]]
           /\ ret' = SetUpReply(e, "readPage", f, p, d.page[p])
  <2>1. p \in Page /\ Allocates(d, p) /\ d.page[p] \in Content
    BY <1>1, <1>3 DEF ReadSucceeds, Allocates, MayRead, WellBehaved, File_
  <2>2. \A i \in Frames : ~Held(e.table, f, p, i)
    BY <1>1, NotBuffered DEF Held
  <2>3. ret' = PageReply("readPage", f, p, d.page[p])
    <3>1. e.map[e.frame] = NoEntry
      BY <1>1 DEF Coherent, Mirrors, ResultType
    <3>. QED BY <1>3, <3>1 DEF SetUpReply, InsertFails
  <2>4. Seen(f, p) = Stored(d.page[p])
    BY <1>0, <1>2, <2>1, <2>2, ViewFree
  <2>5. /\ bufPool'[e.frame] = d.page[p]
        /\ \A i \in Frames \ {e.frame} : bufPool'[i] = bufPool[i]
    BY <1>0, <1>1, <1>3 DEF PoolTypeOK, ResultType
  <2>6. /\ bufTable'[e.frame] = SetDesc(f, p)
        /\ \A i \in Frames \ {e.frame} : bufTable'[i] = e.table[i]
    BY <1>1, <1>3 DEF SetUp, ResultType, TableType
  <2>7. ASSUME NEW g \in L, NEW q \in Page
        PROVE  NextSeen(g, q) = Seen(g, q)
    <3>1. NextSeen(g, q) =
            IF g = f /\ q = p
            THEN IF d.page[p] \in Value THEN Stored(bufPool'[e.frame]) ELSE "blank"
            ELSE View(e.table, bufPool, e.disk, g, q)
      BY <1>0, <1>1, <2>1, <2>2, <2>5, <2>6, SetUpView DEF NextSeen, Coherent, ResultType
    <3>. QED BY <1>2, <2>4, <2>5, <3>1, StoredFacts
  <2>8. d.page[p] # NULL
    BY <2>1, NullAssumption
  <2>9. Seen(f, p) # "gone" /\ (Seen(f, p) \in Value => d.page[p] = Seen(f, p))
    BY <2>4, StoredFacts
  <2>. QED BY <1>0, <2>1, <2>3, <2>7, <2>8, <2>9, ToRead DEF SameSeen
<1>4. CASE LeaveFree(e) /\ UNCHANGED bufPool /\ ret'.data = NULL
  BY <1>1, <1>2, <1>4 DEF StoreEffect, LeaveFree, SameSeen, NextSeen
<1>5. ~ReadHangs(d, p)
  BY <1>1, SoundListWalked
<1>. QED BY <1>3, <1>4, <1>5, NoData DEF ReadInto

LEMMA ReadPageStep ==
  ASSUME NEW L \in SUBSET File, CleanInv(L), NoStale(L), WellBehaved, NEW f \in L, NEW p \in 0 .. MaxPage,
         ReadPage(f, p)
  PROVE  StoreEffect(L)
<1>1. CASE ReadHit(f, p)
  BY <1>1, ReadHitStep
<1>2. CASE Exceeded("readPage")
  <2>1. SameSeen(L) /\ ret'.data = NULL
    BY <1>2, ExceededView, NoData DEF SameSeen, Seen, NextSeen, Ops, Exceeded
  <2>. QED BY <2>1 DEF StoreEffect
<1>3. ~FrameOutOfRange("readPage")
  BY NoEvictFails DEF CleanInv
<1>. QED BY <1>1, <1>2, <1>3, ReadMissStep DEF ReadPage, ReadMiss

LEMMA AllocIntoStep ==
  ASSUME NEW L \in SUBSET File, CleanInv(L), NoStale(L), WellBehaved, NEW f \in L, NEW e \in AllocBufResults,
         AllocInto(f, e)
  PROVE  StoreEffect(L)
<1>. DEFINE n == unixFile[f]
            d == e.disk[n]
<1>0. CoherentInv(L) /\ PoolTypeOK /\ f \in File /\ n \in Inode /\ UnixFileSound(L)
  BY DEF CleanInv, CoherentInv, UnixFileSound
<1>1. /\ e \in ResultType /\ Coherent(e.table, e.map, e.disk, L) /\ Distinct(e.table)
      /\ ~e.table[e.frame].valid /\ d \in File_ /\ FreeListSound(d) /\ bufPool' = bufPool
  BY <1>0, EvictedCoherent DEF Coherent, AllocInto
<1>2. \A g \in L, q \in Page : View(e.table, bufPool, e.disk, g, q) = Seen(g, q)
  BY EvictedView DEF Seen
(* Pages that were allocated and still are look the same.                  *)
<1>3. ASSUME NEW x, disk' = [e.disk EXCEPT ![n] = x], NEW g \in L, NEW q \in Page,
             g = f => (Allocates(x, q) <=> Allocates(d, q)),
             g = f /\ Allocates(d, q) => x.page[q] = d.page[q]
      PROVE  View(e.table, bufPool, disk', g, q) = Seen(g, q)
  <2>1. unixFile[g] \in Inode /\ (unixFile[g] = n => g = f)
    BY <1>0 DEF UnixFileSound
  <2>2. disk'[unixFile[g]] = IF g = f THEN x ELSE e.disk[unixFile[g]]
    BY <1>1, <1>3, <2>1 DEF ResultType
  <2>3. /\ Allocates(disk'[unixFile[g]], q) <=> Allocates(e.disk[unixFile[g]], q)
        /\ \/ ~Allocates(e.disk[unixFile[g]], q)
           \/ disk'[unixFile[g]].page[q] = e.disk[unixFile[g]].page[q]
    BY <1>3, <2>2
  <2>4. View(e.table, bufPool, disk', g, q) = View(e.table, bufPool, e.disk, g, q)
    BY <1>1, <2>3, SameView
  <2>. QED BY <1>2, <2>4
<1>4. CASE /\ AllocSucceeds(d)
           /\ disk' = [e.disk EXCEPT ![n] = Allocated(d)]
           /\ SetUp(e, f, AllocPageNo(d))
           /\ ret' = SetUpReply(e, "allocPage", f, AllocPageNo(d), bufPool[e.frame])
  <2>. DEFINE p == AllocPageNo(d)
              x == Allocated(d)
  <2>1. /\ p \in Page /\ ~Allocates(d, p) /\ x.page[p] \notin Value
        /\ \A q \in Page : Allocates(x, q) <=> Allocates(d, q) \/ q = p
        /\ \A q \in Page : Allocates(d, q) => x.page[q] = d.page[q]
    BY <1>1, <1>4, AllocatedType, AllocatedSound, AllocatedPages
  <2>2. Seen(f, p) = "gone"
    BY <1>0, <1>2, <2>1, ViewGone
  <2>3. ret' = PageReply("allocPage", f, p, bufPool[e.frame])
    <3>1. e.map[e.frame] = NoEntry
      BY <1>1 DEF Coherent, Mirrors, ResultType
    <3>. QED BY <1>4, <3>1 DEF SetUpReply, InsertFails
  <2>4. bufPool[e.frame] # NULL
    BY <1>0, <1>1, NullAssumption DEF PoolTypeOK, ResultType
  <2>5. disk'[n] = x
    BY <1>0, <1>1, <1>4 DEF ResultType
  <2>6. /\ bufTable'[e.frame] = SetDesc(f, p)
        /\ \A i \in Frames \ {e.frame} : bufTable'[i] = e.table[i]
    BY <1>1, <1>4 DEF SetUp, ResultType, TableType
  <2>7. \A i \in Frames : ~Held(e.table, f, p, i)
    BY <1>1, <2>1 DEF Held, Coherent, Placed
  <2>8. e.frame \in Frames /\ Allocates(disk'[n], p) /\ disk'[n].page[p] \notin Value
    BY <1>1, <2>1, <2>5 DEF ResultType
  <2>9. ASSUME NEW g \in L, NEW q \in Page, ~(g = f /\ q = p)
        PROVE  View(e.table, bufPool, disk', g, q) = Seen(g, q)
    BY <1>3, <1>4, <2>1, <2>9
  <2>10. ASSUME NEW g \in L, NEW q \in Page
         PROVE  NextSeen(g, q) = IF g = f /\ q = p THEN "blank" ELSE Seen(g, q)
    <3>. HIDE DEF p, x, d
    <3>0. Distinct(e.table) /\ ~e.table[e.frame].valid /\ n = unixFile[f]
          /\ \A i \in Frames \ {e.frame} : bufPool'[i] = bufPool[i]
      BY <1>1
    <3>1. View(bufTable', bufPool', disk', g, q) =
            IF g = f /\ q = p
            THEN IF disk'[n].page[p] \in Value THEN Stored(bufPool'[e.frame]) ELSE "blank"
            ELSE View(e.table, bufPool, disk', g, q)
      BY <1>0, <2>1, <2>6, <2>7, <2>8, <3>0, SetUpView
    <3>. QED BY <2>8, <2>9, <3>1 DEF NextSeen
  <2>. QED BY <1>0, <2>1, <2>2, <2>3, <2>4, <2>10, ToAllocate DEF MovedSeen
<1>5. ASSUME NEW x \in AllocFailures(d), disk' = [e.disk EXCEPT ![n] = x], LeaveFree(e),
             ret' = Reply("allocPage", "UNIXERR")
      PROVE  StoreEffect(L)
  <2>1. /\ \A q \in Page : Allocates(x, q) <=> Allocates(d, q)
        /\ \A q \in Page : Allocates(d, q) => x.page[q] = d.page[q]
    BY <1>1, AllocFailuresSound, AllocFailuresPages
  <2>2. \A g \in L, q \in Page : View(e.table, bufPool, disk', g, q) = Seen(g, q)
    BY <1>3, <1>5, <2>1
  <2>3. SameSeen(L)
    BY <1>1, <1>5, <2>2 DEF LeaveFree, SameSeen, NextSeen
  <2>. QED BY <1>5, <2>3, NoData DEF StoreEffect
<1>. QED BY <1>4, <1>5 DEF AllocInto

LEMMA AllocPageStep ==
  ASSUME NEW L \in SUBSET File, CleanInv(L), NoStale(L), WellBehaved, NEW f \in L, AllocPage(f)
  PROVE  StoreEffect(L)
<1>1. CASE Exceeded("allocPage")
  <2>1. SameSeen(L) /\ ret'.data = NULL
    BY <1>1, ExceededView, NoData DEF SameSeen, Seen, NextSeen, Ops, Exceeded
  <2>. QED BY <2>1 DEF StoreEffect
<1>2. ~FrameOutOfRange("allocPage")
  BY NoEvictFails DEF CleanInv
<1>. QED BY <1>1, <1>2, AllocIntoStep DEF AllocPage

LEMMA WritePageStep ==
  ASSUME NEW L \in SUBSET File, CleanInv(L), NEW i \in Frames, NEW c \in Value, WritePage(i, c)
  PROVE  StoreEffect(L)
<1>0. /\ CoherentInv(L) /\ PoolTypeOK /\ Distinct(bufTable)
      /\ UNCHANGED <<bufTable, disk>> /\ bufPool' = [bufPool EXCEPT ![i] = c]
  BY DEF CleanInv, CoherentInv, Coherent, WritePage
<1>1. bufTable[i].valid
  BY DEF WritePage, CleanInv, CoherentInv, Coherent, DescsSound, ClearDesc
<1>. DEFINE f == bufTable[i].file
            p == bufTable[i].pageNo
<1>2. /\ p \in Page /\ Held(bufTable, f, p, i)
      /\ f \in L => Allocates(disk[unixFile[f]], p)
  BY <1>0, <1>1, TargetSound DEF Held
<1>3. ret' = Reply("writePage", "OK") /\ ret'.op = "writePage"
  BY DEF WritePage, Reply
<1>4. bufPool'[i] = c /\ \A j \in Frames \ {i} : bufPool'[j] = bufPool[j]
  BY <1>0 DEF PoolTypeOK
<1>5. ASSUME NEW g \in L, NEW q \in Page, ~(g = f /\ q = p)
      PROVE  NextSeen(g, q) = Seen(g, q)
  <2>. HIDE DEF f, p
  <2>1. \A j \in Frames : Held(bufTable, g, q, j) => bufPool'[j] = bufPool[j]
    BY <1>2, <1>4, <1>5 DEF Held
  <2>2. Distinct(bufTable)
    BY <1>0
  <2>3. View(bufTable, bufPool', disk, g, q) = View(bufTable, bufPool, disk, g, q)
    BY <2>1, <2>2, SameView
  <2>. QED BY <1>0, <2>3 DEF Seen, NextSeen
<1>6. CASE f \notin L
  <2>1. SameSeen(L)
    BY <1>5, <1>6 DEF SameSeen
  <2>. QED BY <1>3, <2>1, NoData DEF StoreEffect
<1>7. CASE f \in L
  <2>1. /\ Seen(f, p) = IF bufTable[i].dirty \/ disk[unixFile[f]].page[p] \in Value
                        THEN Stored(bufPool[i]) ELSE "blank"
        /\ NextSeen(f, p) = IF bufTable[i].dirty \/ disk[unixFile[f]].page[p] \in Value
                            THEN Stored(bufPool'[i]) ELSE "blank"
    BY <1>0, <1>2, <1>7, ViewHeld DEF Seen, NextSeen
  <2>. HIDE DEF f, p
  <2>2. CASE bufTable[i].dirty \/ disk[unixFile[f]].page[p] \in Value
    <3>1. NextSeen(f, p) = c /\ c \in Store!Content
      BY <1>4, <2>1, <2>2, StoredFacts DEF Store!Content
    <3>2. MovedSeen(L, f, p, c)
      BY <1>5, <3>1 DEF MovedSeen
    <3>3. Seen(f, p) # "gone"
      BY <2>1, StoredFacts
    <3>. QED BY <1>2, <1>3, <1>7, <3>1, <3>2, <3>3 DEF StoreEffect, WriteSeen
  <2>3. CASE ~(bufTable[i].dirty \/ disk[unixFile[f]].page[p] \in Value)
    <3>1. SameSeen(L)
      BY <1>5, <2>1, <2>3 DEF SameSeen
    <3>. QED BY <1>3, <3>1, NoData DEF StoreEffect
  <2>. QED BY <2>2, <2>3
<1>. QED BY <1>6, <1>7

LEMMA UnPinStep ==
  ASSUME NEW L \in SUBSET File, CleanInv(L), NEW f \in L, NEW p \in 0 .. MaxPage,
         NEW dirty \in BOOLEAN, NEW love \in BOOLEAN, UnPinPage(f, p, dirty, love)
  PROVE  StoreEffect(L)
<1>0. /\ CoherentInv(L) /\ PoolTypeOK /\ Coherent(bufTable, bufMap, disk, L)
      /\ Distinct(bufTable) /\ UNCHANGED <<bufPool, disk>>
  BY DEF CleanInv, CoherentInv, Coherent, UnPinPage
<1>1. CASE UNCHANGED bufTable /\ ret'.data = NULL
  BY <1>0, <1>1 DEF StoreEffect, SameSeen, Seen, NextSeen
<1>2. ASSUME NEW i \in Frames, LookupAt(bufMap, f, p, i), LosePin(i, dirty, love)
      PROVE  StoreEffect(L)
  <2>1. Held(bufTable, f, p, i)
    BY <1>0, <1>2, NullFacts, EntryEq DEF LookupAt, Coherent, Mirrors, Held
  <2>2. p \in Page /\ Allocates(disk[unixFile[f]], p)
    BY <1>0, <2>1, TargetSound DEF Held
  <2>3. ret' = Reply("unPinPage", "OK") /\ ret'.op = "unPinPage"
    BY <1>2 DEF LosePin, Reply
  <2>4. /\ \A j \in Frames \ {i} : bufTable'[j] = bufTable[j]
        /\ bufTable'[i].dirty = (bufTable[i].dirty \/ dirty)
        /\ \A j \in Frames : /\ bufTable'[j].valid = bufTable[j].valid
                             /\ bufTable'[j].file = bufTable[j].file
                             /\ bufTable'[j].pageNo = bufTable[j].pageNo
    BY <1>0, <1>2 DEF LosePin, PoolTypeOK, BufDesc
  <2>5. /\ \A g, q : \A j \in Frames : Held(bufTable', g, q, j) <=> Held(bufTable, g, q, j)
        /\ Distinct(bufTable) /\ Distinct(bufTable')
    BY <1>0, <2>4 DEF Held, Distinct
  <2>6. ASSUME NEW g \in L, NEW q \in Page, ~(g = f /\ q = p)
        PROVE  NextSeen(g, q) = Seen(g, q)
    <3>1. \A j \in Frames : Held(bufTable, g, q, j) => bufTable'[j].dirty = bufTable[j].dirty
      BY <2>1, <2>4, <2>6 DEF Held
    <3>2. View(bufTable', bufPool, disk, g, q) = View(bufTable, bufPool, disk, g, q)
      BY <2>5, <3>1, SameView
    <3>. QED BY <1>0, <3>2 DEF Seen, NextSeen
  <2>7. Seen(f, p) = IF bufTable[i].dirty \/ disk[unixFile[f]].page[p] \in Value
                     THEN Stored(bufPool[i]) ELSE "blank"
    BY <2>1, <2>2, <2>5, ViewHeld DEF Seen
  <2>8. NextSeen(f, p) = IF bufTable'[i].dirty \/ disk[unixFile[f]].page[p] \in Value
                         THEN Stored(bufPool[i]) ELSE "blank"
    <3>1. View(bufTable', bufPool, disk, f, p) =
            IF bufTable'[i].dirty \/ disk[unixFile[f]].page[p] \in Value
            THEN Stored(bufPool[i]) ELSE "blank"
      BY <2>1, <2>2, <2>5, ViewHeld
    <3>. QED BY <1>0, <3>1 DEF NextSeen
  <2>9. CASE NextSeen(f, p) = Seen(f, p)
    BY <2>3, <2>6, <2>9, NoData DEF StoreEffect, SameSeen
  <2>10. CASE NextSeen(f, p) # Seen(f, p)
    <3>1. Seen(f, p) = "blank" /\ NextSeen(f, p) = Stored(bufPool[i])
      BY <2>4, <2>7, <2>8, <2>10
    <3>2. MovedSeen(L, f, p, Stored(bufPool[i]))
      BY <2>6, <3>1 DEF MovedSeen
    <3>. QED BY <2>2, <2>3, <3>1, <3>2, StoredFacts DEF StoreEffect, WriteSeen
  <2>. QED BY <2>9, <2>10
<1>. QED BY <1>1, <1>2, NoData DEF UnPinPage, UnPinFound, NotPinned, UnPinNotFound

(* Nothing is seen of a scan: what is written is what was read before.     *)
LEMMA WriteBackView ==
  ASSUME NEW L \in SUBSET File, CleanInv(L), NEW S \in SUBSET Frames, NEW fault, NEW W \in Writes(S, fault),
         NEW f \in L, NEW p \in Page
  PROVE  View(bufTable, bufPool, WrittenBack(W), f, p) = Seen(f, p)
<1>. DEFINE n == unixFile[f]
            x == WrittenBack(W)
<1>0. CoherentInv(L) /\ Distinct(bufTable) /\ n \in Inode
  BY DEF CleanInv, CoherentInv, Coherent, UnixFileSound
<1>1. /\ \A i \in W : i \in Frames /\ bufTable[i].valid /\ bufTable[i].dirty
      /\ (\A i \in W : ~Holds(i, n, p)) => x[n].page[p] = disk[n].page[p]
      /\ Allocates(x[n], p) <=> Allocates(disk[n], p)
  <2>1. \A i \in W : i \in Frames
    BY DEF Writes, Writable
  <2>2. \A i \in W : bufTable[i].valid /\ bufTable[i].dirty
    BY <1>0, WrittenBackPages
  <2>. HIDE DEF n
  <2>3. /\ (\A i \in W : ~Holds(i, n, p)) => WrittenBack(W)[n].page[p] = disk[n].page[p]
        /\ Allocates(WrittenBack(W)[n], p) <=> Allocates(disk[n], p)
    BY <1>0, WrittenBackPages
  <2>. QED BY <2>1, <2>2, <2>3
<1>. HIDE DEF x
<1>2. x[n].page[p] = disk[n].page[p] \/ \E i \in Frames : Held(bufTable, f, p, i) /\ bufTable[i].dirty
  BY <1>0, <1>1, HeldHolds
<1>3. View(bufTable, bufPool, x, f, p) = View(bufTable, bufPool, disk, f, p)
  BY <1>0, <1>1, <1>2, SameView
<1>. QED BY <1>3 DEF Seen, x

(* A scan of every frame in which no write fails leaves on disk what       *)
(* clients would have read.                                                *)
DiskPage(d, p) == IF Allocates(d, p) THEN Stored(d.page[p]) ELSE "gone"

LEMMA FlushedView ==
  ASSUME NEW L \in SUBSET File, CleanInv(L), NEW fault, Writable(Frames) \in Writes(Frames, fault),
         \A i \in Frames : bufTable[i].pinCnt > 0 => Reported(i),
         NEW f \in L, NEW p \in Page
  PROVE  Seen(f, p) = DiskPage(WrittenBack(Writable(Frames))[unixFile[f]], p)
<1>. DEFINE W == Writable(Frames)
            n == unixFile[f]
            x == WrittenBack(W)[n]
<1>0. CoherentInv(L) /\ Distinct(bufTable) /\ PoolTypeOK /\ n \in Inode
  BY LiveOpen DEF CleanInv, CoherentInv, Coherent
<1>1. \A i \in W : i \in Frames
  BY DEF Writable
<1>2. /\ \A i \in W : bufTable[i].valid /\ bufTable[i].dirty /\ bufTable[i].file \in L
      /\ \A i \in W : Holds(i, n, p) => x.page[p] = bufPool[i]
      /\ (\A i \in W : ~Holds(i, n, p)) => x.page[p] = disk[n].page[p]
      /\ Allocates(x, p) <=> Allocates(disk[n], p)
  <2>. HIDE DEF n, W
  <2>1. \A i \in W : bufTable[i].valid /\ bufTable[i].dirty /\ bufTable[i].file \in L
    BY <1>0, WrittenBackPages DEF W
  <2>2. /\ \A i \in W : Holds(i, n, p) => WrittenBack(W)[n].page[p] = bufPool[i]
        /\ (\A i \in W : ~Holds(i, n, p)) => WrittenBack(W)[n].page[p] = disk[n].page[p]
        /\ Allocates(WrittenBack(W)[n], p) <=> Allocates(disk[n], p)
    BY <1>0, WrittenBackPages DEF W
  <2>. QED BY <2>1, <2>2
<1>. HIDE DEF x, W, n
<1>3. CASE ~Allocates(disk[n], p)
  BY <1>2, <1>3, ViewGone DEF Seen, DiskPage, n, x, W
<1>4. CASE Allocates(disk[n], p) /\ \A i \in Frames : ~Held(bufTable, f, p, i)
  <2>1. \A i \in W : ~Holds(i, n, p)
    BY <1>0, <1>1, <1>2, <1>4, HeldHolds DEF n
  <2>2. Seen(f, p) = Stored(disk[n].page[p])
    BY <1>4, ViewFree DEF Seen, n
  <2>. QED BY <1>2, <1>4, <2>1, <2>2 DEF DiskPage, x, n, W
<1>5. ASSUME Allocates(disk[n], p), NEW i \in Frames, Held(bufTable, f, p, i)
      PROVE  Seen(f, p) = DiskPage(x, p)
  <2>1. Seen(f, p) = IF bufTable[i].dirty \/ disk[n].page[p] \in Value
                     THEN Stored(bufPool[i]) ELSE "blank"
    BY <1>0, <1>5, ViewHeld DEF Seen, n
  <2>2. bufTable[i].valid /\ bufTable[i].file = f /\ bufTable[i].pageNo = p
    BY <1>5 DEF Held
  <2>3. Holds(i, n, p)
    BY <1>0, <1>5, <2>2, HeldHolds DEF n
  <2>4. TargetOf(i) = n /\ n # NULL
    BY <1>0, <2>3, NullFacts DEF Holds
  <2>5. CASE bufTable[i].dirty
    <3>1. i \in W
      BY <2>4, <2>5 DEF W, Writable
    <3>. QED BY <1>2, <1>5, <2>1, <2>3, <2>5, <3>1 DEF DiskPage
  <2>6. CASE ~bufTable[i].dirty
    <3>1. \A j \in W : ~Holds(j, n, p)
      BY <1>0, <1>1, <1>2, <2>2, <2>3, <2>6, HoldsOnce
    <3>2. disk[n].page[p] \in Value => bufPool[i] = disk[n].page[p]
      <4>1. CASE bufTable[i].pinCnt > 0
        BY <2>2, <2>4, <2>6, <4>1 DEF Reported, OnDisk
      <4>2. CASE bufTable[i].pinCnt = 0
        BY <2>2, <2>4, <2>6, <4>2 DEF CleanInv, CleanMatch, PageUnder, n
      <4>. QED BY <1>0, <4>1, <4>2 DEF PoolTypeOK, BufDesc
    <3>. QED BY <1>2, <1>5, <2>1, <2>6, <3>1, <3>2, StoredFacts DEF DiskPage
  <2>. QED BY <2>5, <2>6
<1>. QED BY <1>3, <1>4, <1>5 DEF x, n, W

LEMMA FlushFileStep ==
  ASSUME NEW L \in SUBSET File, CleanInv(L), NEW f \in L, FlushFile(f)
  PROVE  StoreEffect(L)
<1>1. Scanned \in SUBSET Frames
  BY DEF Scanned
<1>2. ~Stray(Scanned)
  BY <1>1, NoStray DEF CleanInv
<1>3. SameSeen(L)
  BY <1>1, <1>2, WriteBackView DEF FlushFile, WriteScanned, SameSeen, NextSeen
<1>. QED BY <1>2, <1>3, NoData DEF StoreEffect, FlushFile

LEMMA DisposePageStep ==
  ASSUME NEW L \in SUBSET File, CleanInv(L), WellBehaved, NEW f \in L, NEW p \in 0 .. MaxPage,
         DisposePage(f, p)
  PROVE  StoreEffect(L)
<1>. DEFINE n == unixFile[f]
            d == disk[n]
<1>0. /\ CoherentInv(L) /\ f \in File /\ n \in Inode /\ UnixFileSound(L) /\ bufPool' = bufPool
      /\ disk \in [Inode -> File_] /\ d \in File_ /\ FreeListSound(d)
      /\ Coherent(bufTable, bufMap, disk, L)
  BY LiveOpen DEF CleanInv, CoherentInv, UnixFileSound, Coherent, DisposePage
<1>1. CASE DisposeRefused(f, p)
  <2>1. SameSeen(L)
    BY <1>0, <1>1 DEF DisposeRefused, SameSeen, Seen, NextSeen
  <2>. QED BY <1>1, <2>1, NoData DEF StoreEffect, DisposeRefused
<1>2. CASE DisposeTried(f, p)
  <2>1. p \in Page /\ p \notin FreeList(d)
    BY <1>2, MaxPageAssumption DEF DisposeTried, Page, DisposePage, MayDispose, WellBehaved
  <2>a. ret' \in {CallReply("disposePage", "OK", f, p), Reply("disposePage", "UNIXERR")}
    BY <1>2 DEF DisposeTried
  <2>b. ret'.op = "disposePage" /\ ret'.data = NULL
    <3>1. /\ Reply("disposePage", "UNIXERR").op = "disposePage"
          /\ Reply("disposePage", "UNIXERR").data = NULL
      BY DEF Reply
    <3>2. /\ CallReply("disposePage", "OK", f, p).op = "disposePage"
          /\ CallReply("disposePage", "OK", f, p).data = NULL
      BY DEF Reply, CallReply
    <3>. QED BY <2>a, <3>1, <3>2
  <2>2. \/ DisposeRejected(d, p) /\ disk' = disk
        \/ /\ ~DisposeRejected(d, p)
           /\ \/ disk' = [disk EXCEPT ![n] = Disposed(d, p)]
              \/ \E x \in DisposeFailures(d, p) : disk' = [disk EXCEPT ![n] = x]
    BY <1>2 DEF DisposeTried
  <2>3. ~DisposeRejected(d, p) => Allocates(d, p)
    BY <1>0, <2>1 DEF DisposeRejected, Allocates, File_, Page
  (* The disk: only page p of the file changes, or goes.                   *)
  <2>4. ASSUME NEW g \in L, NEW q \in Page, ~(g = f /\ q = p)
        PROVE  /\ Allocates(disk'[unixFile[g]], q) <=> Allocates(disk[unixFile[g]], q)
               /\ disk'[unixFile[g]].page[q] = disk[unixFile[g]].page[q]
    <3>1. CASE disk'[unixFile[g]] = disk[unixFile[g]]
      BY <3>1
    <3>2. CASE g = f
      <4>1. CASE ~DisposeRejected(d, p) /\ disk'[n] = Disposed(d, p)
        BY <1>0, <2>1, <2>3, <2>4, <3>2, <4>1, DisposedSound, DisposedPages
      <4>2. ASSUME NEW x \in DisposeFailures(d, p), disk'[n] = x
            PROVE  /\ Allocates(disk'[n], q) <=> Allocates(d, q)
                   /\ disk'[n].page[q] = d.page[q]
        <5>1. q # p
          BY <2>4, <3>2
        <5>2. x.page[q] = d.page[q]
          BY <1>0, <2>1, <5>1, DisposedPages
        <5>3. Allocates(x, q) <=> Allocates(d, q)
          BY <1>0, <2>1, DisposeFailuresSound
        <5>. QED BY <4>2, <5>2, <5>3
      <4>. QED BY <1>0, <2>2, <3>1, <3>2, <4>1, <4>2
    <3>3. CASE g # f
      BY <1>0, <2>2, <3>1, <3>3 DEF UnixFileSound
    <3>. QED BY <3>2, <3>3
  (* The pool: only the frame of the page goes.                            *)
  <2>5. \A i \in Frames : IF Held(bufTable, f, p, i)
                          THEN ~bufTable'[i].valid ELSE bufTable'[i] = bufTable[i]
    BY <1>0, <1>2, <2>1, DisposedFrames DEF Held
  <2>6. Distinct(bufTable) /\ Distinct(bufTable')
    BY <1>0, DisposePageCoherent DEF Coherent
  <2>7. ASSUME NEW g \in L, NEW q \in Page, ~(g = f /\ q = p)
        PROVE  NextSeen(g, q) = Seen(g, q)
    <3>1. \A i \in Frames :
            /\ Held(bufTable', g, q, i) <=> Held(bufTable, g, q, i)
            /\ Held(bufTable, g, q, i) => bufTable'[i].dirty = bufTable[i].dirty
      BY <2>5, <2>7 DEF Held
    <3>2. View(bufTable', bufPool, disk', g, q) = View(bufTable, bufPool, disk, g, q)
      BY <2>4, <2>6, <2>7, <3>1, SameView
    <3>. QED BY <1>0, <3>2 DEF Seen, NextSeen
  <2>. HIDE DEF n, d
  <2>8. CASE Seen(f, p) # "gone"
    <3>1. MovedSeen(L, f, p, NextSeen(f, p))
      BY <2>7 DEF MovedSeen
    <3>2. NextSeen(f, p) \in Store!Content \cup {"gone"}
      BY ViewRange DEF NextSeen
    <3>. QED BY <1>0, <2>1, <2>b, <2>8, <3>1, <3>2 DEF StoreEffect, DisposeSeen
  <2>9. CASE Seen(f, p) = "gone"
    <3>1. ~Allocates(d, p)
      BY <2>9, ViewRange DEF Seen, d, n
    <3>2. disk' = disk
      BY <2>2, <2>3, <3>1
    <3>3. NextSeen(f, p) = "gone"
      BY <3>1, <3>2, ViewGone DEF NextSeen, d, n
    <3>. QED BY <2>b, <2>7, <2>9, <3>3 DEF StoreEffect, SameSeen
  <2>. QED BY <2>8, <2>9
<1>. QED BY <1>1, <1>2 DEF DisposePage

(* Every call on an open file is a step of PageStore for the open files.   *)
LEMMA CallEffect ==
  ASSUME NEW L \in SUBSET File, CleanInv(L), WellBehaved, NEW f \in L,
         (NoStale(L) /\ Fetch(f)) \/ Release(f)
  PROVE  StoreEffect(L)
<1>1. ASSUME NoStale(L), NEW p \in 0 .. MaxPage, ReadPage(f, p) PROVE StoreEffect(L)
  BY <1>1, ReadPageStep
<1>2. ASSUME NoStale(L), AllocPage(f) PROVE StoreEffect(L)
  BY <1>2, AllocPageStep
<1>3. ASSUME NEW p \in 0 .. MaxPage, DisposePage(f, p) PROVE StoreEffect(L)
  BY <1>3, DisposePageStep
<1>4. ASSUME NEW p \in 0 .. MaxPage, NEW dirty \in BOOLEAN, NEW love \in Hints,
             UnPinPage(f, p, dirty, love)
      PROVE  StoreEffect(L)
  BY <1>4, UnPinStep, HintsAssumption
<1>. QED BY <1>1, <1>2, <1>3, <1>4, FlushFileStep DEF Fetch, Release

(* No call touches the Unix file of an object that is not open.            *)
Untouched(L) ==
  \A n \in Inode : (\A g \in L : unixFile[g] # n) =>
    \A p \in Page : /\ Allocates(disk'[n], p) <=> Allocates(disk[n], p)
                    /\ disk'[n].page[p] = disk[n].page[p]

LEMMA EvictedElsewhere ==
  ASSUME NEW L \in SUBSET File, CoherentInv(L), NoStale(L), WellBehaved,
         NEW e \in AllocBufResults, NEW n \in Inode, \A g \in L : unixFile[g] # n, NEW p \in Page
  PROVE  /\ Allocates(e.disk[n], p) <=> Allocates(disk[n], p)
         /\ e.disk[n].page[p] = disk[n].page[p]
<1>1. PICK v \in Frames :
        /\ Allocates(e.disk[n], p) <=> Allocates(disk[n], p)
        /\ e.disk[n].page[p] = IF MustWrite(v) /\ Holds(v, n, p)
                               THEN bufPool[v] ELSE disk[n].page[p]
  BY EvictedPages
<1>2. ~(MustWrite(v) /\ Holds(v, n, p))
  BY TargetSound DEF MustWrite, Holds, NoStale
<1>. QED BY <1>1, <1>2

LEMMA WrittenElsewhere ==
  ASSUME NEW L \in SUBSET File, CoherentInv(L), NEW S \in SUBSET Frames, NEW fault,
         NEW W \in Writes(S, fault), disk' = WrittenBack(W)
  PROVE  Untouched(L)
<1>1. ASSUME NEW n \in Inode, \A g \in L : unixFile[g] # n, NEW p \in Page
      PROVE  /\ Allocates(disk'[n], p) <=> Allocates(disk[n], p)
             /\ disk'[n].page[p] = disk[n].page[p]
  <2>1. \A i \in W : i \in Frames /\ bufTable[i].valid /\ bufTable[i].file \in L
    BY WritesLive
  <2>2. \A i \in W : ~Holds(i, n, p)
    BY <1>1, <2>1, TargetSound DEF Holds
  <2>3. \A q \in Page :
          /\ \A i \in W : Holds(i, n, q) => WrittenBack(W)[n].page[q] = bufPool[i]
          /\ (\A i \in W : ~Holds(i, n, q)) => WrittenBack(W)[n].page[q] = disk[n].page[q]
          /\ Allocates(WrittenBack(W)[n], q) <=> Allocates(disk[n], q)
    BY WrittenBackPages
  <2>. QED BY <2>2, <2>3
<1>. QED BY <1>1 DEF Untouched

LEMMA CallElsewhere ==
  ASSUME NEW L \in SUBSET File, CoherentInv(L), WellBehaved, NEW f \in L,
         (NoStale(L) /\ Fetch(f)) \/ Release(f)
  PROVE  Untouched(L)
<1>0. unixFile[f] \in Inode /\ disk \in [Inode -> File_]
  BY LiveOpen DEF CoherentInv, PoolTypeOK
<1>1. ASSUME NEW e \in AllocBufResults, NoStale(L),
             \A n \in Inode : n # unixFile[f] => disk'[n] = e.disk[n]
      PROVE  Untouched(L)
  BY <1>1, EvictedElsewhere DEF Untouched
<1>2. ASSUME \A n \in Inode : n # unixFile[f] => disk'[n] = disk[n]
      PROVE  Untouched(L)
  BY <1>2 DEF Untouched
<1>3. ASSUME NoStale(L), NEW p \in 0 .. MaxPage, ReadPage(f, p) PROVE Untouched(L)
  BY <1>1, <1>2, <1>3, NoEvictFails
     DEF ReadPage, ReadHit, ReadMiss, Exceeded, ReadInto
<1>4. ASSUME NoStale(L), AllocPage(f) PROVE Untouched(L)
  <2>2. ASSUME NEW e \in AllocBufResults, AllocInto(f, e)
        PROVE  Untouched(L)
    <3>1. e.disk \in [Inode -> File_]
      BY <1>4, EvictedCoherent DEF ResultType
    <3>2. \A n \in Inode : n # unixFile[f] => disk'[n] = e.disk[n]
      BY <2>2, <3>1 DEF AllocInto
    <3>. QED BY <1>1, <1>4, <3>2
  <2>. QED BY <1>2, <1>4, <2>2, NoEvictFails DEF AllocPage, Exceeded
<1>5. ASSUME FlushFile(f) PROVE Untouched(L)
  <2>1. Scanned \in SUBSET Frames
    BY DEF Scanned
  <2>. QED BY <1>5, <2>1, NoStray, WrittenElsewhere DEF FlushFile, WriteScanned
<1>6. ASSUME NEW p \in 0 .. MaxPage, DisposePage(f, p) PROVE Untouched(L)
  <2>1. \A n \in Inode : n # unixFile[f] => disk'[n] = disk[n]
    BY <1>0, <1>6 DEF DisposePage, DisposeRefused, DisposeTried
  <2>. QED BY <1>2, <2>1
<1>7. ASSUME NEW p \in 0 .. MaxPage, NEW dirty \in BOOLEAN, NEW love \in Hints,
             UnPinPage(f, p, dirty, love)
      PROVE  Untouched(L)
  BY <1>2, <1>7 DEF UnPinPage
<1>. QED BY <1>3, <1>4, <1>5, <1>6, <1>7 DEF Fetch, Release

-----------------------------------------------------------------------------
(* The refinement mapping. *)

storeBar == [f \in File |-> [p \in Page |-> PageOf(f, p)]]

InCall == process # "exited" /\ process' # "exited" /\ unixFile' = unixFile

LEMMA StoreSame ==
  ASSUME InCall, SameSeen(File)
  PROVE  UNCHANGED storeBar
BY PageOfIsView, NextPageOfIsView DEF InCall, SameSeen, Seen, NextSeen, storeBar

LEMMA StoreMoved ==
  ASSUME InCall, NEW g \in File, NEW q \in Page, NEW c, MovedSeen(File, g, q, c)
  PROVE  storeBar' = [storeBar EXCEPT ![g][q] = c]
<1>1. \A f \in File, p \in Page :
        PageOf(f, p)' = IF f = g /\ p = q THEN c ELSE PageOf(f, p)
  BY PageOfIsView, NextPageOfIsView DEF InCall, MovedSeen, Seen, NextSeen
<1>2. storeBar' = [f \in File |-> [p \in Page |-> PageOf(f, p)']]
  BY DEF storeBar
<1>. QED BY <1>1, <1>2 DEF storeBar

LEMMA EffectStep ==
  ASSUME InCall, StoreEffect(File)
  PROVE  Store!Next
<1>1. ASSUME SameSeen(File), ret'.data = NULL
      PROVE  Store!Next
  BY <1>1, StoreSame DEF storeBar, Store!Next, Store!Other
<1>2. ASSUME NEW f \in File, NEW p \in Page
      PROVE  storeBar[f][p] = Seen(f, p)
  BY PageOfIsView DEF InCall, Seen, storeBar
<1>3. ASSUME NEW f \in File, NEW p \in Page, ReadSeen(File, f, p)
      PROVE  Store!Next
  <2>1. UNCHANGED storeBar
    BY <1>3, StoreSame DEF ReadSeen
  <2>2. Store!Read(f, p)
    BY <1>2, <1>3, <2>1 DEF ReadSeen, Gave, storeBar, Store!Read, Store!Gives
  <2>. QED BY <2>2 DEF Store!Next
<1>4. ASSUME NEW f \in File, NEW p \in Page, AllocateSeen(File, f, p)
      PROVE  Store!Next
  <2>1. storeBar' = [storeBar EXCEPT ![f][p] = "blank"]
    BY <1>4, StoreMoved DEF AllocateSeen
  <2>2. Store!Allocate(f, p)
    BY <1>2, <1>4, <2>1 DEF AllocateSeen, Gave, storeBar, Store!Allocate, Store!Gives
  <2>. QED BY <2>2 DEF Store!Next
<1>5. ASSUME NEW f \in File, NEW p \in Page, NEW c \in Store!Content, WriteSeen(File, f, p, c)
      PROVE  Store!Next
  <2>1. storeBar' = [storeBar EXCEPT ![f][p] = c]
    BY <1>5, StoreMoved DEF WriteSeen
  <2>2. Store!Write(f, p, c)
    BY <1>2, <1>5, <2>1 DEF WriteSeen, storeBar, Store!Write
  <2>. QED BY <2>2 DEF Store!Next
<1>6. ASSUME NEW f \in File, NEW p \in Page, NEW c \in Store!Content \cup {"gone"},
             DisposeSeen(File, f, p, c)
      PROVE  Store!Next
  <2>1. storeBar' = [storeBar EXCEPT ![f][p] = c]
    BY <1>6, StoreMoved DEF DisposeSeen
  <2>2. Store!Dispose(f, p)
    BY <1>2, <1>6, <2>1 DEF DisposeSeen, storeBar, Store!Dispose
  <2>. QED BY <2>2 DEF Store!Next
<1>. QED BY <1>1, <1>3, <1>4, <1>5, <1>6 DEF StoreEffect

(* ~BufMgr leaves on disk what clients would have read.                    *)
LEMMA DeleteStep ==
  ASSUME CleanInv(File), "shutdown" \notin Faults, process = "running",
         unixFile' = unixFile, Delete
  PROVE  Store!Next
<1>1. /\ disk' = WrittenBack(Writable(Frames)) /\ process' = "exited" /\ ret' = Reply("delete", "OK")
      /\ \A i \in Frames : bufTable[i].pinCnt > 0 => Reported(i)
      /\ Writable(Frames) \in Writes(Frames, "shutdown")
  BY NoStray DEF Delete, Writes, CleanInv
<1>2. ASSUME NEW f \in File, NEW p \in Page
      PROVE  PageOf(f, p)' = PageOf(f, p)
  <2>1. Seen(f, p) = DiskPage(WrittenBack(Writable(Frames))[unixFile[f]], p)
    BY <1>1, FlushedView
  <2>. QED BY <1>1, <2>1, PageOfIsView, PageOfAtEnd DEF Seen, DiskPage
<1>3. UNCHANGED storeBar
  BY <1>2 DEF storeBar
<1>. QED BY <1>1, <1>3, NoData DEF storeBar, Store!Next, Store!Other

(* Every step of the pool is a step of PageStore.                          *)
LEMMA StoreStep ==
  ASSUME CleanInv(File), WellBehaved, "shutdown" \notin Faults, Next
  PROVE  Store!Next
<1>0. process = "running" /\ unixFile' = unixFile
  BY CallKeepsFiles DEF Next, Call, ClearBufStats, Delete, Crash, WritePage
<1>1. CASE Delete
  BY <1>0, <1>1, DeleteStep
<1>2. CASE ~Delete
  <2>0. InCall
    BY <1>0, <1>2, ProcessSteps DEF InCall, CleanInv
  <2>1. ASSUME NEW f \in OpenFile, Fetch(f) \/ Release(f)
        PROVE  StoreEffect(File)
    BY <2>1, AllLive, CallEffect DEF CleanInv
  <2>2. ASSUME NEW i \in Frames, NEW c \in Value, WritePage(i, c)
        PROVE  StoreEffect(File)
    BY <2>2, WritePageStep
  <2>3. ASSUME ClearBufStats
        PROVE  StoreEffect(File)
    <3>1. SameSeen(File)
      BY <2>3 DEF ClearBufStats, SameSeen, Seen, NextSeen
    <3>. QED BY <2>3, <3>1, NoData DEF StoreEffect, ClearBufStats
  <2>4. StoreEffect(File)
    BY <1>2, <2>1, <2>2, <2>3 DEF Next, Call
  <2>. QED BY <2>0, <2>4, EffectStep
<1>. QED BY <1>1, <1>2

(* The pool implements PageStore for every number of frames, files, pages  *)
(* and values and a disk that may fail everything but the write of a       *)
(* victim (WellBehaved) and of ~BufMgr: a page that is read is the page    *)
(* last written, whatever was evicted, written back or refused in between, *)
(* and after ~BufMgr the disk holds what the clients would have read.      *)
THEOREM PoolImplementsStore ==
  ASSUME WellBehaved, "shutdown" \notin Faults
  PROVE  Spec => ImplementsPageStore
<1>1. Init => Store!Init
  <2>. SUFFICES ASSUME Init PROVE Store!Init
    OBVIOUS
  <2>1. \A f \in File : disk[unixFile[f]].numPages = 1
    BY DEF Init, NewFile
  <2>2. \A f \in File, p \in Page : PageOf(f, p) = "gone"
    BY <2>1 DEF PageOf, PageIn, Allocates, Page
  <2>. QED BY <2>2, NoData DEF Init, NewBufMgr, Store!Init
<1>2. CleanInv(File) /\ [Next]_vars => [Store!Next]_(Store!storeVars)
  <2>1. CASE UNCHANGED vars
    BY <2>1 DEF vars, Store!storeVars, PageOf, PageIn, HeldBy
  <2>. QED BY <2>1, StoreStep
<1>. QED BY <1>1, <1>2, CleanAlways, PTL DEF Spec, ImplementsPageStore, Store!Spec
=============================================================================
