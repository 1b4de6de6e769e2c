---------------------------- MODULE BufMgrProof -----------------------------
(***************************************************************************)
(* Theorems about BufMgr, for every pool size, file set and disk size: its *)
(* type, and that the pool stays coherent, on which rests what the         *)
(* replacement of pages may do.  First come lemmas about what the          *)
(* operations of class File do to a file and to its free list.             *)
(***************************************************************************)
EXTENDS BufMgr, FiniteSetTheorems, TLAPS

-----------------------------------------------------------------------------
(* Files: what the operations of class File keep of the form of a file. *)

LEMMA LinkOfType ==
  ASSUME NEW c
  PROVE  LinkOf(c) \in Link
  BY MaxPageAssumption DEF LinkOf, Link, Nil, Garbage

LEMMA WrittenType ==
  ASSUME NEW d \in File_, NEW p, NEW c \in Content
  PROVE  Written(d, p, c) \in File_
  BY DEF Written, File_

LEMMA AllocatedType ==
  ASSUME NEW d \in File_, AllocSucceeds(d)
  PROVE  AllocPageNo(d) \in Page /\ Allocated(d) \in File_
<1>1. CASE Extends(d)
  <2>1. d.numPages \in Page /\ d.numPages + 1 \in 1 .. MaxPage + 1
    BY <1>1, MaxPageAssumption DEF AllocSucceeds, AllocPageNo, Page
  <2>2. 0 \in Content
    BY MaxPageAssumption DEF Content, Link, Nil, Garbage
  <2>. QED BY <1>1, <2>1, <2>2 DEF AllocPageNo, Allocated, Extended, File_
<1>2. CASE ~Extends(d)
  BY <1>2, LinkOfType DEF AllocSucceeds, AllocPageNo, Allocated, Popped, File_
<1>. QED BY <1>1, <1>2

LEMMA AllocFailuresType ==
  ASSUME NEW d \in File_, NEW x \in AllocFailures(d)
  PROVE  x \in File_
<1>1. 0 \in Content
  BY MaxPageAssumption DEF Content, Link, Nil, Garbage
<1>. QED BY <1>1 DEF AllocFailures, File_

LEMMA DisposedType ==
  ASSUME NEW d \in File_, NEW p \in Page
  PROVE  /\ Disposed(d, p) \in File_
         /\ \A x \in DisposeFailures(d, p) : x \in File_
<1>1. p \in Link /\ d.nextFree \in Content
  BY MaxPageAssumption DEF File_, Content, Link, Page, Nil, Garbage
<1>. QED BY <1>1 DEF Disposed, DisposeFailures, File_

-----------------------------------------------------------------------------
(* The free list as the least set that holds the chain of links. *)

LEMMA FreeListLeast ==
  ASSUME NEW d, NEW S \in SUBSET Page, HoldsChain(d, S)
  PROVE  FreeList(d) \subseteq S
BY DEF FreeList

LEMMA FreeListHoldsChain ==
  ASSUME NEW d
  PROVE  /\ FreeList(d) \in SUBSET Page
         /\ HoldsChain(d, FreeList(d))
BY DEF FreeList, HoldsChain

LEMMA LinkOfLink ==
  ASSUME NEW c \in Page \cup {Nil}
  PROVE  LinkOf(c) = c
BY MaxPageAssumption DEF LinkOf, Link, Page, Nil, Garbage

LEMMA NilNotPage == Nil \notin Page
BY DEF Nil, Page

(* A change of pages that are not free touches no link of the list.        *)
LEMMA RewrittenSound ==
  ASSUME NEW d \in File_, NEW x \in File_, FreeListSound(d),
         x.nextFree = d.nextFree, x.numPages >= d.numPages,
         \A q \in FreeList(d) : x.page[q] = d.page[q]
  PROVE  FreeList(x) = FreeList(d) /\ FreeListSound(x)
<1>1. HoldsChain(x, FreeList(d))
  BY FreeListHoldsChain DEF HoldsChain
<1>2. FreeList(x) = FreeList(d)
  <2>1. FreeList(x) \subseteq FreeList(d)
    BY <1>1, FreeListHoldsChain, FreeListLeast
  <2>2. HoldsChain(d, FreeList(x))
    BY <2>1, FreeListHoldsChain DEF HoldsChain
  <2>. QED BY <2>1, <2>2, FreeListHoldsChain, FreeListLeast
<1>3. \A p \in FreeList(d) : p < x.numPages
  BY FreeListHoldsChain DEF FreeListSound, File_, Page
<1>. QED BY <1>2, <1>3 DEF FreeListSound

(* A sound list ends.  If no link were nil, the links would lead from the  *)
(* pages of the list, all to different ones, to the list without its first *)
(* page: a finite set would have as many members as a proper subset.       *)
LEMMA SoundListEnds ==
  ASSUME NEW d \in File_, FreeListSound(d)
  PROVE  WalkEnds(d)
<1>. SUFFICES ASSUME ~WalkEnds(d) PROVE FALSE
  OBVIOUS
<1>. DEFINE h == d.nextFree
            L == FreeList(d)
            next == [p \in L |-> d.page[p]]
<1>1. h \in L /\ L \in SUBSET Page
  BY FreeListHoldsChain DEF WalkEnds, FreeListSound, HoldsChain
<1>2. ASSUME NEW p \in L
      PROVE  d.page[p] \in L \ {h}
  <2>1. d.page[p] \in Page \cup {Nil} /\ LinkOf(d.page[p]) = d.page[p]
    BY LinkOfLink DEF FreeListSound
  <2>2. d.page[p] \in L
    BY <2>1, FreeListHoldsChain DEF WalkEnds, HoldsChain
  <2>. QED BY <1>1, <2>2, NilNotPage DEF FreeListSound
<1>3. next \in Injection(L, L \ {h})
  <2>1. next \in [L -> L \ {h}]
    BY <1>2
  <2>2. \A p, q \in L : next[p] = next[q] => p = q
    BY <1>1, <1>2, NilNotPage DEF FreeListSound
  <2>. QED BY <2>1, <2>2 DEF Injection, IsInjective
<1>4. IsFiniteSet(L) /\ IsFiniteSet(L \ {h}) /\ Cardinality(L) \in Nat
      /\ Cardinality(L \ {h}) = Cardinality(L) - 1
  <2>1. IsFiniteSet(Page)
    BY MaxPageAssumption, FS_Interval DEF Page
  <2>2. IsFiniteSet(L)
    BY <1>1, <2>1, FS_Subset
  <2>. QED BY <1>1, <2>2, FS_RemoveElement, FS_CardinalityType
<1>5. Cardinality(L) <= Cardinality(L \ {h})
  <2>. HIDE DEF next
  <2>. QED BY <1>3, <1>4, FS_Injection
<1>. QED BY <1>4, <1>5

(* So the loop of onFreeList ends, and never beyond the end of the file.   *)
LEMMA SoundListWalked ==
  ASSUME NEW d \in File_, FreeListSound(d)
  PROVE  ~WalkFails(d) /\ \A p : ~ReadHangs(d, p)
<1>1. Garbage \notin Page \cup {Nil}
  BY MaxPageAssumption DEF Garbage, Page, Nil
<1>2. ~WalkFails(d)
  BY <1>1, LinkOfLink DEF WalkFails, FreeListSound
<1>. QED BY <1>2, SoundListEnds DEF ReadHangs

(* allocatePage takes the page it returns off the list.                    *)
LEMMA PoppedSound ==
  ASSUME NEW d \in File_, FreeListSound(d), ~Extends(d), AllocSucceeds(d)
  PROVE  /\ FreeList(Popped(d)) = FreeList(d) \ {d.nextFree}
         /\ FreeListSound(Popped(d))
         /\ d.nextFree \in FreeList(d)
<1>. DEFINE h == d.nextFree
            x == Popped(d)
            S == FreeList(d) \ {h}
<1>1. h \in Page /\ h \in FreeList(d) /\ h # Nil
  BY FreeListHoldsChain, NilNotPage DEF AllocSucceeds, AllocPageNo, HoldsChain
<1>2. \A q \in FreeList(d) : LinkOf(d.page[q]) = d.page[q]
  BY LinkOfLink DEF FreeListSound
<1>3. x.nextFree = d.page[h] /\ x.page = d.page /\ x.numPages = d.numPages
  BY <1>1, <1>2 DEF Popped, File_
<1>4. \A q \in FreeList(d) : d.page[q] # h
  BY <1>1 DEF FreeListSound
<1>5. HoldsChain(x, S)
  BY <1>1, <1>2, <1>3, <1>4, FreeListHoldsChain DEF HoldsChain
<1>6. FreeList(x) = S
  <2>1. FreeList(x) \subseteq S
    BY <1>5, FreeListHoldsChain, FreeListLeast
  <2>2. HoldsChain(d, FreeList(x) \cup {h})
    BY <1>1, <1>2, <1>3, FreeListHoldsChain DEF HoldsChain
  <2>3. FreeList(d) \subseteq FreeList(x) \cup {h}
    BY <1>1, <2>2, FreeListHoldsChain, FreeListLeast
  <2>. QED BY <2>1, <2>3
<1>7. \A q \in S : d.page[q] = d.page[h] => d.page[h] = Nil
  BY <1>1 DEF FreeListSound
<1>8. FreeListSound(x)
  BY <1>1, <1>3, <1>6, <1>7 DEF FreeListSound
<1>. QED BY <1>1, <1>6, <1>8

LEMMA EmptyFreeList ==
  ASSUME NEW d, d.nextFree = Nil
  PROVE  FreeList(d) = {} /\ FreeListSound(d)
<1>1. HoldsChain(d, {})
  BY NilNotPage DEF HoldsChain
<1>2. FreeList(d) = {}
  BY <1>1, FreeListLeast
<1>. QED BY <1>2 DEF FreeListSound

(* Every outcome of allocatePage: the page returned was free or beyond the *)
(* end, and is now neither.                                                *)
LEMMA AllocatedSound ==
  ASSUME NEW d \in File_, FreeListSound(d), AllocSucceeds(d)
  PROVE  /\ FreeListSound(Allocated(d))
         /\ ~Allocates(d, AllocPageNo(d))
         /\ \A p \in Page : Allocates(Allocated(d), p) <=> Allocates(d, p) \/ p = AllocPageNo(d)
<1>1. CASE Extends(d)
  <2>1. FreeList(d) = {} /\ d.numPages \in Page
    BY <1>1, EmptyFreeList DEF Extends, AllocSucceeds, AllocPageNo
  <2>2. Allocated(d).nextFree = Nil /\ Allocated(d).numPages = d.numPages + 1
    BY <1>1 DEF Extends, Allocated, Extended, File_
  <2>3. FreeList(Allocated(d)) = {} /\ FreeListSound(Allocated(d))
    BY <2>2, EmptyFreeList
  <2>. QED BY <1>1, <2>1, <2>2, <2>3 DEF Allocates, AllocPageNo, Page
<1>2. CASE ~Extends(d)
  <2>1. Allocated(d) = Popped(d) /\ AllocPageNo(d) = d.nextFree
    BY <1>2 DEF Allocated, AllocPageNo
  <2>2. Popped(d).numPages = d.numPages
    BY DEF Popped, File_
  <2>3. d.nextFree < d.numPages
    BY <1>2, PoppedSound DEF FreeListSound
  <2>. QED BY <1>2, <2>1, <2>2, <2>3, PoppedSound DEF Allocates
<1>. QED BY <1>1, <1>2

LEMMA AllocFailuresSound ==
  ASSUME NEW d \in File_, FreeListSound(d), NEW x \in AllocFailures(d)
  PROVE  /\ FreeListSound(x)
         /\ \A p \in Page : Allocates(x, p) <=> Allocates(d, p)
<1>1. CASE x = d
  BY <1>1
<1>2. CASE Extends(d) /\ x = [d EXCEPT !.page[d.numPages] = 0]
  <2>1. d.nextFree = Nil /\ x.nextFree = Nil /\ x.numPages = d.numPages
    BY <1>2 DEF Extends, File_
  <2>2. FreeList(d) = {} /\ FreeList(x) = {} /\ FreeListSound(x)
    BY <2>1, EmptyFreeList
  <2>. QED BY <2>1, <2>2 DEF Allocates
<1>. QED BY <1>1, <1>2 DEF AllocFailures

(* disposePage puts a page on the list, once.                              *)
LEMMA DisposedSound ==
  ASSUME NEW d \in File_, FreeListSound(d), NEW p \in Page, Allocates(d, p)
  PROVE  /\ FreeListSound(Disposed(d, p))
         /\ \A q \in Page : Allocates(Disposed(d, p), q) <=> Allocates(d, q) /\ q # p
<1>. DEFINE x == Disposed(d, p)
            S == FreeList(d) \cup {p}
<1>1. /\ x.nextFree = p /\ x.numPages = d.numPages
      /\ x.page[p] = d.nextFree
      /\ \A q \in Page \ {p} : x.page[q] = d.page[q]
  BY DEF Disposed, File_
<1>2. FreeList(d) \in SUBSET Page /\ p \notin FreeList(d) /\ p < d.numPages
  BY FreeListHoldsChain DEF Allocates
<1>3. LinkOf(d.nextFree) = d.nextFree
  BY LinkOfLink DEF FreeListSound
<1>4. HoldsChain(x, S)
  BY <1>1, <1>2, <1>3, FreeListHoldsChain DEF HoldsChain
<1>5. FreeList(x) = S
  <2>1. FreeList(x) \subseteq S
    BY <1>2, <1>4, FreeListLeast
  <2>2. p \in FreeList(x)
    BY <1>1, FreeListHoldsChain DEF HoldsChain
  <2>3. HoldsChain(d, FreeList(x) \cap FreeList(d))
    BY <1>1, <1>2, <1>3, <2>2, FreeListHoldsChain DEF HoldsChain
  <2>4. FreeList(d) \subseteq FreeList(x)
    BY <1>2, <2>3, FreeListLeast
  <2>. QED BY <2>1, <2>2, <2>4
<1>6. d.nextFree # p /\ \A q \in FreeList(d) : d.page[q] # p
  <2>1. d.nextFree \in Page => d.nextFree \in FreeList(d)
    BY FreeListHoldsChain DEF HoldsChain
  <2>2. \A q \in FreeList(d) : d.page[q] \in Page => d.page[q] \in FreeList(d)
    BY FreeListHoldsChain, LinkOfLink DEF HoldsChain, FreeListSound
  <2>. QED BY <1>2, <2>1, <2>2
<1>7. FreeListSound(x)
  <2>1. x.nextFree \in Page \cup {Nil}
    BY <1>1
  <2>2. \A q \in S : q < x.numPages /\ x.page[q] \in Page \cup {Nil}
    BY <1>1, <1>2 DEF FreeListSound
  <2>3. \A q \in S : x.page[q] # x.nextFree
    BY <1>1, <1>2, <1>6
  <2>4. \A q, r \in S : x.page[q] = x.page[r] => q = r \/ x.page[q] = Nil
    BY <1>1, <1>2 DEF FreeListSound
  <2>. QED BY <1>5, <2>1, <2>2, <2>3, <2>4 DEF FreeListSound
<1>. QED BY <1>1, <1>5, <1>7 DEF Allocates

LEMMA DisposeFailuresSound ==
  ASSUME NEW d \in File_, FreeListSound(d), NEW p \in Page, p \notin FreeList(d),
         NEW x \in DisposeFailures(d, p)
  PROVE  /\ FreeListSound(x)
         /\ \A q \in Page : Allocates(x, q) <=> Allocates(d, q)
<1>1. CASE x = d
  BY <1>1
<1>2. CASE x = [d EXCEPT !.page[p] = d.nextFree]
  <2>1. x \in File_
    BY DisposedType
  <2>2. /\ x.nextFree = d.nextFree /\ x.numPages = d.numPages
        /\ \A q \in FreeList(d) : x.page[q] = d.page[q]
    BY <1>2, FreeListHoldsChain DEF File_
  <2>3. x.numPages >= d.numPages
    BY <2>1, <2>2 DEF File_
  <2>. QED BY <2>1, <2>2, <2>3, RewrittenSound DEF Allocates
<1>. QED BY <1>1, <1>2 DEF DisposeFailures

(* What allocatePage does to the pages.  The page it returns holds no data *)
(* yet: it is a page of zeros, or still holds a link.                      *)
LEMMA AllocatedPages ==
  ASSUME NEW d \in File_, FreeListSound(d), AllocSucceeds(d)
  PROVE  /\ Allocated(d).page[AllocPageNo(d)] \notin Value
         /\ \A q \in Page : Allocates(d, q) => Allocated(d).page[q] = d.page[q]
<1>0. \A n \in Page \cup {Nil, 0} : n \notin Value
  BY ValueAssumption, MaxPageAssumption DEF Page, Nil
<1>1. CASE Extends(d)
  <2>1. d.numPages \in Page /\ AllocPageNo(d) = d.numPages /\ Allocated(d) = Extended(d)
    BY <1>1 DEF AllocSucceeds, AllocPageNo, Allocated
  <2>2. Extended(d).page = [d.page EXCEPT ![d.numPages] = 0]
    BY DEF Extended, File_
  <2>3. d.page \in [Page -> Content \cup {Absent}]
    BY DEF File_
  <2>4. \A q \in Page : Allocates(d, q) => q # d.numPages
    BY DEF Allocates, Page, File_
  <2>. QED BY <1>0, <2>1, <2>2, <2>3, <2>4
<1>2. CASE ~Extends(d)
  BY <1>0, <1>2, PoppedSound DEF AllocPageNo, Allocated, Popped, FreeListSound, File_
<1>. QED BY <1>1, <1>2

LEMMA AllocFailuresPages ==
  ASSUME NEW d \in File_, NEW x \in AllocFailures(d)
  PROVE  \A q \in Page : Allocates(d, q) => x.page[q] = d.page[q]
<1>1. \A q \in Page : Allocates(d, q) => q # d.numPages
  BY DEF Allocates, Page, File_
<1>2. x = d \/ x = [d EXCEPT !.page[d.numPages] = 0]
  BY DEF AllocFailures
<1>. QED BY <1>1, <1>2 DEF File_

LEMMA DisposedPages ==
  ASSUME NEW d \in File_, NEW p \in Page, NEW q \in Page, q # p
  PROVE  /\ Disposed(d, p).page[q] = d.page[q]
         /\ \A x \in DisposeFailures(d, p) : x.page[q] = d.page[q]
BY DEF Disposed, DisposeFailures, File_

-----------------------------------------------------------------------------
(* The parts of TypeOK, as predicates of one value each. *)

TableType == [Frames -> BufDesc]
MapType == [Frames -> [file : File \cup {NULL}, pageNo : Page \cup {-1}]]
StatsType == [accesses : 0 .. StatMod - 1, diskreads : 0 .. StatMod - 1,
              diskwrites : 0 .. StatMod - 1]
ReplyType == [op : Ops, status : Statuses, file : File \cup {NULL},
              pageNo : Page \cup {-1}, data : Content \cup {NULL}]
Processes == {"running", "exited", "crashed", "hung"}

(* TypeOK without the answer, which DB gives for calls of its own too.     *)
PoolTypeOK ==
  /\ clockHand \in Frames
  /\ bufTable \in [Frames -> BufDesc]
  /\ bufMap \in [Frames -> [file : File \cup {NULL}, pageNo : Page \cup {-1}]]
  /\ bufPool \in [Frames -> Content]
  /\ bufStats \in [accesses : 0 .. StatMod - 1, diskreads : 0 .. StatMod - 1,
                   diskwrites : 0 .. StatMod - 1]
  /\ disk \in [Inode -> File_]
  /\ unixFile \in [File -> Inode \cup {NULL}]

TypedCall ==
  /\ PoolTypeOK'
  /\ ret' \in ReplyType \cup {ret} /\ process' \in Processes \cup {process}

LEMMA TypeParts == TypeOK <=> PoolTypeOK /\ process \in Processes /\ ret \in ReplyType
BY DEF TypeOK, PoolTypeOK, Processes, ReplyType

LEMMA TypeKept ==
  ASSUME TypeOK, TypedCall
  PROVE  TypeOK'
<1>1. TypeOK' <=> PoolTypeOK' /\ process' \in Processes /\ ret' \in ReplyType
  BY DEF TypeOK, PoolTypeOK, Processes, ReplyType
<1>. QED BY <1>1, TypeParts DEF TypedCall

LEMMA DescType ==
  /\ ClearDesc \in BufDesc
  /\ \A f \in File, p \in Page : SetDesc(f, p) \in BufDesc
  /\ \A b \in BufDesc : Unloved(b) \in BufDesc
<1>1. 0 \in 0 .. MaxPin /\ 1 \in 0 .. MaxPin
  BY BoundsAssumption
<1>2. ClearDesc \in BufDesc
  BY <1>1 DEF ClearDesc, BufDesc
<1>3. \A f \in File, p \in Page : SetDesc(f, p) \in BufDesc
  BY <1>1 DEF SetDesc, BufDesc
<1>4. \A b \in BufDesc : Unloved(b) \in BufDesc
  BY DEF Unloved, BufDesc
<1>. QED BY <1>2, <1>3, <1>4

LEMMA CountType ==
  ASSUME NEW a \in Nat, NEW r \in Nat, NEW w \in Nat, PoolTypeOK, Count(a, r, w)
  PROVE  bufStats' \in StatsType
<1>1. \A n \in Nat : n % StatMod \in 0 .. StatMod - 1
  BY BoundsAssumption
<1>2. bufStats.accesses + a \in Nat /\ bufStats.diskreads + r \in Nat
      /\ bufStats.diskwrites + w \in Nat
  BY BoundsAssumption DEF PoolTypeOK
<1>. QED BY <1>1, <1>2 DEF Count, StatsType

LEMMA ReplyTypes ==
  /\ \A op \in Ops, s \in Statuses : Reply(op, s) \in ReplyType
  /\ \A op \in Ops, s \in Statuses, f \in File, p \in Page \cup {-1} :
       CallReply(op, s, f, p) \in ReplyType
  /\ \A op \in Ops, f \in File, p \in Page, c \in Content :
       PageReply(op, f, p, c) \in ReplyType
BY DEF Reply, CallReply, PageReply, ReplyType, Statuses

LEMMA MapOpsType ==
  ASSUME NEW m \in MapType
  PROVE  /\ \A f, p : Remove(m, f, p) \in MapType
         /\ \A f \in File, p \in Page : \A i : Insert(m, f, p, i) \in MapType
BY DEF MapType, Remove, Insert, InsertFails, Entry, NoEntry

LEMMA AdvanceType ==
  ASSUME NEW h \in Frames
  PROVE  Advance(h) \in Frames
BY BufsAssumption DEF Frames, Advance

-----------------------------------------------------------------------------
(* Type correctness of the steps the calls are built from. *)

LEMMA SweptTypes ==
  ASSUME NEW t \in TableType, NEW h, NEW v
  PROVE  SweptTo(t, h, v) \in TableType /\ SweptAll(t) \in TableType
BY DescType DEF SweptTo, SweptAll, TableType

ResultType ==
  [frame : Frames, hand : Frames, table : TableType, map : MapType,
   disk : [Inode -> File_], writes : {0, 1}]

LEMMA AllocBufType ==
  ASSUME PoolTypeOK, NEW e \in AllocBufResults
  PROVE  e \in ResultType
<1>. USE DEF PoolTypeOK
<1>1. bufTable \in TableType /\ bufMap \in MapType
  BY DEF TableType, MapType
<1>2. ASSUME NEW v \in Frames, EvictSucceeds(v)
      PROVE  Evicted(v) \in ResultType
  <2>1. Evicted(v).table \in TableType
    BY <1>1, SweptTypes, DescType DEF Evicted, TableType
  <2>2. Evicted(v).map \in MapType
    BY <1>1, MapOpsType DEF Evicted
  <2>3. Evicted(v).disk \in [Inode -> File_]
    <3>1. CASE MustWrite(v)
      <4>1. TargetOf(v) \in Inode
        BY <1>2, <3>1 DEF EvictSucceeds, TargetOf, TableType, BufDesc
      <4>2. Written(disk[TargetOf(v)], bufTable[v].pageNo, bufPool[v]) \in File_
        BY <4>1, WrittenType
      <4>. QED BY <3>1, <4>1, <4>2 DEF Evicted
    <3>2. CASE ~MustWrite(v)
      BY <3>2 DEF Evicted
    <3>. QED BY <3>1, <3>2
  <2>. QED BY <2>1, <2>2, <2>3 DEF Evicted, ResultType
<1>3. ASSUME NEW v \in Frames, NEW u \in Frames
      PROVE  Unset(v, u) \in ResultType
  BY <1>1, SweptTypes DEF Unset, ResultType
<1>. QED BY <1>2, <1>3 DEF AllocBufResults, Victims

LEMMA ExceededType ==
  ASSUME PoolTypeOK, NEW op \in Ops, Exceeded(op)
  PROVE  TypedCall
<1>1. bufTable' \in TableType
  BY SweptTypes DEF Exceeded, PoolTypeOK, TableType
<1>2. clockHand' \in Frames
  BY AdvanceType DEF Exceeded, PoolTypeOK
<1>3. bufStats' \in StatsType
  BY CountType DEF Exceeded
<1>4. ret' \in ReplyType
  BY ReplyTypes DEF Exceeded, Statuses
<1>. QED BY <1>1, <1>2, <1>3, <1>4 DEF Exceeded, TypedCall, Processes, PoolTypeOK, TableType, StatsType

LEMMA CrashType ==
  ASSUME PoolTypeOK, NEW op \in Ops, Crash(op)
  PROVE  TypedCall
<1>1. ret' \in ReplyType
  BY ReplyTypes DEF Crash, Statuses
<1>. QED BY <1>1 DEF Crash, TypedCall, Processes, PoolTypeOK

LEMMA SetUpType ==
  ASSUME PoolTypeOK, NEW e \in ResultType, NEW f \in File, NEW p \in Page, SetUp(e, f, p)
  PROVE  bufTable' \in TableType /\ bufMap' \in MapType
BY DescType, MapOpsType DEF SetUp, ResultType, TableType

LEMMA SetUpReplyType ==
  ASSUME NEW e, NEW op \in Ops, NEW f \in File, NEW p \in Page, NEW c \in Content
  PROVE  SetUpReply(e, op, f, p, c) \in ReplyType
BY ReplyTypes DEF SetUpReply, Statuses

LEMMA WrittenBackType ==
  ASSUME PoolTypeOK, NEW W
  PROVE  WrittenBack(W) \in [Inode -> File_]
<1>. DEFINE c(n, p) == IF \E i \in Frames : LastCopy(W, n, p, i)
                       THEN bufPool[CHOOSE i \in Frames : LastCopy(W, n, p, i)]
                       ELSE disk[n].page[p]
<1>1. ASSUME NEW n \in Inode, NEW p \in Page
      PROVE  c(n, p) \in Content \cup {Absent}
  BY DEF PoolTypeOK, File_
<1>2. ASSUME NEW n \in Inode
      PROVE  [disk[n] EXCEPT !.page = [p \in Page |-> c(n, p)]] \in File_
  BY <1>1 DEF PoolTypeOK, File_
<1>. QED BY <1>2 DEF WrittenBack

LEMMA WritesCounted ==
  ASSUME NEW S \in SUBSET Frames, NEW fault, NEW W \in Writes(S, fault)
  PROVE  Cardinality(W) \in Nat
<1>1. W \in SUBSET Frames
  BY DEF Writes, Writable
<1>2. IsFiniteSet(Frames)
  BY BufsAssumption, FS_Interval DEF Frames
<1>. QED BY <1>1, <1>2, FS_Subset, FS_CardinalityType

-----------------------------------------------------------------------------
(* Type correctness of the calls. *)

LEMMA ReadPageType ==
  ASSUME PoolTypeOK, NEW f \in OpenFile, NEW p \in 0 .. MaxPage, ReadPage(f, p)
  PROVE  TypedCall
<1>0. f \in File /\ unixFile[f] \in Inode
  BY DEF OpenFile, PoolTypeOK
<1>op. "readPage" \in Ops
  BY DEF Ops
<1>1. CASE ReadHit(f, p)
  <2>1. PICK i \in Frames :
          /\ LookupAt(bufMap, f, p, i)
          /\ bufTable[i].pinCnt < MaxPin
          /\ bufTable' = [bufTable EXCEPT ![i].pinCnt = @ + 1]
          /\ ret' = PageReply("readPage", f, p, bufPool[i])
          /\ Count(1, 0, 0)
          /\ UNCHANGED <<clockHand, bufMap, bufPool, disk, unixFile, process>>
    BY <1>1 DEF ReadHit
  <2>2. bufTable[i] \in BufDesc /\ bufTable[i].pinCnt + 1 \in 0 .. MaxPin
    BY <2>1, BoundsAssumption DEF PoolTypeOK, BufDesc
  <2>3. bufTable' \in TableType
    BY <2>1, <2>2 DEF PoolTypeOK, TableType, BufDesc
  <2>4. p \in Page
    BY <2>1 DEF LookupAt, Entry, PoolTypeOK, Page
  <2>5. ret' \in ReplyType
    BY <1>0, <1>op, <2>1, <2>4, ReplyTypes DEF PoolTypeOK
  <2>6. bufStats' \in StatsType
    BY <2>1, CountType
  <2>. QED BY <2>1, <2>3, <2>5, <2>6 DEF TypedCall, Processes, PoolTypeOK, TableType, StatsType
<1>2. CASE Exceeded("readPage")
  BY <1>op, <1>2, ExceededType
<1>3. ASSUME NEW e \in AllocBufResults, ReadInto(f, p, e)
      PROVE  TypedCall
  <2>1. e \in ResultType
    BY AllocBufType
  <2>. DEFINE d == e.disk[unixFile[f]]
  <2>2. d \in File_ /\ e.writes \in Nat
    BY <1>0, <2>1 DEF ResultType
  <2>3. CASE /\ ReadSucceeds(d, p)
             /\ SetUp(e, f, p)
             /\ bufPool' = [bufPool EXCEPT ![e.frame] = d.page[p]]
             /\ ret' = SetUpReply(e, "readPage", f, p, d.page[p])
             /\ Count(1, 1, e.writes)
             /\ UNCHANGED process
    <3>1. p \in Page /\ d.page[p] \in Content
      BY <2>2, <2>3 DEF ReadSucceeds, File_
    <3>2. bufPool' \in [Frames -> Content]
      BY <2>1, <2>3, <3>1 DEF PoolTypeOK, ResultType
    <3>3. bufTable' \in TableType /\ bufMap' \in MapType
      BY <1>0, <2>1, <2>3, <3>1, SetUpType
    <3>4. ret' \in ReplyType
      BY <1>0, <1>op, <2>3, <3>1, SetUpReplyType
    <3>5. bufStats' \in StatsType
      BY <2>2, <2>3, CountType
    <3>. QED BY <1>3, <2>1, <2>3, <3>2, <3>3, <3>4, <3>5
             DEF ReadInto, TypedCall, Processes, PoolTypeOK, TableType, MapType, StatsType, ResultType
  <2>4. CASE /\ LeaveFree(e)
             /\ Count(1, 0, e.writes)
             /\ \/ ret' = Reply("readPage", "OK") /\ UNCHANGED process
                \/ ret' = Reply("readPage", "UNIXERR") /\ UNCHANGED process
                \/ process' = "hung" /\ UNCHANGED ret
             /\ UNCHANGED bufPool
    <3>1. ret' \in ReplyType \cup {ret}
      BY <1>op, <2>4, ReplyTypes DEF Statuses
    <3>2. bufStats' \in StatsType
      BY <2>2, <2>4, CountType
    <3>. QED BY <1>3, <2>1, <2>4, <3>1, <3>2
             DEF ReadInto, LeaveFree, TypedCall, Processes, PoolTypeOK, TableType, MapType, StatsType, ResultType
  <2>. QED BY <1>3, <2>3, <2>4 DEF ReadInto
<1>4. CASE FrameOutOfRange("readPage")
  BY <1>op, <1>4, CrashType DEF FrameOutOfRange
<1>. QED BY <1>1, <1>2, <1>3, <1>4 DEF ReadPage, ReadMiss

LEMMA UnPinPageType ==
  ASSUME PoolTypeOK, NEW f \in File, NEW p \in 0 .. MaxPage,
         NEW dirty \in BOOLEAN, NEW love \in BOOLEAN, UnPinPage(f, p, dirty, love)
  PROVE  TypedCall
<1>op. "unPinPage" \in Ops
  BY DEF Ops
<1>1. ret' \in ReplyType
  BY <1>op, ReplyTypes DEF UnPinPage, UnPinFound, NotPinned, LosePin, UnPinNotFound, Statuses
<1>2. bufTable' \in TableType
  <2>1. CASE UNCHANGED bufTable
    BY <2>1 DEF PoolTypeOK, TableType
  <2>2. ASSUME NEW i \in Frames, bufTable[i].pinCnt > 0,
               bufTable' = [bufTable EXCEPT ![i].pinCnt = @ - 1,
                                            ![i].dirty = @ \/ dirty,
                                            ![i].loved = @ \/ love]
        PROVE  bufTable' \in TableType
    <3>1. bufTable[i] \in BufDesc /\ bufTable[i].pinCnt - 1 \in 0 .. MaxPin
      BY <2>2, BoundsAssumption DEF PoolTypeOK, BufDesc
    <3>2. (bufTable[i].dirty \/ dirty) \in BOOLEAN /\ (bufTable[i].loved \/ love) \in BOOLEAN
      OBVIOUS
    <3>. QED BY <2>2, <3>1, <3>2 DEF PoolTypeOK, TableType, BufDesc
  <2>. QED BY <2>1, <2>2 DEF UnPinPage, UnPinFound, NotPinned, LosePin, UnPinNotFound
<1>. QED BY <1>1, <1>2 DEF UnPinPage, TypedCall, Processes, PoolTypeOK, TableType

LEMMA WritePageType ==
  ASSUME PoolTypeOK, NEW i \in Frames, NEW c \in Value, WritePage(i, c)
  PROVE  TypedCall
<1>1. ret' \in ReplyType
  BY ReplyTypes DEF WritePage, Ops, Statuses
<1>2. bufPool' \in [Frames -> Content]
  BY DEF WritePage, PoolTypeOK, Content
<1>. QED BY <1>1, <1>2 DEF WritePage, TypedCall, Processes, PoolTypeOK

LEMMA WriteBackType ==
  ASSUME PoolTypeOK, NEW S \in SUBSET Frames, NEW fault, NEW W \in Writes(S, fault),
         disk' = WrittenBack(W), Count(0, 0, Cardinality(W))
  PROVE  disk' \in [Inode -> File_] /\ bufStats' \in StatsType
BY WrittenBackType, WritesCounted, CountType

LEMMA FlushFileType ==
  ASSUME PoolTypeOK, NEW f \in File, FlushFile(f)
  PROVE  TypedCall
<1>1. CASE Crash("flushFile")
  BY <1>1, CrashType DEF Ops
<1>2. CASE ~Stray(Scanned)
  <2>1. Scanned \in SUBSET Frames
    BY DEF Scanned
  <2>2. CASE ~Crash("flushFile")
    <3>1. disk' \in [Inode -> File_] /\ bufStats' \in StatsType
      BY <2>1, <2>2, WriteBackType DEF FlushFile, WriteScanned
    <3>2. ret' \in ReplyType
      BY <2>2, ReplyTypes DEF FlushFile, Ops, Statuses
    <3>. QED BY <2>2, <3>1, <3>2 DEF FlushFile, WriteScanned, TypedCall, Processes, PoolTypeOK, StatsType
  <2>. QED BY <1>1, <2>2
<1>. QED BY <1>1, <1>2 DEF FlushFile

LEMMA DeleteType ==
  ASSUME PoolTypeOK, Delete
  PROVE  TypedCall
<1>1. CASE Crash("delete")
  BY <1>1, CrashType DEF Ops
<1>2. CASE ~Crash("delete")
  <2>1. disk' \in [Inode -> File_] /\ bufStats' \in StatsType
    BY <1>2, WriteBackType DEF Delete
  <2>2. ret' \in ReplyType
    BY <1>2, ReplyTypes DEF Delete, Ops, Statuses
  <2>. QED BY <1>2, <2>1, <2>2 DEF Delete, TypedCall, Processes, PoolTypeOK, StatsType
<1>. QED BY <1>1, <1>2

LEMMA DisposePageType ==
  ASSUME PoolTypeOK, NEW f \in OpenFile, NEW p \in 0 .. MaxPage, DisposePage(f, p)
  PROVE  TypedCall
<1>0. f \in File /\ unixFile[f] \in Inode
  BY DEF OpenFile, PoolTypeOK
<1>op. "disposePage" \in Ops /\ {"OK", "UNIXERR", "BADPAGENO", "PAGEPINNED"} \subseteq Statuses
  BY DEF Ops, Statuses
<1>1. CASE DisposeRefused(f, p)
  <2>1. ret' \in ReplyType
    BY <1>op, <1>1, ReplyTypes DEF DisposeRefused
  <2>. QED BY <1>1, <2>1 DEF DisposePage, DisposeRefused, TypedCall, Processes, PoolTypeOK
<1>2. CASE DisposeTried(f, p)
  <2>1. p \in Page
    BY <1>2, MaxPageAssumption DEF DisposeTried, Page
  <2>2. bufTable' \in TableType /\ bufMap' \in MapType
    <3>1. \A i \in Frames : Dropped(f, p, i) \in BufDesc
      BY DescType DEF Dropped, PoolTypeOK
    <3>. QED BY <1>2, <3>1, MapOpsType DEF DisposeTried, PoolTypeOK, TableType, MapType
  <2>3. disk' \in [Inode -> File_]
    BY <1>0, <1>2, <2>1, DisposedType DEF DisposeTried, PoolTypeOK
  <2>4. ret' \in ReplyType
    BY <1>0, <1>op, <1>2, <2>1, ReplyTypes DEF DisposeTried
  <2>. QED BY <1>2, <2>2, <2>3, <2>4
           DEF DisposePage, TypedCall, Processes, PoolTypeOK, TableType, MapType
<1>. QED BY <1>1, <1>2 DEF DisposePage

LEMMA AllocPageType ==
  ASSUME PoolTypeOK, NEW f \in OpenFile, AllocPage(f)
  PROVE  TypedCall
<1>0. f \in File /\ unixFile[f] \in Inode
  BY DEF OpenFile, PoolTypeOK
<1>op. "allocPage" \in Ops
  BY DEF Ops
<1>1. CASE Exceeded("allocPage")
  BY <1>op, <1>1, ExceededType
<1>2. ASSUME NEW e \in AllocBufResults, AllocInto(f, e)
      PROVE  TypedCall
  <2>1. e \in ResultType
    BY AllocBufType
  <2>. DEFINE n == unixFile[f]
              d == e.disk[n]
  <2>2. d \in File_ /\ e.writes \in Nat
    BY <1>0, <2>1 DEF ResultType
  <2>3. CASE /\ AllocSucceeds(d)
             /\ disk' = [e.disk EXCEPT ![n] = Allocated(d)]
             /\ SetUp(e, f, AllocPageNo(d))
             /\ ret' = SetUpReply(e, "allocPage", f, AllocPageNo(d), bufPool[e.frame])
             /\ Count(1, 0, e.writes + 1)
    <3>1. AllocPageNo(d) \in Page /\ Allocated(d) \in File_
      BY <2>2, <2>3, AllocatedType
    <3>2. disk' \in [Inode -> File_]
      BY <1>0, <2>1, <2>3, <3>1 DEF ResultType
    <3>3. bufTable' \in TableType /\ bufMap' \in MapType
      BY <1>0, <2>1, <2>3, <3>1, SetUpType
    <3>4. bufPool[e.frame] \in Content
      BY <2>1 DEF ResultType, PoolTypeOK
    <3>5. ret' \in ReplyType
      BY <1>0, <1>op, <2>3, <3>1, <3>4, SetUpReplyType
    <3>6. bufStats' \in StatsType
      <4>1. e.writes + 1 \in Nat
        BY <2>2
      <4>. QED BY <2>3, <4>1, CountType
    <3>. QED BY <1>2, <2>1, <3>2, <3>3, <3>5, <3>6
             DEF AllocInto, TypedCall, Processes, PoolTypeOK, TableType, MapType, StatsType, ResultType
  <2>4. ASSUME NEW x \in AllocFailures(d),
               disk' = [e.disk EXCEPT ![n] = x],
               LeaveFree(e),
               ret' = Reply("allocPage", "UNIXERR"),
               Count(1, 0, e.writes)
        PROVE  TypedCall
    <3>1. disk' \in [Inode -> File_]
      BY <1>0, <2>1, <2>2, <2>4, AllocFailuresType DEF ResultType
    <3>2. ret' \in ReplyType
      BY <1>op, <2>4, ReplyTypes DEF Statuses
    <3>3. bufStats' \in StatsType
      BY <2>2, <2>4, CountType
    <3>. QED BY <1>2, <2>1, <2>4, <3>1, <3>2, <3>3
             DEF AllocInto, LeaveFree, TypedCall, Processes, PoolTypeOK, TableType, MapType, StatsType, ResultType
  <2>. QED BY <1>2, <2>3, <2>4 DEF AllocInto
<1>3. CASE FrameOutOfRange("allocPage")
  BY <1>op, <1>3, CrashType DEF FrameOutOfRange
<1>. QED BY <1>1, <1>2, <1>3 DEF AllocPage

LEMMA ClearBufStatsType ==
  ASSUME PoolTypeOK, ClearBufStats
  PROVE  TypedCall
<1>1. ret' \in ReplyType
  BY ReplyTypes DEF ClearBufStats, Ops, Statuses
<1>2. bufStats' \in StatsType
  BY BoundsAssumption DEF ClearBufStats, NoStats, StatsType
<1>. QED BY <1>1, <1>2 DEF ClearBufStats, TypedCall, Processes, PoolTypeOK, StatsType

LEMMA NewFileType == NewFile \in File_
BY MaxPageAssumption DEF NewFile, File_, Link, Nil, Garbage, Page

LEMMA NewPoolType ==
  ASSUME NewBufMgr, disk = [n \in Inode |-> NewFile], unixFile \in [File -> Inode \cup {NULL}]
  PROVE  PoolTypeOK
<1>1. clockHand \in Frames
  BY BufsAssumption DEF NewBufMgr, Frames
<1>2. bufTable \in TableType /\ bufMap \in MapType
  BY DescType DEF NewBufMgr, TableType, MapType, NoEntry, Entry
<1>3. bufPool \in [Frames -> Content]
  BY MaxPageAssumption DEF NewBufMgr, Content, Link, Nil, Garbage
<1>4. bufStats \in StatsType
  BY BoundsAssumption DEF NewBufMgr, NoStats, StatsType
<1>. QED BY <1>1, <1>2, <1>3, <1>4, NewFileType DEF PoolTypeOK, TableType, MapType, StatsType

LEMMA InitType == Init => TypeOK
<1>. SUFFICES ASSUME Init PROVE TypeOK
  OBVIOUS
<1>1. PoolTypeOK
  BY NewPoolType DEF Init
<1>2. ret \in ReplyType /\ process \in Processes
  BY ReplyTypes DEF Init, NewBufMgr, Ops, Statuses, Processes
<1>. QED BY <1>1, <1>2, TypeParts

LEMMA TypeStep == TypeOK /\ [Next]_vars => TypeOK'
<1>. SUFFICES ASSUME TypeOK, [Next]_vars PROVE TypeOK'
  OBVIOUS
<1>1. ASSUME NEW f \in OpenFile, NEW p \in 0 .. MaxPage, ReadPage(f, p) PROVE TypeOK'
  BY <1>1, ReadPageType, TypeParts, TypeKept
<1>2. ASSUME NEW f \in OpenFile, NEW p \in 0 .. MaxPage, DisposePage(f, p) PROVE TypeOK'
  BY <1>2, DisposePageType, TypeParts, TypeKept
<1>3. ASSUME NEW f \in OpenFile, NEW p \in 0 .. MaxPage, NEW dirty \in BOOLEAN,
             NEW love \in Hints, UnPinPage(f, p, dirty, love)
      PROVE  TypeOK'
  BY <1>3, UnPinPageType, TypeParts, TypeKept, HintsAssumption DEF OpenFile
<1>4. ASSUME NEW f \in OpenFile, AllocPage(f) PROVE TypeOK'
  BY <1>4, AllocPageType, TypeParts, TypeKept
<1>5. ASSUME NEW f \in OpenFile, FlushFile(f) PROVE TypeOK'
  BY <1>5, FlushFileType, TypeParts, TypeKept DEF OpenFile
<1>6. CASE ClearBufStats
  BY <1>6, ClearBufStatsType, TypeParts, TypeKept
<1>7. CASE Delete
  BY <1>7, DeleteType, TypeParts, TypeKept
<1>8. ASSUME NEW i \in Frames, NEW c \in Value, WritePage(i, c) PROVE TypeOK'
  BY <1>8, WritePageType, TypeParts, TypeKept
<1>9. CASE UNCHANGED vars
  BY <1>9 DEF vars, TypeOK
<1>. QED BY <1>1, <1>2, <1>3, <1>4, <1>5, <1>6, <1>7, <1>8, <1>9 DEF Next, Call, Fetch, Release

(* Every call, failed calls included, keeps every variable in its range:   *)
(* no page number out of the file reaches the table, no counter overflows. *)
THEOREM TypeCorrect == Spec => []TypeOK
BY InitType, TypeStep, PTL DEF Spec

-----------------------------------------------------------------------------
(* Coherence: map and table agree, no page is buffered twice and every     *)
(* buffered page is allocated.  Each call changes the table, the map and   *)
(* the disk one after the other, so the invariant is a predicate of three  *)
(* such values, and lemmas take it over each of these changes.             *)

(* The File objects of L have an open descriptor of their own.  Of BufMgr  *)
(* alone that is all of them, File; DB closes files, and leaves the frames *)
(* of a closed file in the pool.                                           *)

(* A client that reads only pages it allocated and disposes of a page at   *)
(* most once, and a disk on which victims can be written.  Every other     *)
(* fault is allowed.                                                       *)
WellBehaved == Misuse = {} /\ "evict" \notin Faults

DescsSound(t) ==
  \A i \in Frames : IF t[i].valid THEN t[i].file \in File /\ t[i].pageNo \in Page
                    ELSE t[i] = ClearDesc

Mirrors(t, m) ==
  \A i \in Frames : m[i] = IF t[i].valid THEN Entry(t[i].file, t[i].pageNo) ELSE NoEntry

Distinct(t) ==
  \A i, j \in Frames :
    /\ t[i].valid /\ t[j].valid
    /\ t[i].file = t[j].file /\ t[i].pageNo = t[j].pageNo
    => i = j

Placed(t, k, L) ==
  \A i \in Frames : t[i].valid /\ t[i].file \in L
                     => Allocates(k[unixFile[t[i].file]], t[i].pageNo)

(* A dirty frame of a file that is not open is written nowhere.            *)
Orphaned(t, L) ==
  \A i \in Frames : t[i].valid /\ t[i].dirty /\ t[i].file \notin L
                     => unixFile[t[i].file] = NULL

Coherent(t, m, k, L) ==
  /\ t \in TableType /\ m \in MapType /\ k \in [Inode -> File_]
  /\ DescsSound(t) /\ Mirrors(t, m) /\ Distinct(t) /\ Placed(t, k, L) /\ Orphaned(t, L)
  /\ \A n \in Inode : FreeListSound(k[n])

UnixFileSound(L) ==
  /\ \A f \in L : unixFile[f] \in Inode
  /\ \A f, g \in L : unixFile[f] = unixFile[g] => f = g

CoherentInv(L) == PoolTypeOK /\ UnixFileSound(L) /\ Coherent(bufTable, bufMap, disk, L)

(* What the victims of allocBuf need: every dirty page can be written.     *)
NoStale(L) ==
  \A i \in Frames : bufTable[i].valid /\ bufTable[i].dirty => bufTable[i].file \in L

-----------------------------------------------------------------------------
(* Changes of one part. *)

LEMMA NullFacts ==
  /\ NULL \notin File /\ NULL \notin Inode
  /\ \A f \in File : \A p : Entry(f, p) # NoEntry
BY NullAssumption DEF Entry, NoEntry

LEMMA EntryEq ==
  ASSUME NEW f, NEW p, NEW g, NEW q, Entry(f, p) = Entry(g, q)
  PROVE  f = g /\ p = q
BY DEF Entry

(* The loved bits play no part.                                            *)
LEMMA SweptCoherent ==
  ASSUME NEW L \in SUBSET File, NEW t, NEW m, NEW k, Coherent(t, m, k, L), NEW u \in TableType,
         \A i \in Frames : u[i] # t[i] => t[i].valid /\ u[i] = Unloved(t[i])
  PROVE  Coherent(u, m, k, L)
<1>1. \A i \in Frames :
        /\ u[i].valid = t[i].valid /\ u[i].file = t[i].file /\ u[i].pageNo = t[i].pageNo
        /\ u[i].dirty = t[i].dirty
        /\ ~t[i].valid => u[i] = t[i]
  BY DEF Coherent, TableType, BufDesc, Unloved
<1>. QED BY <1>1 DEF Coherent, DescsSound, Mirrors, Distinct, Placed, Orphaned

(* One frame is cleared and its entry removed.                             *)
LEMMA ClearedCoherent ==
  ASSUME NEW L \in SUBSET File, NEW t, NEW m, NEW k, Coherent(t, m, k, L), NEW v \in Frames, t[v].valid,
         NEW u, u = [t EXCEPT ![v] = ClearDesc]
  PROVE  Coherent(u, Remove(m, t[v].file, t[v].pageNo), k, L)
<1>. DEFINE r == Remove(m, t[v].file, t[v].pageNo)
<1>0. /\ t \in TableType /\ m \in MapType /\ DOMAIN m = Frames
      /\ ClearDesc \in BufDesc /\ ~ClearDesc.valid
      /\ u \in TableType /\ u[v] = ClearDesc
      /\ \A i \in Frames \ {v} : u[i] = t[i]
  BY DescType DEF Coherent, TableType, MapType, ClearDesc
<1>1. \A i \in Frames : LookupAt(m, t[v].file, t[v].pageNo, i) <=> i = v
  <2>1. \A i \in Frames : m[i] = Entry(t[v].file, t[v].pageNo) <=> i = v
    BY NullFacts, EntryEq DEF Coherent, Mirrors, Distinct, DescsSound
  <2>. QED BY <1>0, <2>1, BufsAssumption DEF LookupAt, Frames
<1>2. \A i \in Frames : r[i] = IF i = v THEN NoEntry ELSE m[i]
  BY <1>0, <1>1 DEF Remove
<1>3. Mirrors(u, r)
  BY <1>0, <1>2 DEF Coherent, Mirrors
<1>4. DescsSound(u) /\ Distinct(u) /\ Placed(u, k, L) /\ Orphaned(u, L)
  BY <1>0 DEF Coherent, DescsSound, Distinct, Placed, Orphaned
<1>. QED BY <1>0, <1>3, <1>4, MapOpsType DEF Coherent

(* Pages that are not free are rewritten.                                  *)
LEMMA RewrittenCoherent ==
  ASSUME NEW L \in SUBSET File, NEW t, NEW m, NEW k, Coherent(t, m, k, L), UnixFileSound(L),
         NEW x \in [Inode -> File_],
         \A n \in Inode : /\ x[n].nextFree = k[n].nextFree /\ x[n].numPages = k[n].numPages
                          /\ \A q \in FreeList(k[n]) : x[n].page[q] = k[n].page[q]
  PROVE  Coherent(t, m, x, L)
<1>1. ASSUME NEW n \in Inode
      PROVE  FreeList(x[n]) \subseteq FreeList(k[n]) /\ FreeListSound(x[n])
  <2>1. k[n] \in File_ /\ x[n] \in File_ /\ FreeListSound(k[n])
    BY DEF Coherent
  <2>2. x[n].numPages >= k[n].numPages
    BY <2>1 DEF File_
  <2>. QED BY <2>1, <2>2, RewrittenSound
<1>2. Placed(t, x, L)
  BY <1>1 DEF Coherent, Placed, DescsSound, Allocates, UnixFileSound
<1>. QED BY <1>1, <1>2 DEF Coherent

(* A free frame takes a page that is allocated and not buffered.           *)
LEMMA SetUpCoherent ==
  ASSUME NEW L \in SUBSET File, NEW t, NEW m, NEW k, Coherent(t, m, k, L), NEW v \in Frames, ~t[v].valid,
         NEW f \in File, NEW p \in Page, Allocates(k[unixFile[f]], p),
         \A i \in Frames : t[i].valid => t[i].file # f \/ t[i].pageNo # p,
         NEW u, u = [t EXCEPT ![v] = SetDesc(f, p)]
  PROVE  /\ ~InsertFails(m, v)
         /\ Coherent(u, Insert(m, f, p, v), k, L)
<1>0. /\ t \in TableType /\ m \in MapType
      /\ SetDesc(f, p) \in BufDesc /\ SetDesc(f, p).valid
      /\ SetDesc(f, p).file = f /\ SetDesc(f, p).pageNo = p /\ ~SetDesc(f, p).dirty
      /\ u \in TableType /\ u[v] = SetDesc(f, p)
      /\ \A i \in Frames \ {v} : u[i] = t[i]
  BY DescType DEF Coherent, TableType, SetDesc
<1>1. m[v] = NoEntry
  BY DEF Coherent, Mirrors
<1>2. Insert(m, f, p, v) = [m EXCEPT ![v] = Entry(f, p)]
  BY <1>1 DEF Insert, InsertFails
<1>3. Mirrors(u, Insert(m, f, p, v))
  BY <1>0, <1>2 DEF Coherent, Mirrors, MapType
<1>4. DescsSound(u) /\ Distinct(u) /\ Placed(u, k, L) /\ Orphaned(u, L)
  BY <1>0 DEF Coherent, DescsSound, Distinct, Placed, Orphaned
<1>. QED BY <1>0, <1>1, <1>3, <1>4, MapOpsType DEF Coherent, InsertFails

(* What a failed lookup means.                                             *)
LEMMA NotBuffered ==
  ASSUME NEW L \in SUBSET File, NEW t, NEW m, NEW k, Coherent(t, m, k, L), NEW f, NEW p, LookupFails(m, f, p)
  PROVE  \A i \in Frames : t[i].valid => t[i].file # f \/ t[i].pageNo # p
BY DEF Coherent, Mirrors, MapType, LookupFails

-----------------------------------------------------------------------------
(* The calls. *)

LEMMA TargetSound ==
  ASSUME NEW L \in SUBSET File, CoherentInv(L), NEW i \in Frames, bufTable[i].valid
  PROVE  /\ bufTable[i].file \in File /\ bufTable[i].pageNo \in Page
         /\ TargetOf(i) = unixFile[bufTable[i].file]
         /\ bufTable[i].file \in L => /\ TargetOf(i) \in Inode
                                     /\ Allocates(disk[TargetOf(i)], bufTable[i].pageNo)
         /\ bufTable[i].dirty /\ TargetOf(i) # NULL => bufTable[i].file \in L
BY NullFacts DEF CoherentInv, Coherent, DescsSound, Placed, Orphaned, TargetOf, UnixFileSound

LEMMA LiveOpen ==
  ASSUME NEW L \in SUBSET File, CoherentInv(L), NEW f \in L
  PROVE  f \in File /\ f \in OpenFile /\ unixFile[f] \in Inode
BY NullFacts DEF CoherentInv, UnixFileSound, OpenFile

(* allocBuf leaves a coherent pool with a free frame, and no page enters.  *)
LEMMA EvictedCoherent ==
  ASSUME NEW L \in SUBSET File, CoherentInv(L), NoStale(L), WellBehaved, NEW e \in AllocBufResults
  PROVE  /\ e \in ResultType
         /\ Coherent(e.table, e.map, e.disk, L)
         /\ ~e.table[e.frame].valid
         /\ \A n \in Inode : e.disk[n].numPages = disk[n].numPages
         /\ \A f \in File : \A p : LookupFails(bufMap, f, p) => LookupFails(e.map, f, p)
<1>1. e \in ResultType
  BY AllocBufType DEF CoherentInv
<1>2. PICK v \in Frames : Victim(bufTable, clockHand, v) /\ e = Evicted(v)
  <2>1. ASSUME NEW v \in Frames PROVE ~EvictFails(v)
    BY <2>1, TargetSound, NullFacts DEF WellBehaved, EvictFails, MustWrite, NoStale
  <2>. QED BY <2>1 DEF AllocBufResults, Victims
<1>. DEFINE t == SweptTo(bufTable, clockHand, v)
<1>3. /\ e.frame = v /\ e.table = [t EXCEPT ![v] = ClearDesc]
      /\ e.map = IF bufTable[v].valid
                 THEN Remove(bufMap, bufTable[v].file, bufTable[v].pageNo) ELSE bufMap
      /\ e.disk = IF MustWrite(v)
                  THEN [disk EXCEPT ![TargetOf(v)] = Written(@, bufTable[v].pageNo, bufPool[v])]
                  ELSE disk
  BY <1>2 DEF Evicted
<1>4. Coherent(bufTable, bufMap, disk, L) /\ UnixFileSound(L) /\ PoolTypeOK
  BY DEF CoherentInv
<1>5. t \in TableType
  BY <1>4, SweptTypes DEF Coherent
<1>6. Coherent(t, bufMap, disk, L)
  <2>1. \A i \in Frames : Ahead(clockHand, i) < Ahead(clockHand, v) => ~Replaceable(bufTable[i])
    <3>1. \A i \in Frames : Ahead(clockHand, i) \in Int
      BY <1>4, BufsAssumption DEF PoolTypeOK, Ahead, Frames
    <3>. QED BY <1>2, <3>1 DEF Victim
  <2>2. \A i \in Frames :
          t[i] # bufTable[i] => bufTable[i].valid /\ t[i] = Unloved(bufTable[i])
    BY <2>1 DEF SweptTo, Replaceable
  <2>. QED BY <1>4, <1>5, <2>2, SweptCoherent
<1>7. t[v].valid = bufTable[v].valid /\ t[v].file = bufTable[v].file
      /\ t[v].pageNo = bufTable[v].pageNo
  BY <1>4 DEF SweptTo, PoolTypeOK, Unloved, BufDesc
<1>8. /\ Coherent(t, bufMap, e.disk, L)
      /\ \A n \in Inode : e.disk[n].numPages = disk[n].numPages
  <2>1. CASE MustWrite(v)
    <3>1. bufTable[v].valid /\ bufTable[v].file \in L
      BY <2>1 DEF MustWrite, NoStale
    <3>. DEFINE p == bufTable[v].pageNo
                w == Written(disk[TargetOf(v)], p, bufPool[v])
    <3>2. TargetOf(v) \in Inode /\ p \in Page /\ p \notin FreeList(disk[TargetOf(v)])
      BY <3>1, TargetSound DEF Allocates
    <3>3. /\ w.nextFree = disk[TargetOf(v)].nextFree /\ w.numPages = disk[TargetOf(v)].numPages
          /\ \A q \in FreeList(disk[TargetOf(v)]) : w.page[q] = disk[TargetOf(v)].page[q]
      BY <1>4, <3>2, FreeListHoldsChain DEF Written, PoolTypeOK, File_
    <3>4. e.disk = [disk EXCEPT ![TargetOf(v)] = w]
      BY <1>3, <2>1
    <3>5. \A n \in Inode : /\ e.disk[n].nextFree = disk[n].nextFree
                           /\ e.disk[n].numPages = disk[n].numPages
                           /\ \A q \in FreeList(disk[n]) : e.disk[n].page[q] = disk[n].page[q]
      BY <1>4, <3>2, <3>3, <3>4 DEF PoolTypeOK
    <3>. QED BY <1>1, <1>4, <1>6, <3>5, RewrittenCoherent DEF ResultType
  <2>2. CASE ~MustWrite(v)
    BY <1>3, <1>6, <2>2
  <2>. QED BY <2>1, <2>2
<1>9. Coherent(e.table, e.map, e.disk, L) /\ ~e.table[v].valid
  <2>1. ~e.table[v].valid
    BY <1>3, <1>5 DEF TableType, ClearDesc
  <2>2. CASE bufTable[v].valid
    <3>1. Coherent([t EXCEPT ![v] = ClearDesc], Remove(bufMap, t[v].file, t[v].pageNo), e.disk, L)
      BY <1>7, <1>8, <2>2, ClearedCoherent
    <3>2. e.map = Remove(bufMap, t[v].file, t[v].pageNo)
      BY <1>3, <1>7, <2>2
    <3>. QED BY <1>3, <2>1, <3>1, <3>2
  <2>3. CASE ~bufTable[v].valid
    <3>1. t[v] = ClearDesc
      BY <1>6, <1>7, <2>3 DEF Coherent, DescsSound
    <3>2. e.table = t
      BY <1>3, <1>5, <3>1 DEF TableType
    <3>3. e.map = bufMap
      BY <1>3, <2>3
    <3>. QED BY <1>8, <2>1, <3>2, <3>3
  <2>. QED BY <2>2, <2>3, <2>1
<1>10. ASSUME NEW f \in File, NEW p, LookupFails(bufMap, f, p)
       PROVE  LookupFails(e.map, f, p)
  <2>1. \A i \in Frames : e.map[i] = bufMap[i] \/ e.map[i] = NoEntry
    BY <1>3, <1>4 DEF Remove, PoolTypeOK
  <2>. QED BY <1>1, <1>4, <1>10, <2>1, NullFacts DEF LookupFails, ResultType, MapType, PoolTypeOK
<1>. QED BY <1>1, <1>3, <1>8, <1>9, <1>10

LEMMA ExceededCoherent ==
  ASSUME NEW L \in SUBSET File, CoherentInv(L), NEW op \in Ops, Exceeded(op)
  PROVE  Coherent(bufTable', bufMap', disk', L)
<1>1. bufTable' \in TableType
  BY SweptTypes DEF Exceeded, CoherentInv, Coherent
<1>2. \A i \in Frames : bufTable[i].valid /\ bufTable'[i] = Unloved(bufTable[i])
  BY DEF Exceeded, SweptAll, NoVictim, Replaceable
<1>. QED BY <1>1, <1>2, SweptCoherent DEF Exceeded, CoherentInv

LEMMA ReadPageCoherent ==
  ASSUME NEW L \in SUBSET File, CoherentInv(L), NoStale(L), WellBehaved,
         NEW f \in L, NEW p \in 0 .. MaxPage, ReadPage(f, p)
  PROVE  Coherent(bufTable', bufMap', disk', L)
<1>0. f \in File /\ f \in OpenFile /\ unixFile[f] \in Inode
  BY LiveOpen
<1>1. CASE ReadHit(f, p)
  <2>1. PICK i \in Frames :
          /\ LookupAt(bufMap, f, p, i)
          /\ bufTable' = [bufTable EXCEPT ![i].pinCnt = @ + 1]
          /\ UNCHANGED <<bufMap, disk>>
    BY <1>1 DEF ReadHit
  <2>2. bufTable' \in TableType
    BY <1>0, ReadPageType DEF CoherentInv, TypedCall, PoolTypeOK, TableType
  <2>3. bufTable[i].valid
    BY <1>0, <2>1, NullFacts DEF LookupAt, CoherentInv, Coherent, Mirrors
  <2>4. \A j \in Frames :
          /\ bufTable'[j].valid = bufTable[j].valid /\ bufTable'[j].file = bufTable[j].file
          /\ bufTable'[j].pageNo = bufTable[j].pageNo /\ bufTable'[j].dirty = bufTable[j].dirty
          /\ ~bufTable[j].valid => bufTable'[j] = bufTable[j]
    BY <2>1, <2>3 DEF CoherentInv, PoolTypeOK, BufDesc
  <2>. QED BY <2>1, <2>2, <2>4
           DEF CoherentInv, Coherent, DescsSound, Mirrors, Distinct, Placed, Orphaned
<1>2. CASE Exceeded("readPage")
  BY <1>2, ExceededCoherent DEF Ops
<1>3. ASSUME NEW e \in AllocBufResults, LookupFails(bufMap, f, p), ReadInto(f, p, e)
      PROVE  Coherent(bufTable', bufMap', disk', L)
  <2>1. /\ e \in ResultType /\ Coherent(e.table, e.map, e.disk, L) /\ ~e.table[e.frame].valid
        /\ e.disk[unixFile[f]].numPages = disk[unixFile[f]].numPages
        /\ LookupFails(e.map, f, p)
    BY <1>0, <1>3, EvictedCoherent
  <2>. DEFINE d == e.disk[unixFile[f]]
  <2>2. CASE ReadSucceeds(d, p) /\ SetUp(e, f, p)
    <3>1. p \in Page /\ Allocates(d, p)
      BY <2>1, <2>2 DEF ReadSucceeds, Allocates, ReadPage, MayRead, WellBehaved
    <3>2. \A i \in Frames : e.table[i].valid => e.table[i].file # f \/ e.table[i].pageNo # p
      BY <2>1, NotBuffered
    <3>3. Coherent([e.table EXCEPT ![e.frame] = SetDesc(f, p)],
                   Insert(e.map, f, p, e.frame), e.disk, L)
      BY <1>0, <2>1, <3>1, <3>2, SetUpCoherent DEF ResultType
    <3>. QED BY <1>3, <2>2, <3>3 DEF ReadInto, SetUp
  <2>3. CASE LeaveFree(e)
    BY <1>3, <2>1, <2>3 DEF ReadInto, LeaveFree
  <2>. QED BY <1>3, <2>2, <2>3 DEF ReadInto
<1>4. CASE FrameOutOfRange("readPage")
  BY <1>4 DEF FrameOutOfRange, Crash, CoherentInv
<1>. QED BY <1>1, <1>2, <1>3, <1>4 DEF ReadPage, ReadMiss

LEMMA AllocPageCoherent ==
  ASSUME NEW L \in SUBSET File, CoherentInv(L), NoStale(L), WellBehaved,
         NEW f \in L, AllocPage(f)
  PROVE  Coherent(bufTable', bufMap', disk', L)
<1>0. f \in File /\ f \in OpenFile /\ unixFile[f] \in Inode /\ UnixFileSound(L)
  BY LiveOpen DEF CoherentInv
<1>1. CASE Exceeded("allocPage")
  BY <1>1, ExceededCoherent DEF Ops
<1>2. ASSUME NEW e \in AllocBufResults, AllocInto(f, e)
      PROVE  Coherent(bufTable', bufMap', disk', L)
  <2>1. /\ e \in ResultType /\ Coherent(e.table, e.map, e.disk, L) /\ ~e.table[e.frame].valid
    BY EvictedCoherent
  <2>. DEFINE n == unixFile[f]
              d == e.disk[n]
  <2>2. d \in File_ /\ FreeListSound(d)
    BY <1>0, <2>1 DEF Coherent
  (* The file changes and every page that was allocated still is.          *)
  <2>3. ASSUME NEW x \in File_, FreeListSound(x),
               \A p \in Page : Allocates(d, p) => Allocates(x, p)
        PROVE  Coherent(e.table, e.map, [e.disk EXCEPT ![n] = x], L)
    BY <1>0, <2>1, <2>3 DEF Coherent, Placed, DescsSound, UnixFileSound
  <2>4. CASE /\ AllocSucceeds(d)
             /\ disk' = [e.disk EXCEPT ![n] = Allocated(d)]
             /\ SetUp(e, f, AllocPageNo(d))
    <3>. DEFINE p == AllocPageNo(d)
    <3>1. p \in Page /\ Allocated(d) \in File_
      BY <2>2, <2>4, AllocatedType
    <3>2. /\ FreeListSound(Allocated(d)) /\ ~Allocates(d, p)
          /\ \A q \in Page : Allocates(d, q) \/ q = p => Allocates(Allocated(d), q)
      BY <2>2, <2>4, AllocatedSound
    <3>3. Coherent(e.table, e.map, disk', L)
      BY <2>3, <2>4, <3>1, <3>2
    <3>4. \A i \in Frames : e.table[i].valid => e.table[i].file # f \/ e.table[i].pageNo # p
      BY <2>1, <3>2 DEF Coherent, Placed
    <3>5. Allocates(disk'[unixFile[f]], p)
      BY <1>0, <2>1, <2>4, <3>1, <3>2 DEF ResultType
    <3>6. Coherent([e.table EXCEPT ![e.frame] = SetDesc(f, p)],
                   Insert(e.map, f, p, e.frame), disk', L)
      BY <1>0, <2>1, <3>1, <3>3, <3>4, <3>5, SetUpCoherent DEF ResultType
    <3>. QED BY <2>4, <3>6 DEF SetUp
  <2>5. ASSUME NEW x \in AllocFailures(d), disk' = [e.disk EXCEPT ![n] = x], LeaveFree(e)
        PROVE  Coherent(bufTable', bufMap', disk', L)
    BY <2>2, <2>3, <2>5, AllocFailuresType, AllocFailuresSound DEF LeaveFree
  <2>. QED BY <1>2, <2>4, <2>5 DEF AllocInto
<1>3. CASE FrameOutOfRange("allocPage")
  BY <1>3 DEF FrameOutOfRange, Crash, CoherentInv
<1>. QED BY <1>1, <1>2, <1>3 DEF AllocPage

LEMMA UnPinPageCoherent ==
  ASSUME NEW L \in SUBSET File, CoherentInv(L), NEW f \in L, NEW p \in 0 .. MaxPage,
         NEW dirty \in BOOLEAN, NEW love \in BOOLEAN, UnPinPage(f, p, dirty, love)
  PROVE  Coherent(bufTable', bufMap', disk', L)
<1>1. UNCHANGED <<bufMap, disk>> /\ bufTable' \in TableType
  BY LiveOpen, UnPinPageType DEF UnPinPage, CoherentInv, TypedCall, PoolTypeOK, TableType
<1>2. CASE UNCHANGED bufTable
  BY <1>1, <1>2 DEF CoherentInv
<1>3. ASSUME NEW i \in Frames, LookupAt(bufMap, f, p, i),
             bufTable' = [bufTable EXCEPT ![i].pinCnt = @ - 1,
                                          ![i].dirty = @ \/ dirty,
                                          ![i].loved = @ \/ love]
      PROVE  Coherent(bufTable', bufMap', disk', L)
  <2>1. bufTable[i].valid /\ bufTable[i].file \in L
    BY <1>3, NullFacts, EntryEq DEF LookupAt, CoherentInv, Coherent, Mirrors
  <2>2. \A j \in Frames :
          /\ bufTable'[j].valid = bufTable[j].valid /\ bufTable'[j].file = bufTable[j].file
          /\ bufTable'[j].pageNo = bufTable[j].pageNo
          /\ bufTable[j].file \notin L => bufTable'[j].dirty = bufTable[j].dirty
          /\ ~bufTable[j].valid => bufTable'[j] = bufTable[j]
    BY <1>3, <2>1 DEF CoherentInv, PoolTypeOK, BufDesc
  <2>. QED BY <1>1, <2>2 DEF CoherentInv, Coherent, DescsSound, Mirrors, Distinct, Placed, Orphaned
<1>. QED BY <1>2, <1>3 DEF UnPinPage, UnPinFound, NotPinned, LosePin,
  UnPinNotFound

(* Dirty frames hold allocated pages: writing them leaves the lists alone. *)
LEMMA WrittenBackCoherent ==
  ASSUME NEW L \in SUBSET File, CoherentInv(L), NEW S \in SUBSET Frames, NEW fault, NEW W \in Writes(S, fault)
  PROVE  Coherent(bufTable, bufMap, WrittenBack(W), L)
<1>1. WrittenBack(W) \in [Inode -> File_]
  BY WrittenBackType DEF CoherentInv
<1>2. \A i \in W : i \in Frames /\ bufTable[i].valid /\ bufTable[i].file \in L
  <2>1. \A i \in W : i \in Frames /\ bufTable[i].dirty /\ TargetOf(i) # NULL
    BY DEF Writes, Writable
  <2>2. \A i \in W : bufTable[i].valid
    BY <2>1 DEF CoherentInv, Coherent, DescsSound, ClearDesc
  <2>. QED BY <2>1, <2>2, TargetSound
<1>3. ASSUME NEW n \in Inode, NEW p \in FreeList(disk[n]), NEW i \in Frames
      PROVE  ~LastCopy(W, n, p, i)
  BY <1>2, TargetSound DEF LastCopy, Holds, Allocates
<1>4. ASSUME NEW n \in Inode
      PROVE  /\ WrittenBack(W)[n].nextFree = disk[n].nextFree
             /\ WrittenBack(W)[n].numPages = disk[n].numPages
             /\ \A q \in FreeList(disk[n]) : WrittenBack(W)[n].page[q] = disk[n].page[q]
  <2>1. disk[n] \in File_
    BY DEF CoherentInv, PoolTypeOK
  <2>. DEFINE g == [p \in Page |-> IF \E i \in Frames : LastCopy(W, n, p, i)
                                   THEN bufPool[CHOOSE i \in Frames : LastCopy(W, n, p, i)]
                                   ELSE disk[n].page[p]]
  <2>2. WrittenBack(W)[n] = [disk[n] EXCEPT !.page = g]
    BY DEF WrittenBack
  <2>3. \A q \in FreeList(disk[n]) : g[q] = disk[n].page[q]
    BY <1>3, FreeListHoldsChain
  <2>. QED BY <2>1, <2>2, <2>3 DEF File_
<1>. QED BY <1>1, <1>4, RewrittenCoherent DEF CoherentInv

LEMMA FlushFileCoherent ==
  ASSUME NEW L \in SUBSET File, CoherentInv(L), NEW f \in File, FlushFile(f)
  PROVE  Coherent(bufTable', bufMap', disk', L)
<1>1. CASE Crash("flushFile")
  BY <1>1 DEF Crash, CoherentInv
<1>2. CASE ~Crash("flushFile")
  <2>1. Scanned \in SUBSET Frames
    BY DEF Scanned
  <2>. QED BY <1>2, <2>1, WrittenBackCoherent DEF FlushFile, WriteScanned
<1>. QED BY <1>1, <1>2

LEMMA DeleteCoherent ==
  ASSUME NEW L \in SUBSET File, CoherentInv(L), Delete
  PROVE  Coherent(bufTable', bufMap', disk', L)
<1>1. CASE Crash("delete")
  BY <1>1 DEF Crash, CoherentInv
<1>2. CASE ~Crash("delete")
  BY <1>2, WrittenBackCoherent DEF Delete
<1>. QED BY <1>1, <1>2

LEMMA DisposePageCoherent ==
  ASSUME NEW L \in SUBSET File, CoherentInv(L), WellBehaved, NEW f \in L, NEW p \in 0 .. MaxPage, DisposePage(f, p)
  PROVE  Coherent(bufTable', bufMap', disk', L)
<1>0. f \in File /\ f \in OpenFile /\ unixFile[f] \in Inode /\ UnixFileSound(L)
  BY LiveOpen DEF CoherentInv
<1>1. CASE DisposeRefused(f, p)
  BY <1>1 DEF DisposeRefused, CoherentInv
<1>2. CASE DisposeTried(f, p)
  <2>. DEFINE n == unixFile[f]
              d == disk[n]
  <2>1. p \in Page /\ p \notin FreeList(d)
    BY <1>2, MaxPageAssumption DEF DisposeTried, Page, DisposePage, MayDispose, WellBehaved
  (* The frame that held the page is gone from the pool ...                *)
  <2>2. /\ Coherent(bufTable', bufMap', disk, L)
        /\ \A i \in Frames : bufTable'[i].valid => bufTable'[i].file # f \/ bufTable'[i].pageNo # p
    <3>0. Coherent(bufTable, bufMap, disk, L) /\ DOMAIN bufMap = Frames
      BY DEF CoherentInv, PoolTypeOK
    <3>1. CASE \E v \in Frames : LookupAt(bufMap, f, p, v)
      <4>1. PICK v \in Frames : LookupAt(bufMap, f, p, v)
        BY <3>1
      <4>2. bufTable[v].valid /\ bufTable[v].file = f /\ bufTable[v].pageNo = p
        BY <1>0, <3>0, <4>1, NullFacts, EntryEq DEF LookupAt, Coherent, Mirrors
      <4>3. \A i \in Frames : LookupAt(bufMap, f, p, i) => i = v
        BY <3>0, <4>1, BufsAssumption DEF LookupAt, Frames
      <4>4. bufTable' = [bufTable EXCEPT ![v] = ClearDesc]
        BY <1>2, <4>1, <4>3 DEF DisposeTried, Dropped, CoherentInv, PoolTypeOK
      <4>5. Coherent(bufTable', bufMap', disk, L)
        BY <1>2, <3>0, <4>2, <4>4, ClearedCoherent DEF DisposeTried
      <4>6. \A i \in Frames \ {v} : bufTable'[i] = bufTable[i]
        BY <4>4 DEF CoherentInv, PoolTypeOK
      <4>7. ~bufTable'[v].valid
        BY <4>4 DEF CoherentInv, PoolTypeOK, ClearDesc
      <4>. QED BY <3>0, <4>2, <4>5, <4>6, <4>7 DEF Coherent, Distinct
    <3>2. CASE ~\E v \in Frames : LookupAt(bufMap, f, p, v)
      <4>1. bufTable' = bufTable
        BY <1>2, <3>2 DEF DisposeTried, Dropped, CoherentInv, PoolTypeOK
      <4>2. bufMap' = bufMap
        BY <1>2, <3>0, <3>2 DEF DisposeTried, Remove, CoherentInv, PoolTypeOK
      <4>3. \A v \in Frames : bufMap[v] # Entry(f, p)
        <5>. SUFFICES ASSUME NEW v \in Frames, bufMap[v] = Entry(f, p) PROVE FALSE
          OBVIOUS
        <5>1. bufTable[v].valid /\ bufTable[v].file = f /\ bufTable[v].pageNo = p
          BY <1>0, <3>0, NullFacts, EntryEq DEF Coherent, Mirrors
        <5>2. \A j \in Frames : bufMap[j] = Entry(f, p) => j = v
          BY <1>0, <3>0, <5>1, NullFacts, EntryEq DEF Coherent, Mirrors, Distinct
        <5>3. LookupAt(bufMap, f, p, v)
          BY <3>0, <5>2, BufsAssumption DEF LookupAt, Frames
        <5>. QED BY <3>2, <5>3
      <4>4. LookupFails(bufMap, f, p)
        BY <3>0, <4>3 DEF LookupFails
      <4>. QED BY <3>0, <4>1, <4>2, <4>4, NotBuffered
    <3>. QED BY <3>1, <3>2
  (* ... and every other buffered page stays allocated.                    *)
  <2>3. ASSUME NEW x \in File_, FreeListSound(x),
               \A q \in Page : Allocates(d, q) /\ q # p => Allocates(x, q)
        PROVE  Coherent(bufTable', bufMap', [disk EXCEPT ![n] = x], L)
    BY <1>0, <2>2, <2>3 DEF Coherent, Placed, DescsSound, UnixFileSound
  <2>4. d \in File_ /\ FreeListSound(d)
    BY <1>0, <2>2 DEF Coherent
  <2>5. CASE UNCHANGED disk
    BY <2>2, <2>5
  <2>6. CASE ~DisposeRejected(d, p) /\ disk' = [disk EXCEPT ![n] = Disposed(d, p)]
    <3>1. Allocates(d, p)
      BY <2>1, <2>4, <2>6 DEF DisposeRejected, Allocates, File_, Page
    <3>. QED BY <2>1, <2>3, <2>4, <2>6, <3>1, DisposedType, DisposedSound
  <2>7. ASSUME NEW x \in DisposeFailures(d, p), disk' = [disk EXCEPT ![n] = x]
        PROVE  Coherent(bufTable', bufMap', disk', L)
    BY <2>1, <2>3, <2>4, <2>7, DisposedType, DisposeFailuresSound
  <2>. QED BY <1>2, <2>5, <2>6, <2>7 DEF DisposeTried
<1>. QED BY <1>1, <1>2 DEF DisposePage

-----------------------------------------------------------------------------
(* What a call leaves of the pool, of the disk and of unixFile is coherent. *)
LEMMA CoherentNext ==
  ASSUME NEW L \in SUBSET File, CoherentInv(L), PoolTypeOK', UNCHANGED unixFile,
         Coherent(bufTable', bufMap', disk', L)
  PROVE  CoherentInv(L)'
BY DEF CoherentInv, UnixFileSound, Coherent, Placed, Orphaned

LEMMA CallKeepsFiles ==
  ASSUME NEW f, Fetch(f) \/ Release(f)
  PROVE  UNCHANGED unixFile
BY DEF Fetch, Release, ReadPage, ReadHit, ReadMiss, Exceeded, ReadInto, FrameOutOfRange, Crash,
       DisposePage, UnPinPage, AllocPage, AllocInto, FlushFile

LEMMA CallCoherent ==
  ASSUME NEW L \in SUBSET File, CoherentInv(L), WellBehaved, NEW f \in L,
         (NoStale(L) /\ Fetch(f)) \/ Release(f)
  PROVE  CoherentInv(L)'
<1>. DEFINE Goal == PoolTypeOK' /\ Coherent(bufTable', bufMap', disk', L)
<1>0. f \in File /\ f \in OpenFile /\ PoolTypeOK
  BY LiveOpen DEF CoherentInv
<1>1. ASSUME NoStale(L), NEW p \in 0 .. MaxPage, ReadPage(f, p) PROVE Goal
  BY <1>0, <1>1, ReadPageCoherent, ReadPageType DEF TypedCall
<1>2. ASSUME NoStale(L), AllocPage(f) PROVE Goal
  BY <1>0, <1>2, AllocPageCoherent, AllocPageType DEF TypedCall
<1>3. ASSUME FlushFile(f) PROVE Goal
  BY <1>0, <1>3, FlushFileCoherent, FlushFileType DEF TypedCall
<1>4. ASSUME NEW p \in 0 .. MaxPage, DisposePage(f, p) PROVE Goal
  BY <1>0, <1>4, DisposePageCoherent, DisposePageType DEF TypedCall
<1>5. ASSUME NEW p \in 0 .. MaxPage, NEW dirty \in BOOLEAN, NEW love \in Hints,
             UnPinPage(f, p, dirty, love)
      PROVE  Goal
  BY <1>0, <1>5, UnPinPageCoherent, UnPinPageType, HintsAssumption DEF TypedCall
<1>6. Goal
  BY <1>1, <1>2, <1>3, <1>4, <1>5 DEF Fetch, Release
<1>. QED BY <1>6, CallKeepsFiles, CoherentNext

LEMMA StoreCoherent ==
  ASSUME NEW L \in SUBSET File, CoherentInv(L), NEW i \in Frames, NEW c \in Value, WritePage(i, c)
  PROVE  CoherentInv(L)'
<1>1. PoolTypeOK'
  BY WritePageType DEF CoherentInv, TypedCall
<1>. QED BY <1>1, CoherentNext DEF WritePage, CoherentInv

LEMMA EndCoherent ==
  ASSUME NEW L \in SUBSET File, CoherentInv(L), Delete
  PROVE  CoherentInv(L)'
<1>1. PoolTypeOK' /\ unixFile' = unixFile
  BY DeleteType DEF CoherentInv, TypedCall, Delete, Crash
<1>. QED BY <1>1, DeleteCoherent, CoherentNext

(* In BufMgr alone every File object keeps the file it leads to.           *)
LEMMA AllLive ==
  ASSUME CoherentInv(File)
  PROVE  OpenFile = File /\ NoStale(File)
BY NullFacts DEF CoherentInv, UnixFileSound, OpenFile, NoStale, Coherent, DescsSound

LEMMA CoherentInit == Init => CoherentInv(File)
<1>. SUFFICES ASSUME Init PROVE CoherentInv(File)
  OBVIOUS
<1>1. PoolTypeOK
  BY InitType, TypeParts
<1>2. UnixFileSound(File)
  BY DEF Init, NewBufMgr, UnixFileSound
<1>3. DescsSound(bufTable) /\ Mirrors(bufTable, bufMap) /\ Distinct(bufTable)
      /\ Placed(bufTable, disk, File) /\ Orphaned(bufTable, File)
  BY DEF Init, NewBufMgr, DescsSound, Mirrors, Distinct, Placed, Orphaned, ClearDesc
<1>4. \A n \in Inode : FreeListSound(disk[n])
  BY EmptyFreeList DEF Init, NewBufMgr, NewFile
<1>. QED BY <1>1, <1>2, <1>3, <1>4
         DEF CoherentInv, Coherent, PoolTypeOK, TableType, MapType

LEMMA CoherentStep ==
  ASSUME WellBehaved, CoherentInv(File), [Next]_vars
  PROVE  CoherentInv(File)'
<1>1. CASE UNCHANGED vars
  BY <1>1 DEF vars, CoherentInv, PoolTypeOK, UnixFileSound, Coherent, Placed, Orphaned
<1>2. ASSUME NEW f \in OpenFile, Fetch(f) \/ Release(f)
      PROVE  CoherentInv(File)'
  BY <1>2, AllLive, CallCoherent
<1>3. CASE ClearBufStats
  <2>1. PoolTypeOK'
    BY <1>3, ClearBufStatsType DEF CoherentInv, TypedCall
  <2>. QED BY <1>3, <2>1, CoherentNext DEF ClearBufStats, CoherentInv
<1>. QED BY <1>1, <1>2, <1>3, EndCoherent, StoreCoherent DEF Next, Call

(* The inductive invariant.                                                *)
LEMMA CoherentAlways ==
  ASSUME WellBehaved
  PROVE  Spec => []CoherentInv(File)
<1>. QED BY CoherentStep, CoherentInit, PTL DEF Spec

(* The pool is coherent after every call of a well-behaved client,         *)
(* whatever reads, allocations, disposes and flushes fail, as long as      *)
(* victims can be written (after a failure allocBuf's caller uses an unset *)
(* frame number, buf.cpp:106 and 209): the map says what the table says,   *)
(* no page is in two frames, buffered pages are allocated and the free     *)
(* lists well-formed.                                                      *)
THEOREM PoolCoherent ==
  ASSUME WellBehaved
  PROVE  Spec => [](MapMirrorsTable /\ NoDuplicatePages /\ BufferedPagesAllocated /\ FreeListsSound)
<1>1. ASSUME CoherentInv(File)
      PROVE  MapMirrorsTable /\ NoDuplicatePages /\ BufferedPagesAllocated /\ FreeListsSound
  <2>1. \A i \in Frames : bufTable[i].valid => TargetOf(i) = unixFile[bufTable[i].file]
                                               /\ bufTable[i].file \in File
    BY <1>1, TargetSound
  <2>2. NoDuplicatePages
    BY <1>1, <2>1 DEF NoDuplicatePages, CoherentInv, Coherent, Distinct, UnixFileSound
  <2>3. BufferedPagesAllocated
    BY <1>1, TargetSound DEF BufferedPagesAllocated, DiskOf
  <2>. QED BY <1>1, <2>2, <2>3
           DEF MapMirrorsTable, FreeListsSound, CoherentInv, Coherent, Mirrors
<1>. QED BY <1>1, CoherentAlways, PTL

(* BufMap says of every page what the table says, under WellBehaved:       *)
(* lookup finds the page in its frame or nowhere, and no entry leads to a  *)
(* frame that was given away.                                              *)
THEOREM MapMirrors ==
  ASSUME WellBehaved
  PROVE  Spec => []MapMirrorsTable
<1>. QED BY PoolCoherent, PTL

(* Every buffered page is allocated, under WellBehaved: the late write of  *)
(* a dirty frame never lands on a page of the free list.                   *)
THEOREM BufferedStayAllocated ==
  ASSUME WellBehaved
  PROVE  Spec => []BufferedPagesAllocated
<1>. QED BY PoolCoherent, PTL

(* Every free list on disk ends and links free pages only, whatever write  *)
(* of allocatePage or disposePage failed before; the writes of victims do  *)
(* not fail (WellBehaved).                                                 *)
THEOREM FreeListsStaySound ==
  ASSUME WellBehaved
  PROVE  Spec => []FreeListsSound
<1>. QED BY PoolCoherent, PTL

-----------------------------------------------------------------------------
(* BUFFEREXCEEDED.  Only a sweep that found nothing gives this answer, and *)
(* it leaves every frame valid and unloved.                                *)

Exceeds == \E op \in {"readPage", "allocPage"} : Exceeded(op)

SweptOut(t) == \A i \in Frames : t[i].valid /\ ~t[i].loved

SweptInv ==
  TypeOK /\ (ret.status = "BUFFEREXCEEDED" /\ process = "running" => SweptOut(bufTable))

LEMMA ReplyFields ==
  /\ \A op, s : Reply(op, s).status = s /\ Reply(op, s).op = op
  /\ \A op, s, f, p : CallReply(op, s, f, p).status = s /\ CallReply(op, s, f, p).op = op
  /\ \A op, f, p, c : PageReply(op, f, p, c).status = "OK"
BY DEF Reply, CallReply, PageReply

LEMMA UnPinCases ==
  ASSUME NEW f, NEW p, NEW dirty, NEW love, UnPinPage(f, p, dirty, love)
  PROVE  /\ bufPool' = bufPool
         /\ \/ /\ bufTable' = bufTable
               /\ \/ ret' = Reply("unPinPage", "PAGENOTPINNED")
                  \/ ret' = Reply("unPinPage", "BUFMAPNOTFOUND")
            \/ \E j \in Frames : LosePin(j, dirty, love)
BY DEF UnPinPage, UnPinFound, NotPinned, UnPinNotFound

LEMMA OnlyExceededAnswers ==
  ASSUME Next
  PROVE  Exceeds \/ process' # "running" \/ ret'.status # "BUFFEREXCEEDED"
<1>. DEFINE Goal == Exceeds \/ process' # "running" \/ ret'.status # "BUFFEREXCEEDED"
<1>1. ASSUME NEW f \in OpenFile, NEW p \in 0 .. MaxPage, ReadPage(f, p) PROVE Goal
  <2>1. CASE ReadHit(f, p)
    BY <2>1, ReplyFields DEF ReadHit
  <2>2. CASE Exceeded("readPage")
    BY <2>2 DEF Exceeds
  <2>3. ASSUME NEW e \in AllocBufResults, ReadInto(f, p, e) PROVE Goal
    BY <2>3, ReplyFields DEF ReadInto, SetUpReply
  <2>4. CASE FrameOutOfRange("readPage")
    BY <2>4 DEF FrameOutOfRange, Crash
  <2>. QED BY <1>1, <2>1, <2>2, <2>3, <2>4 DEF ReadPage, ReadMiss
<1>2. ASSUME NEW f \in OpenFile, NEW p \in 0 .. MaxPage, DisposePage(f, p) PROVE Goal
  <2>1. CASE DisposeRefused(f, p)
    BY <2>1, ReplyFields DEF DisposeRefused
  <2>2. CASE DisposeTried(f, p)
    <3>1. \/ ret' = CallReply("disposePage", "OK", f, p)
          \/ ret' = Reply("disposePage", "UNIXERR")
      BY <2>2 DEF DisposeTried
    <3>. QED BY <3>1, ReplyFields
  <2>. QED BY <1>2, <2>1, <2>2 DEF DisposePage
<1>3. ASSUME NEW f \in OpenFile, NEW p \in 0 .. MaxPage, NEW dirty \in BOOLEAN,
             NEW love \in Hints, UnPinPage(f, p, dirty, love)
      PROVE  Goal
  <2>1. ASSUME NEW j \in Frames, LosePin(j, dirty, love) PROVE Goal
    BY <2>1, ReplyFields DEF LosePin
  <2>. QED BY <1>3, <2>1, UnPinCases, ReplyFields
<1>4. ASSUME NEW f \in OpenFile, AllocPage(f) PROVE Goal
  <2>1. CASE Exceeded("allocPage")
    BY <2>1 DEF Exceeds
  <2>2. ASSUME NEW e \in AllocBufResults, AllocInto(f, e) PROVE Goal
    BY <2>2, ReplyFields DEF AllocInto, SetUpReply
  <2>3. CASE FrameOutOfRange("allocPage")
    BY <2>3 DEF FrameOutOfRange, Crash
  <2>. QED BY <1>4, <2>1, <2>2, <2>3 DEF AllocPage
<1>5. ASSUME NEW f \in OpenFile, FlushFile(f) PROVE Goal
  BY <1>5, ReplyFields DEF FlushFile, Crash
<1>6. CASE ClearBufStats
  BY <1>6, ReplyFields DEF ClearBufStats
<1>7. CASE Delete
  BY <1>7, ReplyFields DEF Delete, Crash
<1>8. ASSUME NEW i \in Frames, NEW c \in Value, WritePage(i, c) PROVE Goal
  BY <1>8, ReplyFields DEF WritePage
<1>. QED BY <1>1, <1>2, <1>3, <1>4, <1>5, <1>6, <1>7, <1>8 DEF Next, Call, Fetch, Release

LEMMA ExceedsSweepsOut ==
  ASSUME TypeOK, Exceeds
  PROVE  SweptOut(bufTable')
<1>1. ASSUME NEW i \in Frames
      PROVE  bufTable'[i].valid /\ ~bufTable'[i].loved
  <2>1. bufTable[i] \in BufDesc /\ bufTable[i].valid /\ bufTable'[i] = Unloved(bufTable[i])
    BY DEF Exceeds, Exceeded, NoVictim, Replaceable, SweptAll, TypeOK
  <2>. QED BY <2>1 DEF Unloved, BufDesc
<1>. QED BY <1>1 DEF SweptOut

LEMMA SweptStep == SweptInv /\ [Next]_vars => SweptInv'
<1>. SUFFICES ASSUME SweptInv, [Next]_vars PROVE SweptInv'
  OBVIOUS
<1>1. TypeOK'
  BY TypeStep DEF SweptInv
<1>2. CASE UNCHANGED vars
  BY <1>1, <1>2 DEF SweptInv, SweptOut, vars
<1>3. CASE Next
  BY <1>1, <1>3, OnlyExceededAnswers, ExceedsSweepsOut DEF SweptInv
<1>. QED BY <1>2, <1>3

(* allocBuf clears every loved bit before it gives up, so the call that    *)
(* follows a BUFFEREXCEEDED fails again only if every frame is pinned --   *)
(* whatever faults occur and however careless the client is.               *)
THEOREM SecondCall == Spec => SecondCallSucceeds
<1>1. Init => SweptInv
  BY InitType, ReplyFields DEF Init, NewBufMgr, SweptInv
<1>2. ASSUME SweptInv, [Next]_vars
      PROVE  [ret.status = "BUFFEREXCEEDED" /\ ret'.status = "BUFFEREXCEEDED"
              /\ process' = "running" => \A i \in Frames : Pinned(i)]_vars
  <2>. SUFFICES ASSUME Next, ret.status = "BUFFEREXCEEDED", Exceeds, NEW i \in Frames
                PROVE  Pinned(i)
    BY <1>2, OnlyExceededAnswers
  <2>1. process = "running"
    BY DEF Next
  <2>2. bufTable[i] \in BufDesc /\ bufTable[i].valid /\ ~bufTable[i].loved
    BY <1>2, <2>1 DEF SweptInv, SweptOut, TypeOK
  <2>3. ~Replaceable(bufTable[i])
    BY DEF Exceeds, Exceeded, NoVictim
  <2>. QED BY <2>2, <2>3 DEF Replaceable, Pinned, BufDesc
<1>. QED BY <1>1, <1>2, SweptStep, PTL DEF Spec, SecondCallSucceeds

-----------------------------------------------------------------------------
(* Pinned and loved frames.  allocBuf gives neither away, and no other     *)
(* frame changes but for its loved bit.                                    *)

Steady(i) ==
  /\ SamePage(i) /\ bufTable'[i].valid = bufTable[i].valid
  /\ ~(bufTable'[i].pinCnt < bufTable[i].pinCnt) /\ bufPool'[i] = bufPool[i]

Wanted(i) == bufTable[i].valid /\ (bufTable[i].loved \/ Pinned(i))

LEMMA PinnedIsWanted ==
  ASSUME NEW L \in SUBSET File, CoherentInv(L), NEW i \in Frames, Pinned(i)
  PROVE  Wanted(i)
BY DEF CoherentInv, Coherent, DescsSound, Pinned, Wanted, ClearDesc

LEMMA EvictedSparesWanted ==
  ASSUME NEW L \in SUBSET File, CoherentInv(L), NoStale(L), WellBehaved,
         NEW e \in AllocBufResults, NEW i \in Frames, Wanted(i)
  PROVE  /\ e \in ResultType /\ i # e.frame
         /\ e.table[i].file = bufTable[i].file /\ e.table[i].pageNo = bufTable[i].pageNo
         /\ e.table[i].valid = bufTable[i].valid /\ e.table[i].pinCnt = bufTable[i].pinCnt
<1>1. e \in ResultType
  BY EvictedCoherent
<1>2. PICK v \in Frames : Victim(bufTable, clockHand, v) /\ e = Evicted(v)
  <2>1. ASSUME NEW v \in Frames PROVE ~EvictFails(v)
    BY <2>1, TargetSound, NullFacts DEF WellBehaved, EvictFails, MustWrite, NoStale
  <2>. QED BY <2>1 DEF AllocBufResults, Victims
<1>3. bufTable[i] \in BufDesc
  BY DEF CoherentInv, PoolTypeOK
<1>4. i # v /\ e.frame = v
  BY <1>2, <1>3 DEF Victim, Replaceable, Wanted, Pinned, Evicted, BufDesc
<1>5. e.table[i] = bufTable[i] \/ e.table[i] = Unloved(bufTable[i])
  BY <1>2, <1>4 DEF Evicted, SweptTo
<1>. QED BY <1>1, <1>3, <1>4, <1>5 DEF Unloved, BufDesc

LEMMA ExceededSteady ==
  ASSUME NEW L \in SUBSET File, CoherentInv(L), NEW op, Exceeded(op), NEW i \in Frames
  PROVE  Steady(i)
<1>1. bufTable[i] \in BufDesc /\ bufTable'[i] = Unloved(bufTable[i]) /\ bufPool' = bufPool
  BY DEF Exceeded, SweptAll, CoherentInv, PoolTypeOK
<1>. QED BY <1>1 DEF Steady, SamePage, Unloved, BufDesc

LEMMA ReadPageSteady ==
  ASSUME NEW L \in SUBSET File, CoherentInv(L), NoStale(L), WellBehaved, NEW f \in L,
         NEW p \in 0 .. MaxPage,
         ReadPage(f, p), NEW i \in Frames, Wanted(i)
  PROVE  Steady(i)
<1>0. bufTable \in TableType /\ bufTable[i] \in BufDesc /\ bufPool \in [Frames -> Content]
  BY DEF CoherentInv, PoolTypeOK, TableType
<1>1. CASE ReadHit(f, p)
  BY <1>0, <1>1 DEF ReadHit, Steady, SamePage, TableType, BufDesc
<1>2. CASE Exceeded("readPage")
  BY <1>2, ExceededSteady
<1>3. ASSUME NEW e \in AllocBufResults, ReadInto(f, p, e)
      PROVE  Steady(i)
  <2>1. /\ e \in ResultType /\ i # e.frame
        /\ e.table[i].file = bufTable[i].file /\ e.table[i].pageNo = bufTable[i].pageNo
        /\ e.table[i].valid = bufTable[i].valid /\ e.table[i].pinCnt = bufTable[i].pinCnt
    BY EvictedSparesWanted
  <2>2. bufPool'[i] = bufPool[i]
    BY <1>0, <1>3, <2>1 DEF ReadInto
  <2>3. bufTable'[i] = e.table[i]
    BY <1>3, <2>1 DEF ReadInto, SetUp, LeaveFree, ResultType, TableType
  <2>. QED BY <1>0, <2>1, <2>2, <2>3 DEF Steady, SamePage, BufDesc
<1>4. CASE FrameOutOfRange("readPage")
  BY <1>0, <1>4 DEF FrameOutOfRange, Crash, Steady, SamePage, BufDesc
<1>. QED BY <1>1, <1>2, <1>3, <1>4 DEF ReadPage, ReadMiss

LEMMA AllocPageSteady ==
  ASSUME NEW L \in SUBSET File, CoherentInv(L), NoStale(L), WellBehaved, NEW f \in L,
         AllocPage(f), NEW i \in Frames, Wanted(i)
  PROVE  Steady(i)
<1>0. bufTable \in TableType /\ bufTable[i] \in BufDesc
  BY DEF CoherentInv, PoolTypeOK, TableType
<1>1. CASE Exceeded("allocPage")
  BY <1>1, ExceededSteady
<1>2. ASSUME NEW e \in AllocBufResults, AllocInto(f, e)
      PROVE  Steady(i)
  <2>1. /\ e \in ResultType /\ i # e.frame
        /\ e.table[i].file = bufTable[i].file /\ e.table[i].pageNo = bufTable[i].pageNo
        /\ e.table[i].valid = bufTable[i].valid /\ e.table[i].pinCnt = bufTable[i].pinCnt
    BY EvictedSparesWanted
  <2>2. bufPool' = bufPool
    BY <1>2 DEF AllocInto
  <2>3. bufTable'[i] = e.table[i]
    BY <1>2, <2>1 DEF AllocInto, SetUp, LeaveFree, ResultType, TableType
  <2>. QED BY <1>0, <2>1, <2>2, <2>3 DEF Steady, SamePage, BufDesc
<1>3. CASE FrameOutOfRange("allocPage")
  BY <1>0, <1>3 DEF FrameOutOfRange, Crash, Steady, SamePage, BufDesc
<1>. QED BY <1>1, <1>2, <1>3 DEF AllocPage

(* What the other calls change of a wanted frame.                          *)
LEMMA OtherCalls ==
  ASSUME NEW L \in SUBSET File, CoherentInv(L), NEW i \in Frames, Wanted(i),
         NEW f \in File, NEW p \in 0 .. MaxPage
  PROVE  /\ DisposePage(f, p) =>
              bufPool' = bufPool /\ (bufTable'[i] = bufTable[i]
                                     \/ (ret'.op = "disposePage" /\ ~Pinned(i)))
         /\ \A dirty \in BOOLEAN, love \in Hints : UnPinPage(f, p, dirty, love) =>
              /\ SamePage(i) /\ bufTable'[i].valid /\ bufPool' = bufPool
              /\ ret'.op = "unPinPage"
<1>0. bufTable \in TableType /\ bufTable[i] \in BufDesc
  BY DEF CoherentInv, PoolTypeOK, TableType
<1>1. ASSUME DisposePage(f, p)
      PROVE  bufPool' = bufPool /\ (bufTable'[i] = bufTable[i]
                                     \/ (ret'.op = "disposePage" /\ ~Pinned(i)))
  <2>1. CASE DisposeRefused(f, p)
    BY <1>1, <2>1 DEF DisposePage, DisposeRefused
  <2>2. CASE DisposeTried(f, p)
    <3>1. \/ ret' = CallReply("disposePage", "OK", f, p)
          \/ ret' = Reply("disposePage", "UNIXERR")
      BY <2>2 DEF DisposeTried
    <3>2. bufTable'[i] = Dropped(f, p, i) /\ ~PinnedPage(f, p)
      BY <2>2 DEF DisposeTried
    <3>3. bufTable'[i] = bufTable[i] \/ ~Pinned(i)
      BY <3>2 DEF Dropped, PinnedPage, Pinned
    <3>4. ret'.op = "disposePage"
      BY <3>1, ReplyFields
    <3>. QED BY <1>1, <3>3, <3>4 DEF DisposePage
  <2>. QED BY <1>1, <2>1, <2>2 DEF DisposePage
<1>2. ASSUME NEW dirty \in BOOLEAN, NEW love \in Hints, UnPinPage(f, p, dirty, love)
      PROVE  SamePage(i) /\ bufTable'[i].valid /\ bufPool' = bufPool /\ ret'.op = "unPinPage"
  <2>1. ASSUME bufTable' = bufTable PROVE SamePage(i) /\ bufTable'[i].valid
    BY <2>1 DEF SamePage, Wanted
  <2>2. ASSUME NEW j \in Frames, LosePin(j, dirty, love)
        PROVE  SamePage(i) /\ bufTable'[i].valid /\ ret'.op = "unPinPage"
    <3>1. SamePage(i) /\ bufTable'[i].valid = bufTable[i].valid
      BY <1>0, <2>2 DEF LosePin, SamePage, TableType, BufDesc
    <3>2. ret'.op = "unPinPage"
      BY <2>2 DEF LosePin, Reply
    <3>. QED BY <3>1, <3>2 DEF Wanted
  <2>3. ret'.op = "unPinPage"
    <3>1. CASE bufTable' = bufTable /\ ~\E j \in Frames : LosePin(j, dirty, love)
      BY <1>2, <3>1, UnPinCases DEF Reply
    <3>. QED BY <1>2, <2>2, <3>1, UnPinCases
  <2>. QED BY <1>2, <2>1, <2>2, <2>3, UnPinCases
<1>. QED BY <1>1, <1>2

LEMMA WholeCalls ==
  /\ \A f : FlushFile(f) => UNCHANGED <<bufTable, bufPool>>
  /\ ClearBufStats \/ Delete => UNCHANGED <<bufTable, bufPool>>
  /\ \A j \in Frames, c \in Value :
       WritePage(j, c) => bufTable' = bufTable /\ ret'.op = "writePage"
BY DEF FlushFile, WriteScanned, ClearBufStats, Delete, Crash, WritePage, Reply

-----------------------------------------------------------------------------
(* The Page* that a pinned page gave a client stays good while victims can *)
(* be written (WellBehaved): no call of a well-behaved client moves the    *)
(* page, changes its bytes or takes a pin away except the store and the    *)
(* unPinPage themselves.                                                   *)
THEOREM PinnedStay ==
  ASSUME WellBehaved
  PROVE  Spec => PinnedFramesStay
<1>. DEFINE Stays(i) == /\ SamePage(i) /\ bufTable'[i].valid
                        /\ bufPool'[i] # bufPool[i] => ret'.op = "writePage"
                        /\ bufTable'[i].pinCnt < bufTable[i].pinCnt => ret'.op = "unPinPage"
<1>1. ASSUME CoherentInv(File), Next, NEW i \in Frames, Pinned(i)
      PROVE  Stays(i)
  <2>a. OpenFile = File /\ NoStale(File)
    BY <1>1, AllLive
  <2>0. Wanted(i) /\ ~(bufTable[i].pinCnt < bufTable[i].pinCnt)
    BY <1>1, PinnedIsWanted DEF CoherentInv, PoolTypeOK, BufDesc
  <2>1. CASE Steady(i)
    BY <2>0, <2>1 DEF Steady, Wanted
  <2>2. CASE bufTable'[i] = bufTable[i] /\ (bufPool' = bufPool \/ ret'.op = "writePage")
    BY <2>0, <2>2 DEF SamePage, Wanted
  <2>3. CASE SamePage(i) /\ bufTable'[i].valid /\ bufPool' = bufPool /\ ret'.op = "unPinPage"
    BY <2>3
  <2>4. ASSUME NEW f \in OpenFile, NEW p \in 0 .. MaxPage, ReadPage(f, p) PROVE Stays(i)
    BY <1>1, <2>0, <2>1, <2>4, <2>a, ReadPageSteady
  <2>5. ASSUME NEW f \in OpenFile, AllocPage(f) PROVE Stays(i)
    BY <1>1, <2>0, <2>1, <2>5, <2>a, AllocPageSteady
  <2>6. ASSUME NEW f \in OpenFile, NEW p \in 0 .. MaxPage, DisposePage(f, p) PROVE Stays(i)
    BY <1>1, <2>0, <2>2, <2>6, <2>a, OtherCalls
  <2>7. ASSUME NEW f \in OpenFile, NEW p \in 0 .. MaxPage, NEW dirty \in BOOLEAN,
               NEW love \in Hints, UnPinPage(f, p, dirty, love)
        PROVE  Stays(i)
    BY <1>1, <2>0, <2>3, <2>7, <2>a, OtherCalls
  <2>8. ASSUME NEW f \in OpenFile, FlushFile(f) PROVE Stays(i)
    BY <1>1, <2>0, <2>2, <2>8, WholeCalls
  <2>9. ASSUME ClearBufStats \/ Delete PROVE Stays(i)
    BY <1>1, <2>0, <2>2, <2>9, WholeCalls
  <2>10. ASSUME NEW j \in Frames, NEW c \in Value, WritePage(j, c) PROVE Stays(i)
    BY <1>1, <2>0, <2>2, <2>10, WholeCalls
  <2>. QED BY <1>1, <2>4, <2>5, <2>6, <2>7, <2>8, <2>9, <2>10 DEF Next, Call, Fetch, Release
<1>2. CoherentInv(File) /\ [Next]_vars => [\A i \in Frames : Pinned(i) => Stays(i)]_vars
  BY <1>1
<1>. QED BY <1>2, CoherentAlways, PTL DEF Spec, PinnedFramesStay

(* A page given back with a love hint is not the victim of the sweep that  *)
(* finds it loved; only disposePage takes it out of the pool at once. The  *)
(* client is well-behaved and victims can be written (WellBehaved).        *)
THEOREM LovedSpared ==
  ASSUME WellBehaved
  PROVE  Spec => LovedFramesSpared
<1>. DEFINE Spared(i) == bufTable[i].valid /\ bufTable[i].loved /\ ~SamePage(i)
                           => ret'.op = "disposePage"
<1>1. ASSUME CoherentInv(File), Next, NEW i \in Frames
      PROVE  Spared(i)
  <2>. SUFFICES ASSUME Wanted(i) PROVE SamePage(i) \/ ret'.op = "disposePage"
    BY DEF Wanted
  <2>a. OpenFile = File /\ NoStale(File)
    BY <1>1, AllLive
  <2>2. ASSUME NEW f \in OpenFile, NEW p \in 0 .. MaxPage, ReadPage(f, p) PROVE SamePage(i)
    BY <1>1, <2>2, <2>a, ReadPageSteady DEF Steady
  <2>3. ASSUME NEW f \in OpenFile, AllocPage(f) PROVE SamePage(i)
    BY <1>1, <2>3, <2>a, AllocPageSteady DEF Steady
  <2>4. ASSUME NEW f \in OpenFile, NEW p \in 0 .. MaxPage, DisposePage(f, p)
        PROVE  SamePage(i) \/ ret'.op = "disposePage"
    BY <1>1, <2>4, <2>a, OtherCalls DEF SamePage
  <2>5. ASSUME NEW f \in OpenFile, NEW p \in 0 .. MaxPage, NEW dirty \in BOOLEAN,
               NEW love \in Hints, UnPinPage(f, p, dirty, love)
        PROVE  SamePage(i)
    BY <1>1, <2>5, <2>a, OtherCalls
  <2>6. ASSUME (\E f \in OpenFile : FlushFile(f)) \/ ClearBufStats \/ Delete
               \/ \E j \in Frames, c \in Value : WritePage(j, c)
        PROVE  SamePage(i)
    <3>1. bufTable' = bufTable
      BY <2>6, WholeCalls
    <3>. QED BY <3>1 DEF SamePage
  <2>. QED BY <1>1, <2>2, <2>3, <2>4, <2>5, <2>6 DEF Next, Call, Fetch, Release
<1>2. CoherentInv(File) /\ [Next]_vars => [\A i \in Frames : Spared(i)]_vars
  BY <1>1
<1>. QED BY <1>2, CoherentAlways, PTL DEF Spec, LovedFramesSpared
=============================================================================
