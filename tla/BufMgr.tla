------------------------------- MODULE BufMgr -------------------------------
(***************************************************************************)
(* Class BufMgr (484_proj_3/buf.cpp): a pool of page frames in front of    *)
(* the database files, with the "clock with love hints" replacement.       *)
(*                                                                         *)
(* The program is sequential: one action is one call of a public method,   *)
(* from entry to return, together with the calls it makes on BufMap and    *)
(* File.  What varies is the order in which the client makes its calls and *)
(* which Unix calls fail.  WritePage is the client's own store through the *)
(* Page* that a pinned page gave it.                                       *)
(***************************************************************************)
EXTENDS DBFile, BufMap, Clock

CONSTANTS
  File,     (* the File objects the client holds                           *)
  Inode,    (* the Unix files                                              *)
  MaxPin,   (* bound: no page is pinned more often than this               *)
  StatMod,  (* the counters of BufStats wrap at this number (2^32)         *)
  Hints,    (* the love hints clients give to unPinPage                    *)
  Misuse    (* calls of a careless client, see MisuseNames                 *)

MisuseNames ==
  {"disposeTwice",     (* disposes of a page that is already disposed of   *)
   "readUnallocated"}  (* reads a page that allocPage never returned       *)

ASSUME BoundsAssumption == MaxPin \in Nat \ {0} /\ StatMod \in Nat \ {0}
ASSUME HintsAssumption == Hints \subseteq BOOLEAN
ASSUME NullAssumption == NULL \notin File \cup Inode /\ NULL \notin Content
ASSUME MisuseAssumption == Misuse \subseteq MisuseNames
ASSUME StoreAssumption == "gone" \notin Value /\ "blank" \notin Value

VARIABLES
  clockHand, bufTable, bufMap, bufPool, bufStats,
  disk,      (* the contents of the Unix files                             *)
  unixFile,  (* the Unix file a File object's descriptor leads to, or NULL *)
  process,   (* running, exited, crashed, or hung in a call                *)
  ret        (* what the last call returned                                *)

vars == <<clockHand, bufTable, bufMap, bufPool, bufStats, disk, unixFile, process, ret>>

BufDesc == [file : File \cup {NULL}, pageNo : Page \cup {-1}, pinCnt : 0 .. MaxPin,
            dirty : BOOLEAN, valid : BOOLEAN, loved : BOOLEAN]

ClearDesc == [file |-> NULL, pageNo |-> -1, pinCnt |-> 0,
              dirty |-> FALSE, valid |-> FALSE, loved |-> FALSE]

SetDesc(f, p) == [file |-> f, pageNo |-> p, pinCnt |-> 1,
                  dirty |-> FALSE, valid |-> TRUE, loved |-> FALSE]

NoStats == [accesses |-> 0, diskreads |-> 0, diskwrites |-> 0]

Reply(op, status) ==
  [op |-> op, status |-> status, file |-> NULL, pageNo |-> -1, data |-> NULL]

CallReply(op, status, f, p) == [Reply(op, status) EXCEPT !.file = f, !.pageNo = p]

PageReply(op, f, p, c) ==
  [op |-> op, status |-> "OK", file |-> f, pageNo |-> p, data |-> c]

Ops == {"none", "readPage", "writePage", "unPinPage", "flushFile",
        "disposePage", "allocPage", "clearBufStats", "delete"}

Statuses == {"OK", "UNIXERR", "BUFFEREXCEEDED", "BUFMAPERROR", "BUFMAPNOTFOUND",
             "PAGEPINNED", "PAGENOTPINNED", "BADPAGENO"}

-----------------------------------------------------------------------------
(* Bookkeeping shared by the calls *)

Count(accesses, reads, writes) ==
  bufStats' = [accesses   |-> (bufStats.accesses + accesses) % StatMod,
               diskreads  |-> (bufStats.diskreads + reads) % StatMod,
               diskwrites |-> (bufStats.diskwrites + writes) % StatMod]

OpenFile == {f \in File : unixFile[f] # NULL}

(* The Unix file that receives a write through a frame's File*, or NULL.   *)
TargetOf(i) == IF bufTable[i].file = NULL THEN NULL ELSE unixFile[bufTable[i].file]

(* ::read and ::write of the frame's file reach this content.              *)
OnDisk(i) == disk[TargetOf(i)].page[bufTable[i].pageNo]

numUnpinnedPages == Cardinality({i \in Frames : bufTable[i].pinCnt = 0})

-----------------------------------------------------------------------------
(* allocBuf.  Clock says which frame the sweep of the hand finds.          *)

MustWrite(v) == bufTable[v].valid /\ bufTable[v].dirty

EvictSucceeds(v) == MustWrite(v) => TargetOf(v) # NULL
EvictFails(v) == MustWrite(v) /\ ("evict" \in Faults \/ TargetOf(v) = NULL)

(* What allocBuf leaves when it returns OK: the frame it reports, and the  *)
(* table, map and disk.                                                    *)
Evicted(v) ==
  [frame |-> v, hand |-> v,
   table |-> [SweptTo(bufTable, clockHand, v) EXCEPT ![v] = ClearDesc],
   map   |-> IF bufTable[v].valid
             THEN Remove(bufMap, bufTable[v].file, bufTable[v].pageNo) ELSE bufMap,
   disk  |-> IF MustWrite(v)
             THEN [disk EXCEPT ![TargetOf(v)] = Written(@, bufTable[v].pageNo, bufPool[v])]
             ELSE disk,
   writes |-> IF MustWrite(v) THEN 1 ELSE 0]

(* On UNIXERR the victim stays, and the caller's frame number is the       *)
(* uninitialized variable it passed by reference: any u.                   *)
Unset(v, u) ==
  [frame |-> u, hand |-> v, table |-> SweptTo(bufTable, clockHand, v),
   map |-> bufMap, disk |-> disk, writes |-> 0]

(* readPage and allocPage return at once on BUFFEREXCEEDED ...             *)
Exceeded(op) ==
  /\ NoVictim(bufTable)
  /\ clockHand' = Advance(clockHand)
  /\ bufTable' = SweptAll(bufTable)
  /\ ret' = Reply(op, "BUFFEREXCEEDED")
  /\ Count(1, 0, 0)
  /\ UNCHANGED <<bufMap, bufPool, disk, unixFile, process>>

(* ... and use the frame number in every other case.                       *)

Victims == {v \in Frames : Victim(bufTable, clockHand, v)}

AllocBufResults ==
  {Evicted(v) : v \in {v \in Victims : EvictSucceeds(v)}} \cup
  {Unset(v, u) : v \in {v \in Victims : EvictFails(v)}, u \in Frames}

Crash(op) ==
  /\ process' = "crashed"
  /\ ret' = Reply(op, "UNIXERR")
  /\ UNCHANGED <<clockHand, bufTable, bufMap, bufPool, bufStats, disk, unixFile>>

(* An uninitialized frame number can also lie outside of the pool.         *)
FrameOutOfRange(op) == (\E v \in Victims : EvictFails(v)) /\ Crash(op)

(* The frame is set up for page p: Set and BufMap::insert.                 *)
SetUp(e, f, p) ==
  /\ bufTable' = [e.table EXCEPT ![e.frame] = SetDesc(f, p)]
  /\ bufMap' = Insert(e.map, f, p, e.frame)

SetUpReply(e, op, f, p, c) ==
  IF InsertFails(e.map, e.frame) THEN Reply(op, "BUFMAPERROR") ELSE PageReply(op, f, p, c)

(* The call ends before that.                                              *)
LeaveFree(e) == bufTable' = e.table /\ bufMap' = e.map

-----------------------------------------------------------------------------
(* readPage *)

ReadHit(f, p) ==
  \E i \in Frames :
    /\ LookupAt(bufMap, f, p, i)
    /\ bufTable[i].pinCnt < MaxPin
    /\ bufTable' = [bufTable EXCEPT ![i].pinCnt = @ + 1]
    /\ ret' = PageReply("readPage", f, p, bufPool[i])
    /\ Count(1, 0, 0)
    /\ UNCHANGED <<clockHand, bufMap, bufPool, disk, unixFile, process>>

(* File::readPage into the frame e.frame; BADPAGENO is not passed on, the  *)
(* call returns OK and leaves the client's Page* as it was.                *)
ReadInto(f, p, e) ==
  LET d == e.disk[unixFile[f]] IN
  /\ clockHand' = e.hand /\ disk' = e.disk
  /\ \/ /\ ReadSucceeds(d, p)
        /\ SetUp(e, f, p)
        /\ bufPool' = [bufPool EXCEPT ![e.frame] = d.page[p]]
        /\ ret' = SetUpReply(e, "readPage", f, p, d.page[p])
        /\ Count(1, 1, e.writes)
        /\ UNCHANGED process
     \/ /\ ReadRejected(d, p) \/ ReadFails(d, p) \/ ReadHangs(d, p)
        /\ LeaveFree(e)
        /\ Count(1, 0, e.writes)
        /\ \/ ReadRejected(d, p) /\ ret' = Reply("readPage", "OK") /\ UNCHANGED process
           \/ ReadFails(d, p) /\ ret' = Reply("readPage", "UNIXERR") /\ UNCHANGED process
           \/ ReadHangs(d, p) /\ process' = "hung" /\ UNCHANGED ret
        /\ UNCHANGED bufPool
  /\ UNCHANGED unixFile

ReadMiss(f, p) ==
  /\ LookupFails(bufMap, f, p)
  /\ \/ Exceeded("readPage")
     \/ \E e \in AllocBufResults : ReadInto(f, p, e)
     \/ FrameOutOfRange("readPage")

(* The client reads pages allocPage gave it and not those it disposed of,  *)
(* except that a page number that is out of use may reach readPage.        *)
MayRead(f, p) ==
  LET d == disk[unixFile[f]] IN
  "readUnallocated" \in Misuse \/ p \notin Page \/ p < d.numPages

ReadPage(f, p) == MayRead(f, p) /\ (ReadHit(f, p) \/ ReadMiss(f, p))

-----------------------------------------------------------------------------
(* The client's part: it stores into a page while it holds a pin, and the  *)
(* last unPinPage after a store says dirty.                                *)

WritePage(i, c) ==
  /\ bufTable[i].pinCnt > 0
  /\ bufPool' = [bufPool EXCEPT ![i] = c]
  /\ ret' = Reply("writePage", "OK")
  /\ UNCHANGED <<clockHand, bufTable, bufMap, bufStats, disk, unixFile, process>>

(* Nothing is stored in frame i that its dirty bit does not cover.  A page *)
(* fresh from allocPage holds no data on disk yet.                         *)
Reported(i) ==
  ~bufTable[i].dirty /\ TargetOf(i) # NULL /\ OnDisk(i) \in Value
    => bufPool[i] = OnDisk(i)

-----------------------------------------------------------------------------
(* unPinPage *)

NotPinned(i) ==
  /\ bufTable[i].pinCnt = 0
  /\ ret' = Reply("unPinPage", "PAGENOTPINNED")
  /\ UNCHANGED bufTable

(* Mutants: the pin count is not looked at; a clean unPin undoes a dirty   *)
(* one.                                                                    *)
LosePinUnchecked(i, dirty, love) ==
  /\ bufTable' = [bufTable EXCEPT ![i].pinCnt = @ - 1,
                                  ![i].dirty = @ \/ dirty,
                                  ![i].loved = @ \/ love]
  /\ ret' = Reply("unPinPage", "OK")

LosePinOverwrites(i, dirty, love) ==
  /\ bufTable[i].pinCnt > 0
  /\ dirty \/ bufTable[i].pinCnt > 1 \/ Reported(i)
  /\ bufTable' = [bufTable EXCEPT ![i].pinCnt = @ - 1,
                                  ![i].dirty = dirty,
                                  ![i].loved = @ \/ love]
  /\ ret' = Reply("unPinPage", "OK")

LosePin(i, dirty, love) ==
  /\ bufTable[i].pinCnt > 0
  /\ dirty \/ bufTable[i].pinCnt > 1 \/ Reported(i)
  /\ bufTable' = [bufTable EXCEPT ![i].pinCnt = @ - 1,
                                  ![i].dirty = @ \/ dirty,
                                  ![i].loved = @ \/ love]
  /\ ret' = Reply("unPinPage", "OK")

UnPinFound(f, p, dirty, love) ==
  \E i \in Frames :
    LookupAt(bufMap, f, p, i) /\ (NotPinned(i) \/ LosePin(i, dirty, love))

UnPinNotFound(f, p) ==
  /\ LookupFails(bufMap, f, p)
  /\ ret' = Reply("unPinPage", "BUFMAPNOTFOUND")
  /\ UNCHANGED bufTable

UnPinPage(f, p, dirty, love) ==
  /\ UnPinFound(f, p, dirty, love) \/ UnPinNotFound(f, p)
  /\ UNCHANGED <<clockHand, bufMap, bufPool, bufStats, disk, unixFile, process>>

-----------------------------------------------------------------------------
(* flushFile and the destructor.  Both scan the frames from 0 and write    *)
(* the dirty ones, of whatever file; a write that fails is passed over.    *)

Holds(i, n, p) == TargetOf(i) = n /\ bufTable[i].pageNo = p

(* The disk after the frames of W were written, the last of two copies of  *)
(* a page last.                                                            *)
LastCopy(W, n, p, i) ==
  i \in W /\ Holds(i, n, p) /\ \A j \in W : Holds(j, n, p) => j <= i

WrittenBack(W) ==
  [n \in Inode |->
    [disk[n] EXCEPT !.page =
      [p \in Page |-> IF \E i \in Frames : LastCopy(W, n, p, i)
                      THEN bufPool[CHOOSE i \in Frames : LastCopy(W, n, p, i)]
                      ELSE disk[n].page[p]]]]

(* Mutant: the scan misses the last frame.                                 *)
WritableShort(S) ==
  {i \in S : i < numBufs - 1 /\ bufTable[i].dirty /\ TargetOf(i) # NULL}

Writable(S) == {i \in S : bufTable[i].dirty /\ TargetOf(i) # NULL}

(* The sets of frames of S whose write succeeds.                           *)
Writes(S, fault) == IF fault \in Faults THEN SUBSET Writable(S) ELSE {Writable(S)}

(* The scan stops with PAGEPINNED at the first pinned frame.               *)
Scanned == {i \in Frames : \A j \in 0 .. i : bufTable[j].pinCnt <= 0}

(* A frame that was set up under a wrong number can be dirty and have no   *)
(* file: the write goes through a null File*.                              *)
Stray(S) == \E i \in S : bufTable[i].dirty /\ bufTable[i].file = NULL

WriteScanned ==
  \E W \in Writes(Scanned, "flush") :
    disk' = WrittenBack(W) /\ Count(0, 0, Cardinality(W))

(* Mutant: what was written, or was to be, is clean.                       *)
FlushFileCleans(f) ==
  /\ WriteScanned
  /\ bufTable' = [i \in Frames |-> IF i \in Scanned THEN [bufTable[i] EXCEPT !.dirty = FALSE] ELSE bufTable[i]]
  /\ ret' = CallReply("flushFile", IF Scanned = Frames THEN "OK" ELSE "PAGEPINNED", f, -1)
  /\ UNCHANGED <<clockHand, bufMap, bufPool, unixFile, process>>

FlushFile(f) ==
  \/ Stray(Scanned) /\ Crash("flushFile")
  \/ /\ ~Stray(Scanned)
     /\ WriteScanned
     /\ ret' = CallReply("flushFile", IF Scanned = Frames THEN "OK" ELSE "PAGEPINNED", f, -1)
     /\ UNCHANGED <<clockHand, bufTable, bufMap, bufPool, unixFile, process>>

(* delete bufMgr, once every store into a page was reported by an unPin.   *)
Delete ==
  /\ \A i \in Frames : bufTable[i].pinCnt > 0 => Reported(i)
  /\ \/ Stray(Frames) /\ Crash("delete")
     \/ /\ ~Stray(Frames)
        /\ \E W \in Writes(Frames, "shutdown") :
             disk' = WrittenBack(W) /\ Count(0, 0, Cardinality(W))
        /\ process' = "exited"
        /\ ret' = Reply("delete", "OK")
        /\ UNCHANGED <<clockHand, bufTable, bufMap, bufPool, unixFile>>

-----------------------------------------------------------------------------
(* disposePage: the frame is cleared before File::disposePage is tried;    *)
(* its BADPAGENO is not passed on.                                         *)

Dropped(f, p, i) ==
  IF LookupAt(bufMap, f, p, i) THEN ClearDesc ELSE bufTable[i]

PinnedPage(f, p) ==
  \E i \in Frames : LookupAt(bufMap, f, p, i) /\ bufTable[i].pinCnt > 0

DisposeRefused(f, p) ==
  /\ p = 0 \/ PinnedPage(f, p)
  /\ ret' = Reply("disposePage", IF p = 0 THEN "BADPAGENO" ELSE "PAGEPINNED")
  /\ UNCHANGED <<bufTable, bufMap, disk>>

DisposeTried(f, p) ==
  /\ p # 0 /\ ~PinnedPage(f, p)
  /\ bufTable' = [i \in Frames |-> Dropped(f, p, i)]
  /\ bufMap' = Remove(bufMap, f, p)
  /\ LET n == unixFile[f]
         d == disk[n]
     IN \/ /\ DisposeRejected(d, p)
           /\ ret' = CallReply("disposePage", "OK", f, p)
           /\ UNCHANGED disk
        \/ /\ ~DisposeRejected(d, p)
           /\ \/ /\ disk' = [disk EXCEPT ![n] = Disposed(d, p)]
                 /\ ret' = CallReply("disposePage", "OK", f, p)
              \/ \E x \in DisposeFailures(d, p) :
                   /\ disk' = [disk EXCEPT ![n] = x]
                   /\ ret' = Reply("disposePage", "UNIXERR")

MayDispose(f, p) ==
  "disposeTwice" \in Misuse \/ p \notin FreeList(disk[unixFile[f]])

DisposePage(f, p) ==
  /\ MayDispose(f, p)
  /\ DisposeRefused(f, p) \/ DisposeTried(f, p)
  /\ UNCHANGED <<clockHand, bufPool, bufStats, unixFile, process>>

-----------------------------------------------------------------------------
(* allocPage: the frame keeps the bytes of the page that was there before. *)

AllocInto(f, e) ==
  LET n == unixFile[f]
      d == e.disk[n]
  IN
  /\ clockHand' = e.hand
  /\ \/ /\ AllocSucceeds(d)
        /\ disk' = [e.disk EXCEPT ![n] = Allocated(d)]
        /\ SetUp(e, f, AllocPageNo(d))
        /\ ret' = SetUpReply(e, "allocPage", f, AllocPageNo(d), bufPool[e.frame])
        /\ Count(1, 0, e.writes + 1)
     \/ \E x \in AllocFailures(d) :
          /\ disk' = [e.disk EXCEPT ![n] = x]
          /\ LeaveFree(e)
          /\ ret' = Reply("allocPage", "UNIXERR")
          /\ Count(1, 0, e.writes)
  /\ UNCHANGED <<bufPool, unixFile, process>>

AllocPage(f) ==
  \/ Exceeded("allocPage")
  \/ \E e \in AllocBufResults : AllocInto(f, e)
  \/ FrameOutOfRange("allocPage")

ClearBufStats ==
  /\ bufStats' = NoStats
  /\ ret' = Reply("clearBufStats", "OK")
  /\ UNCHANGED <<clockHand, bufTable, bufMap, bufPool, disk, unixFile, process>>

-----------------------------------------------------------------------------
(* The page array is allocated uninitialized; zeros stand for its bytes.   *)
NewBufMgr ==
  /\ clockHand = 0
  /\ bufTable = [i \in Frames |-> ClearDesc]
  /\ bufMap = [i \in Frames |-> NoEntry]
  /\ bufPool = [i \in Frames |-> 0]
  /\ bufStats = NoStats
  /\ process = "running"
  /\ ret = Reply("none", "OK")

Init ==
  /\ NewBufMgr
  /\ disk = [n \in Inode |-> NewFile]
  /\ unixFile \in {t \in [File -> Inode] : \A f, g \in File : t[f] = t[g] => f = g}

(* The calls on a file: those that may take a frame, and the others.       *)
Fetch(f) == AllocPage(f) \/ \E p \in 0 .. MaxPage : ReadPage(f, p)

Release(f) ==
  \/ FlushFile(f)
  \/ \E p \in 0 .. MaxPage :
       \/ DisposePage(f, p)
       \/ \E dirty \in BOOLEAN, love \in Hints : UnPinPage(f, p, dirty, love)

Call ==
  \/ \E f \in OpenFile : Fetch(f) \/ Release(f)
  \/ ClearBufStats
  \/ Delete

Next ==
  /\ process = "running"
  /\ Call \/ \E i \in Frames, c \in Value : WritePage(i, c)

Spec == Init /\ [][Next]_vars

-----------------------------------------------------------------------------
(* The type invariant: the hand stays inside of the pool, no pin count    *)
(* goes below zero, and every call gives one of the statuses of error.h.   *)
TypeOK ==
  /\ clockHand \in Frames
  /\ bufTable \in [Frames -> BufDesc]
  /\ bufMap \in [Frames -> [file : File \cup {NULL}, pageNo : Page \cup {-1}]]
  /\ bufPool \in [Frames -> Content]
  /\ bufStats \in [accesses : 0 .. StatMod - 1, diskreads : 0 .. StatMod - 1,
                   diskwrites : 0 .. StatMod - 1]
  /\ disk \in [Inode -> File_]
  /\ unixFile \in [File -> Inode \cup {NULL}]
  /\ process \in {"running", "exited", "crashed", "hung"}
  /\ ret \in [op : Ops, status : Statuses, file : File \cup {NULL},
              pageNo : Page \cup {-1}, data : Content \cup {NULL}]

-----------------------------------------------------------------------------
(* Safety *)

Pinned(i) == bufTable[i].pinCnt > 0
SamePage(i) == bufTable'[i].file = bufTable[i].file /\ bufTable'[i].pageNo = bufTable[i].pageNo
DiskOf(i) == disk[TargetOf(i)]

(* The map and the table, kept in step by hand at every place that changes *)
(* either, say the same of every frame.                                    *)
MapMirrorsTable ==
  \A i \in Frames :
    bufMap[i] = IF bufTable[i].valid THEN Entry(bufTable[i].file, bufTable[i].pageNo)
                ELSE NoEntry

(* No page is in two frames: with two copies a client's store would be     *)
(* seen or lost depending on the slot lookup finds.  BufMap::insert does   *)
(* not check it (bufMap.cpp:21), so it rests on allocatePage never         *)
(* returning a page that is buffered.                                      *)
NoDuplicatePages ==
  \A i, j \in Frames :
    bufTable[i].valid /\ bufTable[j].valid /\ i # j
      => <<TargetOf(i), bufTable[i].pageNo>> # <<TargetOf(j), bufTable[j].pageNo>>

(* A buffered page is a page of its file and not on the free list, so a    *)
(* late write of a frame cannot destroy the links of the list.             *)
BufferedPagesAllocated ==
  \A i \in Frames : bufTable[i].valid => Allocates(DiskOf(i), bufTable[i].pageNo)

(* The free lists on disk stay well-formed through every failed call.      *)
FreeListsSound == \A n \in Inode : FreeListSound(disk[n])

(* Losing an unpinned clean frame loses nothing.                           *)
CleanFramesMatchDisk ==
  \A i \in Frames :
    bufTable[i].valid /\ ~bufTable[i].dirty /\ ~Pinned(i) /\ OnDisk(i) \in Value
      => bufPool[i] = OnDisk(i)

(* Every call returns: no walk of a free list is endless.                  *)
CallsReturn == process \in {"running", "exited"}

-----------------------------------------------------------------------------
(* Action properties *)

(* The Page* a client holds stays good: while a page is pinned its frame   *)
(* is not given away, and only the client's stores change its bytes.       *)
PinnedFramesStay ==
  [][\A i \in Frames : Pinned(i) =>
       /\ SamePage(i) /\ bufTable'[i].valid
       /\ bufPool'[i] # bufPool[i] => ret'.op = "writePage"
       /\ bufTable'[i].pinCnt < bufTable[i].pinCnt => ret'.op = "unPinPage"]_vars

(* A loved page survives the sweep that finds it loved: only disposePage   *)
(* takes it out of the pool at once.                                       *)
LovedFramesSpared ==
  [][\A i \in Frames :
       bufTable[i].valid /\ bufTable[i].loved /\ ~SamePage(i) => ret'.op = "disposePage"]_vars

(* A sweep that finds nothing has cleared every loved bit, so the next     *)
(* call fails for the same reason only if every frame is pinned.           *)
SecondCallSucceeds ==
  [][ret.status = "BUFFEREXCEEDED" /\ ret'.status = "BUFFEREXCEEDED" /\ process' = "running"
       => \A i \in Frames : Pinned(i)]_vars

-----------------------------------------------------------------------------
(* The pool implements PageStore: a page read is the page last stored,     *)
(* whatever was evicted, flushed or failed in between, and ~BufMgr leaves  *)
(* it all on disk.                                                         *)

HeldBy(f, p, i) == bufTable[i].valid /\ bufTable[i].file = f /\ bufTable[i].pageNo = p

Stored(c) == IF c \in Value THEN c ELSE "blank"

(* Page p of the file with contents d and the File object f.               *)
PageIn(d, f, p) ==
  IF ~Allocates(d, p) THEN "gone"
  ELSE IF process # "exited" /\ \E i \in Frames : HeldBy(f, p, i)
       THEN LET i == CHOOSE i \in Frames : HeldBy(f, p, i)
            IN IF bufTable[i].dirty \/ d.page[p] \in Value
               THEN Stored(bufPool[i]) ELSE "blank"
       ELSE Stored(d.page[p])

PageOf(f, p) == PageIn(disk[unixFile[f]], f, p)

Store == INSTANCE PageStore WITH
           store <- [f \in File |-> [p \in Page |-> PageOf(f, p)]],
           out <- ret, Handle <- File

ImplementsPageStore == Store!Spec
=============================================================================
