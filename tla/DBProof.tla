------------------------------ MODULE DBProof -------------------------------
(* Theorems about DB: the table of open files and the descriptors, for     *)
(* every client, careless ones included, and any faults; and for a client  *)
(* of the pool as in PageStoreProof, the pool of the files that are open   *)
(* and what reaches the disk.                                              *)
EXTENDS DB, PageStoreProof

DBInv == DBTypeOK /\ OpenTableSound /\ DescriptorsApart

LEMMA NullNotAnObject == NULL \notin File /\ NULL \notin Inode /\ NULL \notin Name
BY NullAssumption, NameAssumption

LEMMA InitTables == DBInit => DBInv
<1>. SUFFICES ASSUME DBInit PROVE DBInv
  OBVIOUS
<1>1. DBTypeOK
  BY NameAssumption DEF DBInit, DBTypeOK, NoDescriptor
<1>2. \A f \in File : ~Opened(f)
  BY DEF DBInit, Opened
<1>3. OpenTableSound /\ DescriptorsApart
  BY <1>2 DEF DBInit, OpenTableSound, DescriptorsApart
<1>. QED BY <1>1, <1>3 DEF DBInv

(* The calls on pages, the end of the program included, leave descriptors  *)
(* alone.                                                                  *)
LEMMA PageCallsKeep ==
  ASSUME PageCall \/ DeleteBufMgr \/ DestroyDB
  PROVE  unixFile' = unixFile
<1>1. ASSUME NEW f \in File, NEW p \in 0 .. MaxPage, ReadPage(f, p)
      PROVE  unixFile' = unixFile
  BY <1>1 DEF ReadPage, ReadHit, ReadMiss, Exceeded, ReadInto, FrameOutOfRange, Crash
<1>4. ASSUME NEW f \in File, AllocPage(f)
      PROVE  unixFile' = unixFile
  BY <1>4 DEF AllocPage, AllocInto, Exceeded, FrameOutOfRange, Crash
<1>5. ASSUME NEW f \in File, Release(f)
      PROVE  unixFile' = unixFile
  <2>1. FlushFile(f) => unixFile' = unixFile
    BY DEF FlushFile, Crash
  <2>. QED BY <1>5, <2>1 DEF Release, DisposePage, UnPinPage
<1>6. CASE PageCall
  BY <1>1, <1>4, <1>5, <1>6 DEF PageCall, Fetch, WritePage
<1>2. CASE DeleteBufMgr
  BY <1>2 DEF DeleteBufMgr, Delete, Crash
<1>3. CASE DestroyDB
  BY <1>3 DEF DestroyDB, Crash
<1>. QED BY <1>2, <1>3, <1>6

(* Only names that are not open get a file or lose it.                     *)
LEMMA DirStep ==
  ASSUME DBInv, NEW n \in Name \cup {NULL}, CreateFile(n) \/ DestroyFile(n)
  PROVE  DBInv'
<1>1. UNCHANGED <<unixFile, openFiles, openCnt, fileName, fd>>
  BY DEF CreateFile, DestroyFile
<1>2. \/ dir' = dir
      \/ n \in Name /\ openFiles[n] = NULL /\ \E i \in Inode \cup {NULL} : dir' = [dir EXCEPT ![n] = i]
  BY DEF CreateFile, DestroyFile, MayUnlink
<1>3. dir' \in [Name -> Inode \cup {NULL}]
  BY <1>2 DEF DBInv, DBTypeOK
<1>4. ASSUME NEW f \in File, Opened(f) PROVE dir'[fileName[f]] = dir[fileName[f]]
  BY <1>2, <1>4, NullNotAnObject DEF DBInv, DBTypeOK, OpenTableSound
<1>5. DBTypeOK' /\ OpenTableSound'
  BY <1>1, <1>3 DEF DBInv, DBTypeOK, OpenTableSound, Opened
<1>6. DescriptorsApart'
  BY <1>1, <1>4 DEF DBInv, DescriptorsApart, Opened
<1>. QED BY <1>5, <1>6 DEF DBInv

(* The number ::open returns is no open file's, so that no other open      *)
(* file's descriptor moves.                                                *)
LEMMA OpenNewStep ==
  ASSUME DBInv, NEW n \in Name, NEW f \in File, OpenNew(n, f), dir' = dir
  PROVE  DBInv'
<1>1. PICK k \in 0 .. Cardinality(File) :
        /\ Lowest(k)
        /\ fd' = [fd EXCEPT ![f] = k]
        /\ unixFile' = [g \in File |-> IF g = f \/ fd[g] = k THEN dir[n] ELSE unixFile[g]]
  BY DEF OpenNew, UnixOpen
<1>2. /\ openFiles[n] = NULL /\ dir[n] \in Inode /\ ~Opened(f)
      /\ fileName' = [fileName EXCEPT ![f] = n]
      /\ openCnt' = [openCnt EXCEPT ![f] = 1]
      /\ openFiles' = [openFiles EXCEPT ![n] = f]
  BY DEF OpenNew, Unreferenced, DBInv, DBTypeOK
<1>3. DBTypeOK'
  <2>1. /\ openFiles' \in [Name -> File \cup {NULL}]
        /\ fileName' \in [File -> Name \cup {NULL}]
        /\ dir' \in [Name -> Inode \cup {NULL}]
    BY <1>2 DEF DBInv, DBTypeOK
  <2>2. openCnt' \in [File -> 0 .. MaxOpen]
    BY <1>2, NameAssumption DEF DBInv, DBTypeOK
  <2>3. /\ fd' \in [File -> {NoDescriptor} \cup 0 .. Cardinality(File)]
        /\ unixFile' \in [File -> Inode \cup {NULL}]
    BY <1>1, <1>2 DEF DBInv, DBTypeOK
  <2>. QED BY <2>1, <2>2, <2>3 DEF DBTypeOK
<1>4. /\ Opened(f)' /\ fileName'[f] = n /\ openFiles'[n] = f
      /\ \A g \in File \ {f} : /\ Opened(g)' <=> Opened(g)
                               /\ fileName'[g] = fileName[g] /\ fd'[g] = fd[g]
      /\ \A m \in Name \ {n} : openFiles'[m] = openFiles[m]
  BY <1>1, <1>2 DEF DBInv, DBTypeOK, Opened
<1>5. ASSUME NEW g \in File \ {f}, Opened(g)
      PROVE  fd[g] # k /\ unixFile'[g] = unixFile[g] /\ fileName[g] # n
  <2>1. fd[g] # k
    BY <1>1, <1>5 DEF Lowest, Used
  <2>2. unixFile'[g] = unixFile[g]
    BY <1>1, <2>1
  <2>. QED BY <2>1, <2>2, <1>2, <1>5, NullNotAnObject DEF DBInv, OpenTableSound
<1>6. OpenTableSound'
  <2>1. ASSUME NEW m \in Name, openFiles'[m] # NULL
        PROVE  openCnt'[openFiles'[m]] > 0 /\ fileName'[openFiles'[m]] = m
    <3>1. CASE m = n
      BY <1>4, <3>1 DEF Opened
    <3>2. CASE m # n
      <4>1. openFiles[m] \in File /\ Opened(openFiles[m]) /\ fileName[openFiles[m]] = m
        BY <1>4, <2>1, <3>2 DEF DBInv, DBTypeOK, OpenTableSound
      <4>2. openFiles[m] # f
        BY <1>2, <4>1
      <4>. QED BY <1>4, <3>2, <4>1, <4>2 DEF Opened
    <3>. QED BY <3>1, <3>2
  <2>2. ASSUME NEW g \in File, Opened(g)'
        PROVE  fileName'[g] \in Name /\ openFiles'[fileName'[g]] = g
    BY <1>4, <1>5, <2>2 DEF DBInv, OpenTableSound
  <2>. QED BY <2>1, <2>2 DEF OpenTableSound, Opened
<1>7. DescriptorsApart'
  <2>1. fd'[f] = k /\ unixFile'[f] = dir[n] /\ dir[n] # NULL
    BY <1>1, <1>2, NullNotAnObject DEF DBInv, DBTypeOK
  <2>2. ASSUME NEW g \in File, Opened(g)'
        PROVE  unixFile'[g] # NULL /\ unixFile'[g] = dir'[fileName'[g]]
    BY <1>4, <1>5, <2>1, <2>2 DEF DBInv, DescriptorsApart
  <2>3. ASSUME NEW g \in File, NEW h \in File, Opened(g)', Opened(h)', fd'[g] = fd'[h]
        PROVE  g = h
    BY <1>4, <1>5, <2>1, <2>3 DEF DBInv, DescriptorsApart
  <2>. QED BY <2>2, <2>3 DEF DescriptorsApart, Opened
<1>. QED BY <1>3, <1>6, <1>7 DEF DBInv

LEMMA OpenStep ==
  ASSUME DBInv, NEW n \in Name \cup {NULL}, OpenFileCall(n)
  PROVE  DBInv'
<1>1. dir' = dir
  BY DEF OpenFileCall
<1>2. CASE n = NULL \/ (n # NULL /\ OpenAbsent(n))
  BY <1>1, <1>2, NullNotAnObject
     DEF OpenFileCall, OpenAbsent, OpenAgain, OpenNew, DBInv, DBTypeOK, OpenTableSound,
         DescriptorsApart, Opened
<1>3. CASE n # NULL /\ OpenAgain(n)
  <2>1. openFiles[n] \in File /\ openCnt' = [openCnt EXCEPT ![openFiles[n]] = @ + 1]
        /\ UNCHANGED <<unixFile, openFiles, fileName, fd>>
    BY <1>3 DEF OpenAgain, DBInv, DBTypeOK
  <2>2. Opened(openFiles[n])
    BY <1>3, <2>1 DEF OpenAgain, DBInv, OpenTableSound
  <2>3. \A g \in File : Opened(g)' <=> Opened(g)
    BY <2>1, <2>2 DEF DBInv, DBTypeOK, Opened
  <2>4. DBTypeOK'
    <3>1. openCnt[openFiles[n]] + 1 \in 0 .. MaxOpen
      BY <1>3, <2>1, NameAssumption DEF OpenAgain, DBInv, DBTypeOK
    <3>. QED BY <1>1, <2>1, <3>1 DEF DBInv, DBTypeOK
  <2>5. OpenTableSound' /\ DescriptorsApart'
    BY <1>1, <2>1, <2>3 DEF DBInv, DBTypeOK, OpenTableSound, DescriptorsApart, Opened
  <2>. QED BY <2>4, <2>5 DEF DBInv
<1>4. ASSUME n # NULL, NEW f \in File, OpenNew(n, f) PROVE DBInv'
  BY <1>1, <1>4, OpenNewStep
<1>. QED BY <1>2, <1>3, <1>4 DEF OpenFileCall

(* ::close closes the descriptor of this file only, and the name is erased *)
(* with it.                                                                *)
LEMMA CloseStep ==
  ASSUME DBInv, NEW f \in File \cup {NULL}, CloseFile(f)
  PROVE  DBInv'
<1>1. UNCHANGED <<fileName, fd, dir>>
  BY DEF CloseFile
<1>2. CASE UNCHANGED <<unixFile, openFiles, openCnt>>
  BY <1>1, <1>2 DEF DBInv, DBTypeOK, OpenTableSound, DescriptorsApart, Opened
<1>3. CASE CloseOneOfMany(f)
  <2>1. f \in File /\ openCnt[f] > 1 /\ openCnt' = [openCnt EXCEPT ![f] = @ - 1]
        /\ UNCHANGED <<unixFile, openFiles>>
    BY <1>3 DEF CloseOneOfMany
  <2>2. \A g \in File : Opened(g)' <=> Opened(g)
    BY <2>1 DEF DBInv, DBTypeOK, Opened
  <2>3. DBTypeOK'
    <3>1. openCnt[f] - 1 \in 0 .. MaxOpen
      BY <2>1, NameAssumption DEF DBInv, DBTypeOK
    <3>. QED BY <1>1, <2>1, <3>1 DEF DBInv, DBTypeOK
  <2>4. OpenTableSound' /\ DescriptorsApart'
    BY <1>1, <2>1, <2>2 DEF DBInv, DBTypeOK, OpenTableSound, DescriptorsApart, Opened
  <2>. QED BY <2>3, <2>4 DEF DBInv
<1>4. CASE f \in File /\ openCnt[f] = 1 /\ UnixClose(f)
           /\ openCnt' = [openCnt EXCEPT ![f] = 0] /\ NameErased(f)
  <2>1. Opened(f) /\ ~Opened(f)' /\ \A g \in File \ {f} : Opened(g)' <=> Opened(g)
    BY <1>4 DEF DBInv, DBTypeOK, Opened
  <2>2. fileName[f] \in Name /\ openFiles[fileName[f]] = f
        /\ openFiles' = [openFiles EXCEPT ![fileName[f]] = NULL]
    BY <1>4, <2>1 DEF DBInv, OpenTableSound, NameErased
  <2>3. DBTypeOK'
    <3>1. 0 \in 0 .. MaxOpen
      BY NameAssumption
    <3>2. unixFile' \in [File -> Inode \cup {NULL}]
      BY <1>4 DEF DBInv, DBTypeOK, UnixClose
    <3>. QED BY <1>1, <1>4, <2>2, <3>1, <3>2 DEF DBInv, DBTypeOK
  <2>4. ASSUME NEW m \in Name, openFiles'[m] # NULL
        PROVE  openCnt'[openFiles'[m]] > 0 /\ fileName'[openFiles'[m]] = m
    <3>1. m # fileName[f] /\ openFiles'[m] = openFiles[m]
      BY <2>2, <2>4 DEF DBInv, DBTypeOK
    <3>2. /\ openFiles[m] \in File \ {f} /\ Opened(openFiles[m])
          /\ fileName[openFiles[m]] = m
      BY <2>2, <2>4, <3>1 DEF DBInv, DBTypeOK, OpenTableSound
    <3>. QED BY <1>1, <2>1, <3>1, <3>2 DEF Opened
  <2>5. ASSUME NEW g \in File, Opened(g)'
        PROVE  fileName'[g] \in Name /\ openFiles'[fileName'[g]] = g
    BY <1>1, <2>1, <2>2, <2>5 DEF DBInv, DBTypeOK, OpenTableSound
  <2>6. ASSUME NEW g \in File, Opened(g)' PROVE g # f /\ unixFile'[g] = unixFile[g]
    BY <1>4, <2>1, <2>6 DEF DBInv, DescriptorsApart, UnixClose
  <2>7. OpenTableSound'
    BY <2>4, <2>5 DEF OpenTableSound, Opened
  <2>8. DescriptorsApart'
    BY <1>1, <2>1, <2>6 DEF DBInv, DescriptorsApart, Opened
  <2>. QED BY <2>3, <2>7, <2>8 DEF DBInv
<1>5. CASE CloseLast(f)
  BY <1>2, <1>4, <1>5 DEF CloseLast, Crash
<1>6. CASE CloseRefused(f)
  BY <1>2, <1>6 DEF CloseRefused
<1>. QED BY <1>3, <1>5, <1>6 DEF CloseFile

LEMMA DBStep == DBInv /\ [DBNext]_allVars => DBInv'
<1>. SUFFICES ASSUME DBInv, [DBNext]_allVars PROVE DBInv'
  OBVIOUS
<1>1. ASSUME unixFile' = unixFile, UNCHANGED dbVars PROVE DBInv'
  BY <1>1 DEF dbVars, DBInv, DBTypeOK, OpenTableSound, DescriptorsApart, Opened
<1>2. CASE UNCHANGED allVars
  BY <1>1, <1>2 DEF allVars, vars
<1>3. CASE FileCall
  BY <1>3, DirStep, OpenStep, CloseStep DEF FileCall
<1>4. CASE (PageCall \/ DeleteBufMgr \/ DestroyDB) /\ UNCHANGED dbVars
  BY <1>1, <1>4, PageCallsKeep
<1>. QED BY <1>2, <1>3, <1>4 DEF DBNext

(* The tables, counts and descriptors keep their types; a count never      *)
(* falls below zero, however often a file is closed.                       *)
THEOREM DBTypes == DBSpec => []DBTypeOK
<1>1. DBInv => DBTypeOK
  BY DEF DBInv
<1>. QED BY <1>1, InitTables, DBStep, PTL DEF DBSpec

(* The table of open files and the counts in the File objects agree after  *)
(* every sequence of calls: closeFile always finds the entry it erases.    *)
THEOREM OpenTable == DBSpec => []OpenTableSound
<1>1. DBInv => OpenTableSound
  BY DEF DBInv
<1>. QED BY <1>1, InitTables, DBStep, PTL DEF DBSpec

(* An open file's object leads to the file of its name through a           *)
(* descriptor of its own, also after a close gave its number to another.   *)
THEOREM Descriptors == DBSpec => []DescriptorsApart
<1>1. DBInv => DescriptorsApart
  BY DEF DBInv
<1>. QED BY <1>1, InitTables, DBStep, PTL DEF DBSpec

-----------------------------------------------------------------------------
(* The pool while files are opened and closed.  The File objects that are  *)
(* open are the set L of BufMgrProof.                                      *)

(* A client that disposes of no page twice, reads what it allocated, and   *)
(* takes no page after a close left pages that no file would take; and     *)
(* victims that can be written.                                            *)
CarefulClient == WellBehaved /\ ~Reuse

Live == {f \in File : Opened(f)}

(* No two names lead to one Unix file.                                     *)
DirApart == \A m, n \in Name : dir[m] = dir[n] /\ dir[m] # NULL => m = n

PoolInv == DBInv /\ DirApart /\ CleanInv(Live)

LEMMA LiveApart ==
  ASSUME DBInv, DirApart
  PROVE  UnixFileSound(Live)
<1>1. ASSUME NEW f \in Live
      PROVE  /\ f \in File /\ fileName[f] \in Name /\ openFiles[fileName[f]] = f
             /\ unixFile[f] \in Inode /\ unixFile[f] = dir[fileName[f]]
  BY DEF Live, DBInv, DBTypeOK, OpenTableSound, DescriptorsApart
<1>. QED BY <1>1, NullNotAnObject DEF UnixFileSound, DirApart

LEMMA NextLiveApart ==
  ASSUME DBInv', DirApart'
  PROVE  UnixFileSound(Live)'
<1>1. ASSUME NEW f \in Live'
      PROVE  /\ f \in File /\ fileName'[f] \in Name /\ openFiles'[fileName'[f]] = f
             /\ unixFile'[f] \in Inode /\ unixFile'[f] = dir'[fileName'[f]]
  BY DEF Live, DBInv, DBTypeOK, OpenTableSound, DescriptorsApart
<1>. QED BY <1>1, NullNotAnObject DEF UnixFileSound, DirApart

LEMMA LiveObjects ==
  ASSUME DBInv
  PROVE  /\ Live \in SUBSET File
         /\ \A f \in Live : /\ fileName[f] \in Name /\ openFiles[fileName[f]] = f
                            /\ unixFile[f] \in Inode /\ unixFile[f] = dir[fileName[f]]
         /\ \A n \in Name : openFiles[n] # NULL
              => openFiles[n] \in Live /\ fileName[openFiles[n]] = n
BY DEF Live, DBInv, DBTypeOK, OpenTableSound, DescriptorsApart

LEMMA UsableIsNoStale ==
  ASSUME NEW L \in SUBSET File, L = Live, CoherentInv(L), ~Reuse, PoolUsable
  PROVE  NoStale(L)
BY DEF PoolUsable, Stale, NoStale, Live, CoherentInv, Coherent, DescsSound

LEMMA SameLive ==
  ASSUME NEW L, Live' = L, CleanInv(L)'
  PROVE  CleanInv(Live)'
BY DEF CleanInv, CoherentInv, UnixFileSound, Coherent, Placed, Orphaned, CleanMatch

(* The pool and the disk are as they are, seen from another set of open    *)
(* files.                                                                  *)
LEMMA CleanFor ==
  ASSUME NEW L \in SUBSET File, NEW M \in SUBSET File, Live' = M,
         DBInv', DirApart', PoolTypeOK', UNCHANGED <<bufTable, bufMap, bufPool>>,
         Coherent(bufTable, bufMap, disk', L), CleanMatch(bufTable, bufPool, disk', L),
         \A i \in Frames : bufTable[i].valid /\ bufTable[i].file \in M
           => bufTable[i].file \in L /\ unixFile'[bufTable[i].file] = unixFile[bufTable[i].file],
         \A i \in Frames : bufTable[i].valid /\ bufTable[i].dirty /\ bufTable[i].file \notin M
           => unixFile'[bufTable[i].file] = NULL
  PROVE  CleanInv(Live)'
<1>1. Coherent(bufTable, bufMap, disk, M)'
  <2>1. Placed(bufTable, disk, M)'
    BY DEF Coherent, Placed
  <2>2. Orphaned(bufTable, M)'
    BY DEF Orphaned
  <2>. QED BY <2>1, <2>2 DEF Coherent, DescsSound, Mirrors, Distinct
<1>2. CleanMatch(bufTable, bufPool, disk, M)'
  BY DEF CleanMatch, PageUnder
<1>3. UnixFileSound(M)'
  BY NextLiveApart DEF UnixFileSound
<1>4. CleanInv(M)'
  BY <1>1, <1>2, <1>3 DEF CleanInv, CoherentInv
<1>. QED BY <1>4, SameLive


(* The calls on pages, and what the scan of a close writes.                *)
LEMMA PageCallClean ==
  ASSUME CarefulClient, PoolInv, PageCall, UNCHANGED dbVars
  PROVE  CleanInv(Live)'
<1>1. PICK L \in SUBSET File : L = Live
  BY DEF Live
<1>2. CleanInv(L) /\ CoherentInv(L) /\ Live' = L
  BY <1>1 DEF PoolInv, CleanInv, dbVars, Live, Opened
<1>3. ASSUME NEW f \in File, Opened(f), (PoolUsable /\ Fetch(f)) \/ Release(f)
      PROVE  CleanInv(L)'
  <2>1. PoolUsable => NoStale(L)
    BY <1>1, <1>2, UsableIsNoStale DEF CarefulClient
  <2>2. f \in L
    BY <1>1, <1>3 DEF Live
  <2>. QED BY <1>2, <1>3, <2>1, <2>2, CallClean DEF CarefulClient
<1>4. ASSUME NEW i \in Frames, NEW c \in Value, WritePage(i, c)
      PROVE  CleanInv(L)'
  BY <1>2, <1>4, StoreClean
<1>. QED BY <1>2, <1>3, <1>4, SameLive DEF PageCall

LEMMA DirUnchanged ==
  ASSUME DirApart, dir' = dir
  PROVE  DirApart'
BY DEF DirApart

(* A file that is opened has no frame in the pool, and the descriptors of  *)
(* the files that are open stay where they are.                            *)
LEMMA OpenClean ==
  ASSUME CarefulClient, PoolInv, NEW n \in Name \cup {NULL}, OpenFileCall(n)
  PROVE  CleanInv(Live)' /\ DirApart'
<1>1. PICK L \in SUBSET File : L = Live
  BY DEF Live
<1>2. /\ CleanInv(L) /\ PoolTypeOK /\ DBInv' /\ DirApart'
      /\ Coherent(bufTable, bufMap, disk, L) /\ CleanMatch(bufTable, bufPool, disk, L)
  BY <1>1, OpenStep, DirUnchanged DEF PoolInv, CleanInv, CoherentInv, OpenFileCall
<1>3. UNCHANGED <<clockHand, bufTable, bufMap, bufPool, bufStats, disk>>
  BY DEF OpenFileCall, Pool
<1>4. PoolTypeOK'
  BY <1>2, <1>3 DEF PoolTypeOK, DBInv, DBTypeOK
<1>5. CASE unixFile' = unixFile /\ Live' = L
  BY <1>2, <1>3, <1>4, <1>5, CleanFor DEF Coherent, Orphaned
<1>6. ASSUME NEW f \in File, n # NULL, OpenNew(n, f)
      PROVE  CleanInv(Live)'
  <2>1. PICK k : k \notin Used
                 /\ unixFile' = [g \in File |-> IF g = f \/ fd[g] = k THEN dir[n] ELSE unixFile[g]]
    BY <1>6 DEF OpenNew, UnixOpen, Lowest
  <2>2. \A g \in L : g # f => unixFile'[g] = unixFile[g]
    BY <1>1, <2>1 DEF Live, Used
  <2>3. \A i \in Frames : bufTable[i].file # f
    BY <1>6 DEF OpenNew, Unreferenced
  <2>4. L \cup {f} \in SUBSET File /\ Live' = L \cup {f}
    BY <1>1, <1>6, NameAssumption DEF OpenNew, Live, Opened, PoolInv, DBInv, DBTypeOK
  <2>5. \A i \in Frames : bufTable[i].valid /\ bufTable[i].dirty => bufTable[i].file \in L
    BY <1>1, <1>2, <1>6, UsableIsNoStale DEF OpenNew, CarefulClient, NoStale, CleanInv
  <2>6. \A i \in Frames : bufTable[i].valid /\ bufTable[i].file \in L \cup {f}
          => bufTable[i].file \in L /\ unixFile'[bufTable[i].file] = unixFile[bufTable[i].file]
    BY <2>2, <2>3
  <2>. QED BY <1>2, <1>3, <1>4, <2>4, <2>5, <2>6, CleanFor
<1>7. CASE n = NULL \/ OpenAbsent(n)
  <2>1. unixFile' = unixFile /\ Live' = L
    BY <1>1, <1>7, NullNotAnObject DEF OpenFileCall, OpenAbsent, Live, Opened
  <2>. QED BY <1>5, <2>1
<1>8. CASE n # NULL /\ OpenAgain(n)
  <2>1. unixFile' = unixFile /\ Live' = L
    BY <1>1, <1>8 DEF OpenAgain, PoolInv, DBInv, DBTypeOK, OpenTableSound, Live, Opened
  <2>. QED BY <1>5, <2>1
<1>. QED BY <1>2, <1>6, <1>7, <1>8 DEF OpenFileCall

(* The last close: what the pool held of the file, dirty or not, stays in  *)
(* it, and none of it can be written any more.                             *)
LEMMA ScanClean ==
  ASSUME NEW L \in SUBSET File, CleanInv(L), WriteScanned
  PROVE  /\ disk' \in [Inode -> File_] /\ bufStats' \in StatsType
         /\ Coherent(bufTable, bufMap, disk', L) /\ CleanMatch(bufTable, bufPool, disk', L)
<1>1. Scanned \in SUBSET Frames
  BY DEF Scanned
<1>2. CoherentInv(L) /\ PoolTypeOK
  BY DEF CleanInv, CoherentInv
<1>. QED BY <1>1, <1>2, WrittenBackCoherent, WriteBackClean, WriteBackType DEF WriteScanned

LEMMA CloseClean ==
  ASSUME PoolInv, NEW f \in File \cup {NULL}, CloseFile(f)
  PROVE  CleanInv(Live)' /\ DirApart'
<1>1. PICK L \in SUBSET File : L = Live
  BY DEF Live
<1>2. /\ CleanInv(L) /\ CoherentInv(L) /\ PoolTypeOK /\ DBInv' /\ DirApart'
      /\ Coherent(bufTable, bufMap, disk, L) /\ CleanMatch(bufTable, bufPool, disk, L)
  BY <1>1, CloseStep, DirUnchanged DEF PoolInv, CleanInv, CoherentInv, CloseFile
<1>3. ASSUME UNCHANGED <<Pool, unixFile>>, Live' = L,
             \/ UNCHANGED <<disk, bufStats>>
             \/ WriteScanned
      PROVE  CleanInv(Live)'
  <2>1. /\ disk' \in [Inode -> File_] /\ bufStats' \in StatsType
        /\ Coherent(bufTable, bufMap, disk', L) /\ CleanMatch(bufTable, bufPool, disk', L)
    BY <1>2, <1>3, ScanClean DEF PoolTypeOK, StatsType
  <2>2. PoolTypeOK'
    BY <1>2, <1>3, <2>1 DEF PoolTypeOK, StatsType, Pool
  <2>. QED BY <1>2, <1>3, <2>1, <2>2, CleanFor DEF Coherent, Orphaned, Pool
<1>4. ASSUME f \in File, openCnt[f] = 1, WriteScanned, UnixClose(f), UNCHANGED Pool,
             openCnt' = [openCnt EXCEPT ![f] = 0]
      PROVE  CleanInv(Live)'
  <2>1. /\ disk' \in [Inode -> File_] /\ bufStats' \in StatsType
        /\ Coherent(bufTable, bufMap, disk', L) /\ CleanMatch(bufTable, bufPool, disk', L)
    BY <1>2, <1>4, ScanClean
  <2>2. PoolTypeOK'
    BY <1>2, <1>4, <2>1 DEF PoolTypeOK, StatsType, Pool, DBInv, DBTypeOK
  <2>3. f \in L /\ L \ {f} \in SUBSET File /\ Live' = L \ {f}
    BY <1>1, <1>4 DEF Live, Opened, PoolInv, DBInv, DBTypeOK
  <2>4. /\ \A g \in L \ {f} : unixFile'[g] = unixFile[g]
        /\ \A g \in File : unixFile[g] = NULL => unixFile'[g] = NULL
        /\ unixFile'[f] = NULL
    BY <1>1, <1>4, <2>3 DEF UnixClose, Live, PoolInv, DBInv, DescriptorsApart
  <2>5. \A i \in Frames : bufTable[i].valid /\ bufTable[i].dirty /\ bufTable[i].file \notin L \ {f}
          => unixFile'[bufTable[i].file] = NULL
    BY <1>2, <2>4 DEF Coherent, Orphaned, DescsSound
  <2>6. \A i \in Frames : bufTable[i].valid /\ bufTable[i].file \in L \ {f}
          => bufTable[i].file \in L /\ unixFile'[bufTable[i].file] = unixFile[bufTable[i].file]
    BY <2>4
  <2>. DEFINE M == L \ {f}
  <2>7. M \in SUBSET File /\ Live' = M /\ UNCHANGED <<bufTable, bufMap, bufPool>>
    BY <1>4, <2>3 DEF Pool
  <2>. HIDE DEF M
  <2>. QED BY <1>2, <2>1, <2>2, <2>5, <2>6, <2>7, CleanFor DEF M
<1>5. CASE CloseRefused(f)
  BY <1>1, <1>2, <1>3, <1>5 DEF CloseRefused, DBReply, Refused, Refusal, Live, Opened
<1>6. CASE CloseOneOfMany(f)
  <2>1. Live' = L
    BY <1>1, <1>6 DEF CloseOneOfMany, Live, Opened, PoolInv, DBInv, DBTypeOK
  <2>. QED BY <1>2, <1>3, <1>6, <2>1 DEF CloseOneOfMany
<1>7. CASE CloseLast(f)
  <2>1. CASE Stray(Scanned) /\ Crash("closeFile") /\ UNCHANGED <<openFiles, openCnt>>
    BY <1>1, <1>2, <1>3, <2>1 DEF Crash, Live, Opened, Pool
  <2>2. CASE Scanned # Frames /\ FlushBeforeClose /\ UNCHANGED <<unixFile, openCnt, Pool>>
    BY <1>1, <1>2, <1>3, <2>2 DEF FlushBeforeClose, Live, Opened
  <2>3. CASE Scanned = Frames /\ FlushBeforeClose /\ UnixClose(f) /\ UNCHANGED Pool
             /\ openCnt' = [openCnt EXCEPT ![f] = 0]
    BY <1>2, <1>4, <1>7, <2>3 DEF CloseLast, FlushBeforeClose
  <2>. QED BY <1>7, <2>1, <2>2, <2>3 DEF CloseLast
<1>. QED BY <1>2, <1>5, <1>6, <1>7 DEF CloseFile

(* A file that is created or destroyed has no page in the pool.            *)
LEMMA DirClean ==
  ASSUME PoolInv, NEW n \in Name \cup {NULL}, CreateFile(n) \/ DestroyFile(n)
  PROVE  CleanInv(Live)' /\ DirApart'
<1>1. PICK L \in SUBSET File : L = Live
  BY DEF Live
<1>2. /\ CleanInv(L) /\ CoherentInv(L) /\ PoolTypeOK /\ DBInv' /\ DirApart
      /\ Coherent(bufTable, bufMap, disk, L) /\ CleanMatch(bufTable, bufPool, disk, L)
  BY <1>1, DirStep DEF PoolInv, CleanInv, CoherentInv
<1>3. /\ UNCHANGED <<clockHand, bufTable, bufMap, bufPool, bufStats, unixFile>>
      /\ Live' = L
  BY <1>1 DEF CreateFile, DestroyFile, DBReply, Refused, Refusal, Pool, Live, Opened
<1>4. CASE UNCHANGED <<disk, dir>>
  <2>1. PoolTypeOK' /\ DirApart'
    BY <1>2, <1>3, <1>4, DirUnchanged DEF PoolTypeOK
  <2>. QED BY <1>2, <1>3, <1>4, <2>1, CleanFor DEF Coherent, Orphaned
<1>5. ASSUME NEW i \in Inode, disk' = [disk EXCEPT ![i] = NewFile], \A f \in L : unixFile[f] # i,
             DirApart'
      PROVE  CleanInv(Live)' /\ DirApart'
  <2>1. disk' \in [Inode -> File_]
    BY <1>2, <1>5, NewFileType DEF PoolTypeOK
  <2>2. PoolTypeOK'
    BY <1>2, <1>3, <2>1 DEF PoolTypeOK
  <2>3. \A f \in L : disk'[unixFile[f]] = disk[unixFile[f]]
    BY <1>2, <1>5 DEF PoolTypeOK
  <2>4. \A m \in Inode : FreeListSound(disk'[m])
    <3>1. FreeListSound(NewFile)
      BY EmptyFreeList DEF NewFile
    <3>. QED BY <1>2, <1>5, <3>1 DEF Coherent
  <2>5. Coherent(bufTable, bufMap, disk', L) /\ CleanMatch(bufTable, bufPool, disk', L)
    BY <1>2, <2>1, <2>3, <2>4 DEF Coherent, Placed, CleanMatch, PageUnder
  <2>. QED BY <1>2, <1>3, <1>5, <2>2, <2>5, CleanFor DEF Coherent, Orphaned
<1>6. ASSUME NEW i \in Inode, n \in Name, openFiles[n] = NULL,
             dir' = [dir EXCEPT ![n] = i], \A m \in Name : dir[m] # i,
             disk' = [disk EXCEPT ![i] = NewFile]
      PROVE  CleanInv(Live)' /\ DirApart'
  <2>1. \A f \in L : unixFile[f] # i
    BY <1>1, <1>6, LiveObjects DEF PoolInv
  <2>2. DirApart'
    BY <1>2, <1>6 DEF DirApart, PoolInv, DBInv, DBTypeOK
  <2>. QED BY <1>5, <1>6, <2>1, <2>2
<1>7. ASSUME n \in Name, openFiles[n] = NULL, dir[n] # NULL,
             dir' = [dir EXCEPT ![n] = NULL], disk' = [disk EXCEPT ![dir[n]] = NewFile]
      PROVE  CleanInv(Live)' /\ DirApart'
  <2>1. dir[n] \in Inode
    BY <1>7 DEF PoolInv, DBInv, DBTypeOK
  <2>2. \A f \in L : unixFile[f] # dir[n]
    BY <1>1, <1>2, <1>7, LiveObjects, NullNotAnObject DEF PoolInv, DirApart
  <2>3. DirApart'
    BY <1>2, <1>7 DEF DirApart, PoolInv, DBInv, DBTypeOK
  <2>. QED BY <1>5, <1>7, <2>1, <2>2, <2>3
<1>. QED BY <1>4, <1>6, <1>7 DEF CreateFile, DestroyFile, MayUnlink

(* At the end every page of an open file that is dirty is written.         *)
LEMMA EndOfPoolClean ==
  ASSUME CarefulClient, PoolInv, DeleteBufMgr \/ DestroyDB, UNCHANGED dbVars
  PROVE  CleanInv(Live)'
<1>1. PICK L \in SUBSET File : L = Live
  BY DEF Live
<1>2. /\ CleanInv(L) /\ CoherentInv(L) /\ PoolTypeOK /\ Live' = L /\ DBInv /\ DirApart
      /\ Coherent(bufTable, bufMap, disk, L) /\ CleanMatch(bufTable, bufPool, disk, L)
      /\ unixFile' = unixFile
  BY <1>1, PageCallsKeep DEF PoolInv, CleanInv, CoherentInv, dbVars, Live, Opened
<1>3. CASE DeleteBufMgr
  <2>1. Delete
    BY <1>3 DEF DeleteBufMgr, CarefulClient
  <2>. QED BY <1>2, <2>1, EndClean, SameLive
<1>4. CASE DestroyDB
  <2>1. UNCHANGED Pool /\ (WriteScanned \/ UNCHANGED <<disk, bufStats>>)
    BY <1>4 DEF DestroyDB, Crash, Pool
  <2>2. /\ disk' \in [Inode -> File_] /\ bufStats' \in StatsType
        /\ Coherent(bufTable, bufMap, disk', L) /\ CleanMatch(bufTable, bufPool, disk', L)
    BY <1>2, <2>1, ScanClean DEF PoolTypeOK, StatsType
  <2>3. PoolTypeOK'
    BY <1>2, <2>1, <2>2 DEF PoolTypeOK, StatsType, Pool
  <2>4. DBInv' /\ DirApart'
    BY <1>2 DEF dbVars, DBInv, DBTypeOK, OpenTableSound, DescriptorsApart, Opened, DirApart
  <2>. QED BY <1>2, <2>1, <2>2, <2>3, <2>4, CleanFor DEF Coherent, Orphaned, Pool
<1>. QED BY <1>3, <1>4

LEMMA PoolInit == DBInit => PoolInv
<1>. SUFFICES ASSUME DBInit PROVE PoolInv
  OBVIOUS
<1>1. DBInv /\ DirApart
  BY InitTables DEF DBInit, DirApart
<1>2. Live = {}
  BY DEF DBInit, Live, Opened
<1>3. PoolTypeOK
  BY NewPoolType DEF DBInit
<1>4. DescsSound(bufTable) /\ Mirrors(bufTable, bufMap) /\ Distinct(bufTable)
  BY DEF DBInit, NewBufMgr, DescsSound, Mirrors, Distinct, ClearDesc
<1>5. \A n \in Inode : FreeListSound(disk[n])
  BY EmptyFreeList DEF DBInit, NewBufMgr, NewFile
<1>6. \A i \in Frames : ~bufTable[i].valid
  BY DEF DBInit, NewBufMgr, ClearDesc
<1>7. CleanInv(Live)
  BY <1>2, <1>3, <1>4, <1>5, <1>6
     DEF CleanInv, CoherentInv, UnixFileSound, Coherent, Placed, Orphaned, CleanMatch,
         PoolTypeOK, TableType, MapType
<1>. QED BY <1>1, <1>7 DEF PoolInv

LEMMA PoolStep ==
  ASSUME CarefulClient, PoolInv, [DBNext]_allVars
  PROVE  PoolInv'
<1>1. DBInv'
  BY DBStep DEF PoolInv
<1>2. CASE UNCHANGED allVars
  BY <1>1, <1>2, DirUnchanged
     DEF allVars, vars, dbVars, PoolInv, Live, Opened, CleanInv, CoherentInv, PoolTypeOK,
         UnixFileSound, Coherent, Placed, Orphaned, CleanMatch, PageUnder
<1>3. CASE FileCall
  BY <1>1, <1>3, DirClean, OpenClean, CloseClean DEF FileCall, PoolInv
<1>4. CASE (PageCall \/ DeleteBufMgr \/ DestroyDB) /\ UNCHANGED dbVars
  <2>1. DirApart'
    BY <1>4, DirUnchanged DEF dbVars, PoolInv
  <2>. QED BY <1>1, <1>4, <2>1, PageCallClean, EndOfPoolClean DEF PoolInv
<1>. QED BY <1>2, <1>3, <1>4 DEF DBNext

LEMMA PoolAlways ==
  ASSUME CarefulClient
  PROVE  DBSpec => []PoolInv
<1>. QED BY PoolInit, PoolStep, PTL DEF DBSpec

(* No page that can be read or written through the pool of a CarefulClient *)
(* is in two frames, whatever was closed, destroyed, created and opened    *)
(* again, with the frames of the closed files still in the pool.           *)
THEOREM OneCopy ==
  ASSUME CarefulClient
  PROVE  DBSpec => []OneCopyOfAPage
<1>1. ASSUME PoolInv
      PROVE  OneCopyOfAPage
  <2>1. PICK L \in SUBSET File : L = Live
    BY DEF Live
  <2>2. CoherentInv(L)
    BY <1>1, <2>1 DEF PoolInv, CleanInv
  <2>3. ASSUME NEW i \in Frames, InUse(i)
        PROVE  bufTable[i].valid /\ bufTable[i].file \in L /\ TargetOf(i) \in Inode
    BY <2>1, <2>2, <2>3, TargetSound DEF InUse, Live
  <2>. QED BY <2>2, <2>3, HoldsOnce DEF OneCopyOfAPage, Holds
<1>. QED BY <1>1, PoolAlways, PTL

(* A dirty frame is written to the file it came from or to none: no        *)
(* descriptor that was closed and given away is written through by a       *)
(* client that stops taking pages after such a close.                      *)
THEOREM CarefulWrites ==
  ASSUME CarefulClient
  PROVE  DBSpec => []WritesReachTheirFile
<1>1. ASSUME PoolInv
      PROVE  WritesReachTheirFile
  <2>1. PICK L \in SUBSET File : L = Live
    BY DEF Live
  <2>2. CoherentInv(L)
    BY <1>1, <2>1 DEF PoolInv, CleanInv
  <2>3. ASSUME NEW i \in Frames, bufTable[i].valid, bufTable[i].dirty, TargetOf(i) # NULL
        PROVE  TargetOf(i) = dir[fileName[bufTable[i].file]]
    <3>1. bufTable[i].file \in L /\ TargetOf(i) = unixFile[bufTable[i].file]
      BY <2>2, <2>3, TargetSound
    <3>. QED BY <1>1, <2>1, <3>1, LiveObjects DEF PoolInv
  <2>. QED BY <2>3 DEF WritesReachTheirFile
<1>. QED BY <1>1, PoolAlways, PTL

-----------------------------------------------------------------------------
(* Flushing and closing. *)

LEMMA ReplyParts ==
  /\ \A op, s, f, p : CallReply(op, s, f, p).file = f
  /\ \A op, f, p, c : PageReply(op, f, p, c).op = op
  /\ \A e, op, f, p, c : SetUpReply(e, op, f, p, c).op = op
BY ReplyFields DEF CallReply, Reply, PageReply, SetUpReply

(* Only flushFile answers as flushFile, of the calls on pages.             *)
LEMMA PageReplies ==
  ASSUME PageCall, process' # "hung"
  PROVE  \/ \E f \in File : Opened(f) /\ FlushFile(f)
         \/ ret'.op \notin {"flushFile", "closeFile"}
<1>. DEFINE Goal == ret'.op \notin {"flushFile", "closeFile"}
<1>1. ASSUME NEW f \in File, NEW p \in 0 .. MaxPage, ReadPage(f, p) PROVE Goal
  <2>1. ASSUME NEW e, ReadInto(f, p, e) PROVE Goal
    BY <2>1, ReplyFields, ReplyParts DEF ReadInto
  <2>2. CASE ReadHit(f, p)
    BY <2>2, ReplyParts DEF ReadHit
  <2>3. CASE Exceeded("readPage") \/ FrameOutOfRange("readPage")
    BY <2>3, ReplyFields DEF Exceeded, FrameOutOfRange, Crash
  <2>. QED BY <1>1, <2>1, <2>2, <2>3 DEF ReadPage, ReadMiss
<1>2. ASSUME NEW f \in File, AllocPage(f) PROVE Goal
  <2>1. ASSUME NEW e, AllocInto(f, e) PROVE Goal
    BY <2>1, ReplyFields, ReplyParts DEF AllocInto
  <2>2. CASE Exceeded("allocPage") \/ FrameOutOfRange("allocPage")
    BY <2>2, ReplyFields DEF Exceeded, FrameOutOfRange, Crash
  <2>. QED BY <1>2, <2>1, <2>2 DEF AllocPage
<1>3. ASSUME NEW f, NEW p, DisposePage(f, p) PROVE Goal
  BY <1>3, ReplyFields DEF DisposePage, DisposeRefused, DisposeTried
<1>4. ASSUME NEW f, NEW p, NEW dirty, NEW love, UnPinPage(f, p, dirty, love) PROVE Goal
  <2>1. ASSUME NEW i, NotPinned(i) \/ LosePin(i, dirty, love) PROVE Goal
    BY <2>1, ReplyFields DEF NotPinned, LosePin
  <2>2. CASE UnPinNotFound(f, p)
    BY <2>2, ReplyFields DEF UnPinNotFound
  <2>. QED BY <1>4, <2>1, <2>2 DEF UnPinPage, UnPinFound
<1>5. ASSUME NEW i, NEW c, WritePage(i, c) PROVE Goal
  BY <1>5, ReplyFields DEF WritePage
<1>. QED BY <1>1, <1>2, <1>3, <1>4, <1>5 DEF PageCall, Fetch, Release

LEMMA PageCallReturns ==
  ASSUME CarefulClient, PoolInv, PageCall
  PROVE  process' = process
<1>1. PICK L \in SUBSET File : L = Live
  BY DEF Live
<1>2. CoherentInv(L) /\ (PoolUsable => NoStale(L))
  BY <1>1, UsableIsNoStale DEF PoolInv, CleanInv, CarefulClient
<1>3. ASSUME NEW f \in File, Opened(f), (PoolUsable /\ Fetch(f)) \/ Release(f)
      PROVE  process' = process
  <2>1. f \in L
    BY <1>1, <1>3 DEF Live
  <2>. QED BY <1>2, <1>3, <2>1, CallReturns DEF CarefulClient
<1>. QED BY <1>3 DEF PageCall, WritePage

LEMMA NoneCanFail ==
  ASSUME "flush" \notin Faults, WriteScanned, Scanned = Frames
  PROVE  NoWriteFails
BY DEF WriteScanned, Writes, NoWriteFails

LEMMA AllWritable ==
  Writable(Frames) \in Writes(Frames, "flush")
BY DEF Writes, Writable

LEMMA AllWritten ==
  ASSUME PoolInv, NoWriteFails,
         NEW i \in Frames, bufTable[i].valid, bufTable[i].dirty, Opened(bufTable[i].file)
  PROVE  disk'[dir[fileName[bufTable[i].file]]].page[bufTable[i].pageNo] = bufPool[i]
<1>1. PICK L \in SUBSET File : L = Live
  BY DEF Live
<1>2. CoherentInv(L)
  BY <1>1 DEF PoolInv, CleanInv
<1>. DEFINE n == TargetOf(i)
            W == Writable(Frames)
<1>3. /\ n \in Inode /\ bufTable[i].pageNo \in Page
      /\ n = dir[fileName[bufTable[i].file]]
  <2>1. bufTable[i].file \in L
    BY <1>1, <1>2, TargetSound DEF Live
  <2>. QED BY <1>1, <1>2, <2>1, TargetSound, LiveObjects DEF PoolInv
<1>4. disk' = WrittenBack(W) /\ W \in Writes(Frames, "flush")
  BY AllWritable DEF NoWriteFails
<1>5. i \in W /\ Holds(i, n, bufTable[i].pageNo)
  BY <1>3, NullNotAnObject DEF Writable, Holds
<1>. HIDE DEF n, W
<1>6. WrittenBack(W)[n].page[bufTable[i].pageNo] = bufPool[i]
  BY <1>2, <1>3, <1>4, <1>5, WrittenBackPages
<1>. QED BY <1>3, <1>4, <1>6 DEF n

LEMMA DurableStep ==
  ASSUME CarefulClient, PoolInv, DBNext, NoWriteFails
  PROVE  ClosedIsDurable'
<1>1. ASSUME UNCHANGED <<bufTable, bufPool, dir, fileName>>,
             NEW f \in File, Opened(f), ret'.file = f,
             \A g \in File : Opened(g)' => Opened(g)
      PROVE  ClosedIsDurable'
  <2>1. ASSUME NEW i \in Frames, bufTable[i].valid, bufTable[i].dirty,
               Opened(bufTable[i].file)' \/ bufTable[i].file = f
        PROVE  bufPool[i] = disk'[dir[fileName[bufTable[i].file]]].page[bufTable[i].pageNo]
    <3>1. bufTable[i].file \in File
      BY <2>1 DEF PoolInv, CleanInv, CoherentInv, Coherent, DescsSound
    <3>. QED BY <1>1, <2>1, <3>1, AllWritten
  <2>. QED BY <1>1, <2>1 DEF ClosedIsDurable, NamedPage
<1>3. CASE ret'.op \notin {"flushFile", "closeFile"}
  BY <1>3 DEF ClosedIsDurable
<1>4. CASE PageCall /\ UNCHANGED dbVars /\ process = "running"
  <2>1. ASSUME NEW f \in File, Opened(f), FlushFile(f)
        PROVE  ClosedIsDurable'
    <3>2. ret'.status = "OK" => ret'.file = f /\ UNCHANGED <<bufTable, bufPool>>
      <4>1. CASE Crash("flushFile")
        BY <4>1, ReplyFields DEF Crash
      <4>2. CASE ~Crash("flushFile")
        BY <2>1, <4>2, ReplyParts DEF FlushFile
      <4>. QED BY <4>1, <4>2
    <3>3. UNCHANGED <<dir, fileName>> /\ \A g \in File : Opened(g)' => Opened(g)
      BY <1>4 DEF dbVars, Opened
    <3>4. CASE ret'.status # "OK"
      BY <3>4 DEF ClosedIsDurable
    <3>. QED BY <1>1, <2>1, <3>2, <3>3, <3>4
  <2>2. process' # "hung"
    BY <1>4, PageCallReturns
  <2>. QED BY <1>3, <1>4, <2>1, <2>2, PageReplies
<1>5. ASSUME NEW f \in File \cup {NULL}, CloseFile(f)
      PROVE  ClosedIsDurable'
  <2>1. CASE CloseRefused(f)
    BY <2>1, ReplyFields DEF CloseRefused, DBReply, Refused, Refusal, ClosedIsDurable
  <2>2. CASE CloseOneOfMany(f)
    <3>1. ret'.op = "closeFile" /\ ret'.file = f /\ f \in File /\ Opened(f)'
      BY <2>2 DEF CloseOneOfMany, CallReply, Reply, Opened, PoolInv, DBInv, DBTypeOK
    <3>. QED BY <3>1 DEF ClosedIsDurable, Opened
  <2>3. CASE CloseLast(f)
    <3>1. CASE ret'.status # "OK"
      BY <3>1 DEF ClosedIsDurable
    <3>2. CASE /\ UNCHANGED Pool
               /\ openCnt' = [openCnt EXCEPT ![f] = 0] /\ ret'.file = f
      <4>1. f \in File /\ Opened(f) /\ \A g \in File : Opened(g)' => Opened(g)
        BY <2>3, <3>2 DEF CloseLast, Opened, PoolInv, DBInv, DBTypeOK
      <4>. QED BY <1>1, <1>5, <3>2, <4>1 DEF CloseFile, Pool
    <3>3. CASE Scanned # Frames \/ Crash("closeFile")
      <4>1. ret'.status # "OK"
        BY <2>3, <3>3, ReplyFields DEF CloseLast, Crash
      <4>. QED BY <3>1, <4>1
    <3>. QED BY <2>3, <3>2, <3>3 DEF CloseLast, CallReply, Reply
  <2>. QED BY <1>5, <2>1, <2>2, <2>3 DEF CloseFile
<1>6. ASSUME NEW n \in Name \cup {NULL}, CreateFile(n) \/ DestroyFile(n) \/ OpenFileCall(n)
      PROVE  ClosedIsDurable'
  <2>1. ret'.op \notin {"flushFile", "closeFile"}
    BY <1>6, ReplyFields DEF CreateFile, DestroyFile, OpenFileCall, OpenAgain, OpenAbsent,
                             OpenNew, DBReply, Refused, Refusal
  <2>. QED BY <1>3, <2>1
<1>7. CASE DeleteBufMgr \/ DestroyDB
  <2>1. ret'.op \notin {"flushFile", "closeFile"}
    BY <1>7, ReplyFields DEF DeleteBufMgr, DestroyDB, Delete, Crash
  <2>. QED BY <1>3, <2>1
<1>. QED BY <1>4, <1>5, <1>6, <1>7 DEF DBNext, FileCall

(* What ClosedIsDurable is about.                                          *)
SaysDurable ==
  /\ ret.op \in {"flushFile", "closeFile"} /\ ret.status = "OK"
  /\ ret.op = "closeFile" => ~Opened(ret.file)

(* An OK of flushFile, or of the closeFile that closes, is that of a scan  *)
(* that met no pinned page.                                                *)
LEMMA OnlyScansSayOK ==
  ASSUME CarefulClient, "flush" \notin Faults, PoolInv, DBNext, ~NoWriteFails, SaysDurable'
  PROVE  FALSE
<1>1. ~(WriteScanned /\ Scanned = Frames)
  BY NoneCanFail
<1>0. /\ ret'.op \in {"flushFile", "closeFile"} /\ ret'.status = "OK"
      /\ \A f : ret'.op = "closeFile" /\ ret'.file = f => ~Opened(f)'
  BY DEF SaysDurable, Opened
<1>2. CASE PageCall /\ UNCHANGED dbVars /\ process = "running"
  <2>1. ASSUME NEW f \in File, Opened(f), FlushFile(f)
        PROVE  FALSE
    BY <1>0, <1>1, <2>1, ReplyFields DEF FlushFile, Crash
  <2>2. process' # "hung"
    BY <1>2, PageCallReturns
  <2>. QED BY <1>0, <1>2, <2>1, <2>2, PageReplies
<1>3. ASSUME NEW f \in File \cup {NULL}, CloseFile(f)
      PROVE  FALSE
  <2>1. CASE CloseRefused(f)
    BY <1>0, <2>1, ReplyFields DEF CloseRefused, DBReply, Refused, Refusal
  <2>2. CASE CloseOneOfMany(f)
    <3>1. ret'.file = f /\ f \in File /\ Opened(f)'
      BY <2>2, <1>3 DEF CloseOneOfMany, CallReply, Reply, Opened, PoolInv, DBInv, DBTypeOK
    <3>2. ret'.op = "closeFile"
      BY <2>2 DEF CloseOneOfMany, CallReply, Reply
    <3>. QED BY <1>0, <3>1, <3>2
  <2>3. CASE CloseLast(f)
    <3>1. CASE Scanned # Frames \/ Crash("closeFile")
      BY <1>0, <2>3, <3>1, ReplyFields DEF CloseLast, Crash
    <3>2. CASE FlushBeforeClose /\ Scanned = Frames
      BY <1>1, <3>2 DEF FlushBeforeClose
    <3>. QED BY <2>3, <3>1, <3>2 DEF CloseLast
  <2>. QED BY <1>3, <2>1, <2>2, <2>3 DEF CloseFile
<1>4. ASSUME NEW n \in Name \cup {NULL}, CreateFile(n) \/ DestroyFile(n) \/ OpenFileCall(n)
      PROVE  FALSE
  BY <1>0, <1>4, ReplyFields DEF CreateFile, DestroyFile, OpenFileCall, OpenAgain, OpenAbsent,
                           OpenNew, DBReply, Refused, Refusal
<1>5. CASE DeleteBufMgr \/ DestroyDB
  BY <1>0, <1>5, ReplyFields DEF DeleteBufMgr, DestroyDB, Delete, Crash
<1>. QED BY <1>2, <1>3, <1>4, <1>5 DEF DBNext, FileCall

(* When flushFile or the last closeFile says OK and none of its writes     *)
(* failed, every dirty page of that file and of the files that stay open   *)
(* is on disk, where its name leads -- whatever flush failed before. Of a  *)
(* call one of whose writes fails its OK says nothing (buf.cpp:167).       *)
THEOREM Durable ==
  ASSUME CarefulClient
  PROVE  DBSpec => FlushedIsDurable
<1>1. PoolInv /\ [DBNext]_allVars
        => [~ClosedIsDurable' => ~NoWriteFails]_allVars
  BY DurableStep
<1>. QED BY <1>1, PoolAlways, PTL DEF DBSpec, FlushedIsDurable

(* On a disk on which no write of a flush fails, their OK always means     *)
(* that.                                                                   *)
THEOREM DurableIfFlushed ==
  ASSUME CarefulClient, "flush" \notin Faults
  PROVE  DBSpec => []ClosedIsDurable
<1>1. DBInit => ClosedIsDurable
  BY ReplyFields DEF DBInit, NewBufMgr, ClosedIsDurable
<1>2. ASSUME PoolInv, ClosedIsDurable, [DBNext]_allVars
      PROVE  ClosedIsDurable'
  <2>1. CASE UNCHANGED allVars
    BY <1>2, <2>1 DEF allVars, vars, dbVars, ClosedIsDurable, NamedPage, Opened
  <2>2. CASE DBNext /\ NoWriteFails
    BY <1>2, <2>2, DurableStep
  <2>3. CASE DBNext /\ ~NoWriteFails
    BY <1>2, <2>3, OnlyScansSayOK DEF ClosedIsDurable, SaysDurable
  <2>. QED BY <1>2, <2>1, <2>2, <2>3
<1>. QED BY <1>1, <1>2, PoolAlways, PTL DEF DBSpec

-----------------------------------------------------------------------------
(* Named files implement PageStore.  A name that is open shows what its    *)
(* File object sees of the pool, and one that is not what is on disk.      *)

NamedAs(n, p) == IF dir[n] = NULL THEN "gone" ELSE PageIn(disk[dir[n]], openFiles[n], p)

outBar == [ret EXCEPT !.file = IF @ = NULL THEN NULL ELSE fileName[@]]

LEMMA NamedPages ==
  /\ NamedStore = [n \in Name |-> [p \in Page |-> NamedAs(n, p)]]
  /\ NamedStore' = [n \in Name |-> [p \in Page |-> NamedAs(n, p)']]
BY DEF NamedStore, NamedAs

LEMMA OpenNamed ==
  ASSUME PoolInv, NEW n \in Name, openFiles[n] # NULL, NEW p \in Page
  PROVE  /\ openFiles[n] \in Live /\ dir[n] = unixFile[openFiles[n]] /\ dir[n] \in Inode
         /\ process # "exited" => NamedAs(n, p) = Seen(openFiles[n], p)
<1>1. openFiles[n] \in Live /\ dir[n] = unixFile[openFiles[n]] /\ dir[n] \in Inode
  BY LiveObjects DEF PoolInv
<1>2. dir[n] # NULL
  BY <1>1, NullNotAnObject
<1>. QED BY <1>1, <1>2 DEF NamedAs, Seen, PageIn, View, HeldBy, Held

LEMMA ClosedNamed ==
  ASSUME PoolInv, NEW n \in Name, openFiles[n] = NULL, NEW p \in Page
  PROVE  /\ NamedAs(n, p) = IF dir[n] = NULL THEN "gone" ELSE DiskPage(disk[dir[n]], p)
         /\ dir[n] # NULL => dir[n] \in Inode /\ \A g \in Live : unixFile[g] # dir[n]
<1>1. \A i \in Frames : ~HeldBy(NULL, p, i)
  BY NullNotAnObject DEF HeldBy, PoolInv, CleanInv, CoherentInv, Coherent, DescsSound
<1>2. NamedAs(n, p) = IF dir[n] = NULL THEN "gone" ELSE DiskPage(disk[dir[n]], p)
  BY <1>1 DEF NamedAs, PageIn, DiskPage
<1>3. dir[n] # NULL => dir[n] \in Inode
  BY DEF PoolInv, DBInv, DBTypeOK
<1>4. ASSUME dir[n] # NULL, NEW g \in Live
      PROVE  unixFile[g] # dir[n]
  <2>1. fileName[g] \in Name /\ openFiles[fileName[g]] = g /\ unixFile[g] = dir[fileName[g]]
        /\ g # NULL
    BY LiveObjects, NullNotAnObject DEF PoolInv
  <2>. QED BY <1>4, <2>1 DEF PoolInv, DirApart
<1>. QED BY <1>2, <1>3, <1>4

(* The same of the next state.                                             *)
LEMMA NextOpenNamed ==
  ASSUME PoolInv', process' # "exited", NEW n \in Name, openFiles'[n] # NULL, NEW p \in Page
  PROVE  NamedAs(n, p)' = Seen(openFiles[n], p)'
<1>1. dir'[n] = unixFile'[openFiles'[n]] /\ dir'[n] \in Inode
  BY DEF PoolInv, DBInv, DBTypeOK, OpenTableSound, DescriptorsApart, Opened
<1>2. dir'[n] # NULL
  BY <1>1, NullNotAnObject
<1>. QED BY <1>1, <1>2 DEF NamedAs, Seen, PageIn, View, HeldBy, Held, Allocates

LEMMA NextClosedNamed ==
  ASSUME PoolInv', NEW n \in Name, openFiles'[n] = NULL \/ process' = "exited", NEW p \in Page
  PROVE  NamedAs(n, p)' = IF dir'[n] = NULL THEN "gone" ELSE DiskPage(disk'[dir'[n]], p)
<1>1. CASE process' = "exited"
  BY <1>1 DEF NamedAs, PageIn, DiskPage
<1>2. CASE openFiles'[n] = NULL
  <2>1. \A i \in Frames : ~HeldBy(NULL, p, i)'
    BY NullNotAnObject DEF HeldBy, PoolInv, CleanInv, CoherentInv, Coherent, DescsSound
  <2>. QED BY <1>2, <2>1 DEF NamedAs, PageIn, DiskPage, HeldBy, Allocates
<1>. QED BY <1>1, <1>2

LEMMA NamedSame ==
  ASSUME \A n \in Name, p \in Page : NamedAs(n, p)' = NamedAs(n, p)
  PROVE  UNCHANGED NamedStore
BY NamedPages

LEMMA NamedMoved ==
  ASSUME NEW m \in Name, NEW q \in Page, NEW c,
         \A n \in Name, p \in Page :
           NamedAs(n, p)' = IF n = m /\ p = q THEN c ELSE NamedAs(n, p)
  PROVE  NamedStore' = [NamedStore EXCEPT ![m][q] = c]
BY NamedPages

(* The replies of calls have every field.                                  *)
Whole(r) == {"op", "file", "pageNo", "data"} \subseteq DOMAIN r

LEMMA WholeReplies ==
  /\ \A op, s : Whole(Reply(op, s))
  /\ \A op, s, f, p : Whole(CallReply(op, s, f, p))
  /\ \A op, f, p, c : Whole(PageReply(op, f, p, c))
  /\ \A e, op, f, p, c : Whole(SetUpReply(e, op, f, p, c))
<1>1. \A op, s : Whole(Reply(op, s))
  BY DEF Whole, Reply
<1>2. \A op, s, f, p : Whole(CallReply(op, s, f, p))
  BY <1>1 DEF Whole, CallReply
<1>3. \A op, f, p, c : Whole(PageReply(op, f, p, c))
  BY DEF Whole, PageReply
<1>. QED BY <1>1, <1>2, <1>3 DEF SetUpReply

LEMMA OutParts ==
  ASSUME Whole(ret')
  PROVE  /\ outBar'.op = ret'.op /\ outBar'.data = ret'.data /\ outBar'.pageNo = ret'.pageNo
         /\ outBar'.file = IF ret'.file = NULL THEN NULL ELSE fileName'[ret'.file]
BY DEF Whole, outBar

LEMMA OtherStep ==
  ASSUME Whole(ret'), ret'.data = NULL,
         \A n \in Name, p \in Page : NamedAs(n, p)' = NamedAs(n, p)
  PROVE  Files!Next
BY NamedSame, OutParts DEF Files!Next, Files!Other, outBar

LEMMA PageReplyWhole ==
  ASSUME PageCall, process' # "hung"
  PROVE  Whole(ret')
<1>1. ASSUME NEW f \in File, NEW p \in 0 .. MaxPage, ReadPage(f, p) PROVE Whole(ret')
  <2>1. ASSUME NEW e, ReadInto(f, p, e) PROVE Whole(ret')
    BY <2>1, WholeReplies DEF ReadInto
  <2>2. CASE ReadHit(f, p)
    BY <2>2, WholeReplies DEF ReadHit
  <2>3. CASE Exceeded("readPage") \/ FrameOutOfRange("readPage")
    BY <2>3, WholeReplies DEF Exceeded, FrameOutOfRange, Crash
  <2>. QED BY <1>1, <2>1, <2>2, <2>3 DEF ReadPage, ReadMiss
<1>2. ASSUME NEW f \in File, AllocPage(f) PROVE Whole(ret')
  <2>1. ASSUME NEW e, AllocInto(f, e) PROVE Whole(ret')
    BY <2>1, WholeReplies DEF AllocInto
  <2>2. CASE Exceeded("allocPage") \/ FrameOutOfRange("allocPage")
    BY <2>2, WholeReplies DEF Exceeded, FrameOutOfRange, Crash
  <2>. QED BY <1>2, <2>1, <2>2 DEF AllocPage
<1>3. ASSUME NEW f, NEW p, DisposePage(f, p) PROVE Whole(ret')
  BY <1>3, WholeReplies DEF DisposePage, DisposeRefused, DisposeTried
<1>4. ASSUME NEW f, NEW p, NEW dirty, NEW love, UnPinPage(f, p, dirty, love)
      PROVE  Whole(ret')
  <2>1. ASSUME NEW i, NotPinned(i) \/ LosePin(i, dirty, love) PROVE Whole(ret')
    BY <2>1, WholeReplies DEF NotPinned, LosePin
  <2>2. CASE UnPinNotFound(f, p)
    BY <2>2, WholeReplies DEF UnPinNotFound
  <2>. QED BY <1>4, <2>1, <2>2 DEF UnPinPage, UnPinFound
<1>5. ASSUME NEW i, NEW c, WritePage(i, c) PROVE Whole(ret')
  BY <1>5, WholeReplies DEF WritePage
<1>6. ASSUME NEW f, FlushFile(f) PROVE Whole(ret')
  BY <1>6, WholeReplies DEF FlushFile, Crash
<1>. QED BY <1>1, <1>2, <1>3, <1>4, <1>5, <1>6 DEF PageCall, Fetch, Release

(* The calls on pages. *)
LEMMA PageCallEffect ==
  ASSUME CarefulClient, PoolInv, PageCall
  PROVE  StoreEffect(Live) /\ Untouched(Live)
<1>1. PICK L \in SUBSET File : L = Live
  BY DEF Live
<1>2. CleanInv(L) /\ CoherentInv(L) /\ (PoolUsable => NoStale(L))
  BY <1>1, UsableIsNoStale DEF PoolInv, CleanInv, CarefulClient
<1>3. ASSUME NEW f \in File, Opened(f), (PoolUsable /\ Fetch(f)) \/ Release(f)
      PROVE  StoreEffect(L) /\ Untouched(L)
  <2>1. f \in L
    BY <1>1, <1>3 DEF Live
  <2>. QED BY <1>2, <1>3, <2>1, CallEffect, CallElsewhere DEF CarefulClient
<1>4. ASSUME NEW i \in Frames, NEW c \in Value, WritePage(i, c)
      PROVE  StoreEffect(L) /\ Untouched(L)
  <2>1. disk' = disk
    BY <1>4 DEF WritePage
  <2>. QED BY <1>2, <1>4, <2>1, WritePageStep DEF Untouched
<1>. QED BY <1>1, <1>3, <1>4 DEF PageCall

LEMMA NamedEffectStep ==
  ASSUME PoolInv, PoolInv', process # "exited", process' # "exited", UNCHANGED dbVars,
         unixFile' = unixFile, Whole(ret'), StoreEffect(Live), Untouched(Live)
  PROVE  Files!Next
<1>1. \A f \in Live : /\ fileName[f] \in Name /\ openFiles[fileName[f]] = f /\ f # NULL
                      /\ fileName'[f] = fileName[f]
  BY LiveObjects, NullNotAnObject DEF PoolInv, dbVars
<1>2. ASSUME NEW n \in Name, openFiles[n] # NULL, NEW p \in Page
      PROVE  /\ openFiles[n] \in Live /\ fileName[openFiles[n]] = n
             /\ NamedAs(n, p) = Seen(openFiles[n], p)
             /\ NamedAs(n, p)' = NextSeen(openFiles[n], p)
  <2>1. openFiles[n] \in Live /\ fileName[openFiles[n]] = n
    BY <1>2, LiveObjects DEF PoolInv
  <2>2. NamedAs(n, p) = Seen(openFiles[n], p)
    BY <1>2, OpenNamed
  <2>3. openFiles'[n] = openFiles[n]
    BY DEF dbVars
  <2>4. NamedAs(n, p)' = Seen(openFiles[n], p)'
    BY <1>2, <2>3, NextOpenNamed
  <2>5. Seen(openFiles[n], p)' = NextSeen(openFiles[n], p)
    BY <2>3 DEF Seen, NextSeen, View, Held, Allocates
  <2>. QED BY <2>1, <2>2, <2>4, <2>5
<1>3. ASSUME NEW n \in Name, openFiles[n] = NULL, NEW p \in Page
      PROVE  NamedAs(n, p)' = NamedAs(n, p)
  <2>1. openFiles'[n] = NULL /\ dir'[n] = dir[n]
    BY <1>3 DEF dbVars
  <2>2. NamedAs(n, p)' = IF dir[n] = NULL THEN "gone" ELSE DiskPage(disk'[dir[n]], p)
    BY <2>1, NextClosedNamed
  <2>3. NamedAs(n, p) = IF dir[n] = NULL THEN "gone" ELSE DiskPage(disk[dir[n]], p)
    BY <1>3, ClosedNamed
  <2>4. dir[n] # NULL => DiskPage(disk'[dir[n]], p) = DiskPage(disk[dir[n]], p)
    BY <1>3, ClosedNamed DEF Untouched, DiskPage
  <2>. QED BY <2>2, <2>3, <2>4
<1>4. ASSUME SameSeen(Live), NEW n \in Name, NEW p \in Page
      PROVE  NamedAs(n, p)' = NamedAs(n, p)
  BY <1>2, <1>3, <1>4 DEF SameSeen
<1>5. ASSUME NEW f \in Live, NEW q \in Page, NEW c, MovedSeen(Live, f, q, c)
      PROVE  NamedStore' = [NamedStore EXCEPT ![fileName[f]][q] = c]
  <2>1. ASSUME NEW n \in Name, NEW p \in Page
        PROVE  NamedAs(n, p)' = IF n = fileName[f] /\ p = q THEN c ELSE NamedAs(n, p)
    <3>1. CASE openFiles[n] = NULL
      BY <1>1, <1>3, <3>1
    <3>2. CASE openFiles[n] # NULL
      BY <1>1, <1>2, <1>5, <3>2 DEF MovedSeen
    <3>. QED BY <3>1, <3>2
  <2>. QED BY <1>1, <2>1, NamedMoved
<1>6. ASSUME NEW f \in Live, NEW p \in Page
      PROVE  NamedStore[fileName[f]][p] = Seen(f, p)
  <2>1. NamedAs(fileName[f], p) = Seen(f, p)
    BY <1>1, <1>2
  <2>. QED BY <1>1, <2>1, NamedPages
<1>7. ASSUME NEW op, NEW f \in Live, NEW p, Gave(op, f, p)
      PROVE  Files!Gives(op, fileName[f], p)
  <2>1. /\ outBar'.op = op /\ outBar'.data = ret'.data /\ outBar'.data # NULL
        /\ outBar'.pageNo = p /\ outBar'.file = fileName[f]
    BY <1>1, <1>7, OutParts DEF Gave
  <2>. QED BY <2>1 DEF Files!Gives, outBar
<1>8. outBar'.op = ret'.op /\ outBar'.data = ret'.data
  BY OutParts
<1>9. ASSUME NEW f \in Live, NEW p \in Page, ReadSeen(Live, f, p)
      PROVE  Files!Next
  <2>1. UNCHANGED NamedStore
    BY <1>4, <1>9, NamedSame DEF ReadSeen
  <2>2. Files!Read(fileName[f], p)
    BY <1>6, <1>7, <1>8, <1>9, <2>1 DEF ReadSeen, Files!Read, outBar
  <2>. QED BY <1>1, <2>2 DEF Files!Next
<1>10. ASSUME NEW f \in Live, NEW p \in Page, AllocateSeen(Live, f, p)
       PROVE  Files!Next
  <2>1. Files!Allocate(fileName[f], p)
    BY <1>5, <1>6, <1>7, <1>10 DEF AllocateSeen, Files!Allocate
  <2>. QED BY <1>1, <2>1 DEF Files!Next
<1>11. ASSUME NEW f \in Live, NEW p \in Page, NEW c \in Store!Content, WriteSeen(Live, f, p, c)
       PROVE  Files!Next
  <2>1. Files!Write(fileName[f], p, c)
    BY <1>5, <1>6, <1>8, <1>11 DEF WriteSeen, Files!Write, outBar
  <2>. QED BY <1>1, <2>1 DEF Files!Next, Files!Content, Store!Content
<1>12. ASSUME NEW f \in Live, NEW p \in Page, NEW c \in Store!Content \cup {"gone"},
              DisposeSeen(Live, f, p, c)
       PROVE  Files!Next
  <2>1. NamedStore' = [NamedStore EXCEPT ![fileName[f]][p] = c]
        /\ NamedStore[fileName[f]][p] # "gone" /\ outBar'.op = "disposePage"
    BY <1>5, <1>6, <1>8, <1>12 DEF DisposeSeen
  <2>2. c \in Files!Content \cup {"gone"}
    BY DEF Files!Content, Store!Content
  <2>3. Files!Dispose(fileName[f], p)
    BY <2>1, <2>2 DEF Files!Dispose, outBar
  <2>. QED BY <1>1, <2>3 DEF Files!Next
<1>13. ASSUME ret'.data = NULL, SameSeen(Live)
       PROVE  Files!Next
  BY <1>4, <1>13, OtherStep
<1>. QED BY <1>9, <1>10, <1>11, <1>12, <1>13 DEF StoreEffect

(* The calls on files.  A name whose file and object stay shows the same,  *)
(* if the disk does.                                                       *)
LEMMA KeptNamed ==
  ASSUME PoolInv, PoolInv', process # "exited", process' # "exited",
         UNCHANGED <<bufTable, bufPool>>,
         NEW n \in Name, NEW p \in Page, openFiles'[n] = openFiles[n], dir'[n] = dir[n],
         openFiles[n] # NULL
           => /\ unixFile'[openFiles[n]] = unixFile[openFiles[n]]
              /\ View(bufTable, bufPool, disk', openFiles[n], p) = Seen(openFiles[n], p),
         openFiles[n] = NULL /\ dir[n] # NULL
           => DiskPage(disk'[dir[n]], p) = DiskPage(disk[dir[n]], p)
  PROVE  NamedAs(n, p)' = NamedAs(n, p)
<1>1. CASE openFiles[n] # NULL
  <2>1. NamedAs(n, p) = Seen(openFiles[n], p)
    BY <1>1, OpenNamed
  <2>2. NamedAs(n, p)' = Seen(openFiles[n], p)'
    BY <1>1, NextOpenNamed
  <2>3. Seen(openFiles[n], p)' = View(bufTable, bufPool, disk', openFiles[n], p)
    BY <1>1 DEF Seen, View, Held, Allocates
  <2>. QED BY <1>1, <2>1, <2>2, <2>3
<1>2. CASE openFiles[n] = NULL
  BY <1>2, ClosedNamed, NextClosedNamed
<1>. QED BY <1>1, <1>2

(* What a scan writes back shows in no name.                               *)
LEMMA ScanSeen ==
  ASSUME PoolInv, WriteScanned
  PROVE  /\ Untouched(Live)
         /\ \A f \in Live, p \in Page : View(bufTable, bufPool, disk', f, p) = Seen(f, p)
<1>1. PICK L \in SUBSET File : L = Live
  BY DEF Live
<1>2. CleanInv(L) /\ CoherentInv(L) /\ Scanned \in SUBSET Frames
  BY <1>1 DEF PoolInv, CleanInv, Scanned
<1>3. PICK W \in Writes(Scanned, "flush") : disk' = WrittenBack(W)
  BY DEF WriteScanned
<1>4. Untouched(L)
  BY <1>2, <1>3, WrittenElsewhere
<1>5. \A f \in L, p \in Page : View(bufTable, bufPool, WrittenBack(W), f, p) = Seen(f, p)
  BY <1>2, WriteBackView
<1>. QED BY <1>1, <1>3, <1>4, <1>5

(* When no page is pinned and no write fails, the scan leaves everything   *)
(* on disk.                                                                *)
LEMMA ScanFlushed ==
  ASSUME PoolInv, NoWriteFails, Scanned = Frames,
         NEW f \in Live, NEW p \in Page
  PROVE  DiskPage(disk'[unixFile[f]], p) = Seen(f, p)
<1>1. PICK L \in SUBSET File : L = Live
  BY DEF Live
<1>2. CleanInv(L) /\ PoolTypeOK
  BY <1>1 DEF PoolInv, CleanInv, CoherentInv
<1>3. disk' = WrittenBack(Writable(Frames)) /\ Writable(Frames) \in Writes(Frames, "flush")
  BY AllWritable DEF NoWriteFails
<1>4. ASSUME NEW i \in Frames PROVE ~(bufTable[i].pinCnt > 0)
  <2>1. i \in Scanned /\ i \in 0 .. i
    BY <1>4, BufsAssumption DEF Frames
  <2>2. bufTable[i].pinCnt <= 0 /\ bufTable[i].pinCnt \in Int
    BY <1>2, <2>1, BoundsAssumption DEF Scanned, PoolTypeOK, BufDesc
  <2>. QED BY <2>2
<1>5. Seen(f, p) = DiskPage(WrittenBack(Writable(Frames))[unixFile[f]], p)
  BY <1>1, <1>2, <1>3, <1>4, FlushedView
<1>. QED BY <1>3, <1>5

LEMMA OpenFileStep ==
  ASSUME PoolInv, PoolInv', process = "running", NEW n \in Name \cup {NULL}, OpenFileCall(n)
  PROVE  Files!Next
<1>1. UNCHANGED <<bufTable, bufPool, disk, dir, process>>
  BY DEF OpenFileCall, Pool
<1>2. Whole(ret') /\ ret'.data = NULL
  BY WholeReplies, NoData DEF OpenFileCall, OpenAgain, OpenAbsent, OpenNew, Refusal
<1>3. CASE UNCHANGED <<unixFile, openFiles>>
  BY <1>1, <1>2, <1>3, KeptNamed, OtherStep DEF Seen
<1>4. ASSUME n # NULL, NEW f \in File, OpenNew(n, f)
      PROVE  Files!Next
  <2>1. /\ openFiles[n] = NULL /\ dir[n] # NULL /\ \A i \in Frames : bufTable[i].file # f
        /\ openFiles' = [openFiles EXCEPT ![n] = f] /\ n \in Name /\ f # NULL
    BY <1>4, NullNotAnObject DEF OpenNew, Unreferenced
  <2>2. PICK k : k \notin Used
                 /\ unixFile' = [g \in File |-> IF g = f \/ fd[g] = k THEN dir[n] ELSE unixFile[g]]
    BY <1>4 DEF OpenNew, UnixOpen, Lowest
  <2>3. unixFile'[f] = dir[n] /\ \A g \in Live : g # f => unixFile'[g] = unixFile[g]
    BY <2>2 DEF Live, Used
  <2>4. f \notin Live
    BY <1>4 DEF OpenNew, Unreferenced, Live
  <2>5. ASSUME NEW p \in Page
        PROVE  NamedAs(n, p)' = NamedAs(n, p)
    <3>1. NamedAs(n, p) = DiskPage(disk[dir[n]], p)
      BY <2>1, ClosedNamed
    <3>2. openFiles'[n] = f
      BY <2>1 DEF PoolInv, DBInv, DBTypeOK
    <3>3. NamedAs(n, p)' = Seen(f, p)'
      BY <1>1, <2>1, <3>2, NextOpenNamed
    <3>4. Seen(f, p)' = DiskPage(disk[dir[n]], p)
      BY <1>1, <2>1, <2>3 DEF Seen, View, Held, DiskPage, Allocates
    <3>. QED BY <3>1, <3>3, <3>4
  <2>6. ASSUME NEW m \in Name, m # n, NEW p \in Page
        PROVE  NamedAs(m, p)' = NamedAs(m, p)
    <3>1. openFiles'[m] = openFiles[m]
      BY <2>1, <2>6 DEF PoolInv, DBInv, DBTypeOK
    <3>2. openFiles[m] # NULL => openFiles[m] \in Live /\ openFiles[m] # f
      BY <2>4, LiveObjects DEF PoolInv
    <3>. QED BY <1>1, <2>3, <2>6, <3>1, <3>2, KeptNamed DEF Seen
  <2>. QED BY <1>2, <2>5, <2>6, OtherStep
<1>. QED BY <1>3, <1>4 DEF OpenFileCall, OpenAgain, OpenAbsent

LEMMA CloseFileStep ==
  ASSUME PoolInv, PoolInv', LastsAreWritten, process = "running",
         NEW f \in File \cup {NULL}, CloseFile(f)
  PROVE  Files!Next
<1>1. dir' = dir /\ process' # "exited" /\ UNCHANGED <<bufTable, bufPool>>
  BY DEF CloseFile, CloseRefused, CloseOneOfMany, CloseLast, DBReply, Refused, Refusal, Crash, Pool
<1>2. Whole(ret') /\ ret'.data = NULL
  BY WholeReplies, NoData
     DEF CloseFile, CloseRefused, CloseOneOfMany, CloseLast, DBReply, Refused, Refusal, Crash
<1>3. CASE UNCHANGED <<unixFile, openFiles, disk>>
  BY <1>1, <1>2, <1>3, KeptNamed, OtherStep DEF Seen
<1>4. CASE WriteScanned /\ UNCHANGED <<unixFile, openFiles>>
  <2>1. ASSUME NEW n \in Name, NEW p \in Page
        PROVE  NamedAs(n, p)' = NamedAs(n, p)
    <3>1. openFiles[n] # NULL => View(bufTable, bufPool, disk', openFiles[n], p) = Seen(openFiles[n], p)
      BY <1>4, ScanSeen, OpenNamed
    <3>2. openFiles[n] = NULL /\ dir[n] # NULL
            => DiskPage(disk'[dir[n]], p) = DiskPage(disk[dir[n]], p)
      BY <1>4, ScanSeen, ClosedNamed DEF Untouched, DiskPage
    <3>. QED BY <1>1, <1>4, <3>1, <3>2, KeptNamed
  <2>. QED BY <1>2, <2>1, OtherStep
<1>5. CASE /\ f \in File /\ Opened(f) /\ WriteScanned /\ Scanned = Frames /\ UnixClose(f) /\ NameErased(f)
           /\ NoWriteFails
  <2>1. PICK n \in Name : /\ n = fileName[f] /\ openFiles[n] = f /\ dir[n] = unixFile[f]
                          /\ f \in Live /\ f # NULL
    BY <1>5, LiveObjects, NullNotAnObject DEF Live, PoolInv
  <2>2. \A g \in Live : g # f => unixFile'[g] = unixFile[g]
    BY <1>5, <2>1 DEF UnixClose, Live, PoolInv, DBInv, DescriptorsApart
  <2>3. openFiles' = [openFiles EXCEPT ![n] = NULL]
    BY <1>5, <2>1 DEF NameErased
  <2>4. ASSUME NEW p \in Page
        PROVE  NamedAs(n, p)' = NamedAs(n, p)
    <3>1. openFiles'[n] = NULL /\ dir'[n] = dir[n] /\ dir[n] # NULL
      BY <1>1, <2>1, <2>3, OpenNamed, NullNotAnObject DEF PoolInv, DBInv, DBTypeOK
    <3>2. NamedAs(n, p)' = DiskPage(disk'[unixFile[f]], p)
      <4>1. NamedAs(n, p)' = IF dir'[n] = NULL THEN "gone" ELSE DiskPage(disk'[dir'[n]], p)
        BY <2>1, <3>1, NextClosedNamed
      <4>. QED BY <2>1, <3>1, <4>1
    <3>3. NamedAs(n, p) = Seen(f, p)
      BY <2>1, OpenNamed
    <3>. QED BY <1>5, <2>1, <3>2, <3>3, ScanFlushed
  <2>5. ASSUME NEW m \in Name, m # n, NEW p \in Page
        PROVE  NamedAs(m, p)' = NamedAs(m, p)
    <3>1. openFiles'[m] = openFiles[m]
      BY <2>3, <2>5 DEF PoolInv, DBInv, DBTypeOK
    <3>2. openFiles[m] # NULL => openFiles[m] \in Live /\ openFiles[m] # f
      BY <2>1, <2>5, LiveObjects DEF PoolInv
    <3>3. openFiles[m] # NULL => View(bufTable, bufPool, disk', openFiles[m], p) = Seen(openFiles[m], p)
      BY <1>5, <3>2, ScanSeen
    <3>4. openFiles[m] = NULL /\ dir[m] # NULL
            => DiskPage(disk'[dir[m]], p) = DiskPage(disk[dir[m]], p)
      BY <1>5, ScanSeen, ClosedNamed DEF Untouched, DiskPage
    <3>. QED BY <1>1, <2>2, <3>1, <3>2, <3>3, <3>4, KeptNamed
  <2>6. \A m \in Name, p \in Page : NamedAs(m, p)' = NamedAs(m, p)
    BY <2>4, <2>5
  <2>. QED BY <1>2, <2>6, OtherStep
<1>6. CASE CloseLast(f)
  <2>1. CASE Stray(Scanned) /\ Crash("closeFile") /\ UNCHANGED <<openFiles, openCnt>>
    BY <1>3, <2>1 DEF Crash
  <2>2. CASE Scanned # Frames /\ FlushBeforeClose /\ UNCHANGED <<unixFile, openFiles>>
    BY <1>4, <2>2 DEF FlushBeforeClose
  <2>3. CASE Scanned = Frames /\ FlushBeforeClose /\ UnixClose(f) /\ NameErased(f)
             /\ openCnt' = [openCnt EXCEPT ![f] = 0]
    <3>1. f \in File /\ Opened(f) /\ ~Opened(f)'
      BY <1>6, <2>3 DEF CloseLast, Opened, PoolInv, DBInv, DBTypeOK
    <3>2. NoWriteFails
      BY <3>1 DEF LastsAreWritten
    <3>. QED BY <1>5, <2>3, <3>1, <3>2 DEF FlushBeforeClose
  <2>. QED BY <1>6, <2>1, <2>2, <2>3 DEF CloseLast
<1>. QED BY <1>3, <1>6 DEF CloseFile, CloseRefused, CloseOneOfMany, DBReply, Refused, Refusal

(* A new file has no page; the pages of a file that is destroyed go, and   *)
(* no others.                                                              *)
LEMMA DirFileStep ==
  ASSUME PoolInv, PoolInv', process = "running", NEW n \in Name \cup {NULL},
         CreateFile(n) \/ DestroyFile(n)
  PROVE  Files!Next
<1>1. UNCHANGED <<bufTable, bufPool, unixFile, openFiles, process>>
  BY DEF CreateFile, DestroyFile, DBReply, Refused, Refusal, Pool
<1>2. Whole(ret') /\ ret'.data = NULL
  BY WholeReplies, NoData DEF CreateFile, DestroyFile, DBReply, Refused, Refusal
<1>3. CASE UNCHANGED <<disk, dir>>
  BY <1>1, <1>2, <1>3, KeptNamed, OtherStep DEF Seen
<1>4. ASSUME NEW i \in Inode, disk' = [disk EXCEPT ![i] = NewFile], n \in Name,
             NEW x, dir' = [dir EXCEPT ![n] = x], \A m \in Name : m # n => dir[m] # i,
             NEW m \in Name, m # n, NEW p \in Page
      PROVE  NamedAs(m, p)' = NamedAs(m, p)
  <2>1. dir'[m] = dir[m]
    BY <1>4 DEF PoolInv, DBInv, DBTypeOK
  <2>2. dir[m] # i
    BY <1>4
  <2>3. dir[m] \in Inode => disk'[dir[m]] = disk[dir[m]]
    BY <1>4, <2>2 DEF PoolInv, CleanInv, CoherentInv, PoolTypeOK
  <2>4. openFiles[m] = NULL /\ dir[m] # NULL
          => DiskPage(disk'[dir[m]], p) = DiskPage(disk[dir[m]], p)
    BY <2>3, ClosedNamed
  <2>5. openFiles[m] # NULL => View(bufTable, bufPool, disk', openFiles[m], p) = Seen(openFiles[m], p)
    BY <2>3, OpenNamed DEF View, Seen
  <2>. QED BY <1>1, <2>1, <2>4, <2>5, KeptNamed
<1>5. ASSUME n \in Name, openFiles[n] = NULL, dir[n] = NULL, NEW i \in Inode,
             \A m \in Name : dir[m] # i, dir' = [dir EXCEPT ![n] = i],
             disk' = [disk EXCEPT ![i] = NewFile]
      PROVE  Files!Next
  <2>1. ASSUME NEW p \in Page
        PROVE  NamedAs(n, p)' = NamedAs(n, p)
    <3>1. NamedAs(n, p) = "gone"
      BY <1>5 DEF NamedAs
    <3>2. disk'[i] = NewFile /\ dir'[n] = i /\ i # NULL /\ openFiles'[n] = NULL
      BY <1>1, <1>5, NullNotAnObject
         DEF PoolInv, CleanInv, CoherentInv, PoolTypeOK, DBInv, DBTypeOK
    <3>3. NamedAs(n, p)' = DiskPage(NewFile, p)
      <4>1. NamedAs(n, p)' = IF dir'[n] = NULL THEN "gone" ELSE DiskPage(disk'[dir'[n]], p)
        BY <1>5, <3>2, NextClosedNamed
      <4>. QED BY <3>2, <4>1
    <3>4. ~Allocates(NewFile, p)
      BY DEF Allocates, NewFile, Page
    <3>. QED BY <3>1, <3>3, <3>4 DEF DiskPage
  <2>2. ASSUME NEW m \in Name, m # n, NEW p \in Page
        PROVE  NamedAs(m, p)' = NamedAs(m, p)
    BY <1>4, <1>5, <2>2
  <2>. QED BY <1>2, <2>1, <2>2, OtherStep
<1>6. ASSUME n \in Name, dir[n] # NULL, dir' = [dir EXCEPT ![n] = NULL],
             disk' = [disk EXCEPT ![dir[n]] = NewFile],
             ret' = Reply("destroyFile", "OK")
      PROVE  Files!Next
  <2>1. dir[n] \in Inode /\ dir'[n] = NULL /\ \A m \in Name : m # n => dir[m] # dir[n]
    BY <1>6 DEF PoolInv, DirApart, DBInv, DBTypeOK
  <2>2. \A p \in Page : NamedAs(n, p)' = "gone"
    BY <2>1 DEF NamedAs
  <2>3. ASSUME NEW m \in Name, m # n, NEW p \in Page
        PROVE  NamedAs(m, p)' = NamedAs(m, p)
    BY <1>4, <1>6, <2>1, <2>3
  <2>4. NamedStore' = [NamedStore EXCEPT ![n] = [p \in Page |-> "gone"]]
    BY <2>2, <2>3, NamedPages
  <2>5. outBar'.op = "destroyFile"
    BY <1>2, <1>6, OutParts, ReplyFields
  <2>6. Files!Discard(n)
    BY <2>4, <2>5 DEF Files!Discard, outBar
  <2>. QED BY <1>6, <2>6 DEF Files!Next
<1>. QED BY <1>3, <1>5, <1>6 DEF CreateFile, DestroyFile, DBReply, Refused, Refusal

LEMMA UnpinnedScan ==
  ASSUME \A i \in Frames : bufTable[i].pinCnt = 0
  PROVE  Scanned = Frames
<1>1. \A i \in Frames : 0 .. i \subseteq Frames
  BY BufsAssumption DEF Frames
<1>2. ASSUME NEW i \in Frames, NEW j \in 0 .. i
      PROVE  bufTable[j].pinCnt <= 0
  BY <1>1, <1>2
<1>. QED BY <1>2 DEF Scanned

(* The end of the program leaves on disk what the names showed.            *)
LEMMA EndStep ==
  ASSUME CarefulClient, LastsAreWritten, PoolInv, PoolInv', process = "running",
         DeleteBufMgr \/ DestroyDB, UNCHANGED dbVars
  PROVE  Files!Next
<1>1. PICK L \in SUBSET File : L = Live
  BY DEF Live
<1>2. CoherentInv(L) /\ UNCHANGED <<dir, openFiles, bufTable, bufPool, unixFile>>
  BY <1>1, PageCallsKeep DEF PoolInv, CleanInv, dbVars, DeleteBufMgr, DestroyDB, Delete,
                             Crash, Pool, CarefulClient
<1>3. Whole(ret') /\ ret'.data = NULL
  BY WholeReplies, NoData DEF DeleteBufMgr, DestroyDB, Delete, Crash
<1>4. CASE disk' = disk /\ process' # "exited"
  BY <1>2, <1>3, <1>4, KeptNamed, OtherStep DEF Seen
<1>5. ASSUME process' = "exited", Untouched(L),
             \A f \in L, p \in Page : DiskPage(disk'[unixFile[f]], p) = Seen(f, p)
      PROVE  Files!Next
  <2>1. ASSUME NEW n \in Name, NEW p \in Page
        PROVE  NamedAs(n, p)' = NamedAs(n, p)
    <3>1. NamedAs(n, p)' = IF dir[n] = NULL THEN "gone" ELSE DiskPage(disk'[dir[n]], p)
      BY <1>2, <1>5, NextClosedNamed
    <3>2. CASE openFiles[n] = NULL
      <4>1. dir[n] # NULL => DiskPage(disk'[dir[n]], p) = DiskPage(disk[dir[n]], p)
        BY <1>1, <1>5, <3>2, ClosedNamed DEF Untouched, DiskPage
      <4>. QED BY <3>1, <3>2, <4>1, ClosedNamed
    <3>3. CASE openFiles[n] # NULL
      BY <1>1, <1>5, <3>1, <3>3, OpenNamed, NullNotAnObject
    <3>. QED BY <3>2, <3>3
  <2>. QED BY <1>3, <2>1, OtherStep
<1>6. CASE DeleteBufMgr
  <2>1. ~AnyOpened /\ Delete
    BY <1>6 DEF DeleteBufMgr, CarefulClient
  <2>2. L = {}
    BY <1>1, <2>1 DEF Live, AnyOpened
  <2>3. ASSUME NEW W \in Writes(Frames, "shutdown"), disk' = WrittenBack(W), process' = "exited"
        PROVE  Files!Next
    <3>1. Untouched(L)
      BY <1>2, <2>3, WrittenElsewhere
    <3>. QED BY <1>5, <2>2, <2>3, <3>1
  <2>4. CASE Crash("delete")
    BY <1>4, <2>4 DEF Crash
  <2>. QED BY <2>1, <2>3, <2>4 DEF Delete
<1>7. CASE DestroyDB
  <2>1. CASE Crash("deleteDB")
    BY <1>4, <2>1 DEF Crash
  <2>2. CASE AnyOpened /\ WriteScanned /\ process' = "exited"
    <3>1. Scanned = Frames
      BY <1>7, UnpinnedScan DEF DestroyDB, CarefulClient
    <3>2. NoWriteFails
      BY <2>2 DEF LastsAreWritten
    <3>. QED BY <1>1, <1>5, <2>2, <3>1, <3>2, ScanSeen, ScanFlushed
  <2>3. CASE ~AnyOpened /\ disk' = disk /\ process' = "exited"
    <3>1. L = {}
      BY <1>1, <2>3 DEF Live, AnyOpened
    <3>. QED BY <1>5, <2>3, <3>1 DEF Untouched
  <2>. QED BY <1>7, <2>1, <2>2, <2>3 DEF DestroyDB
<1>. QED BY <1>6, <1>7

(* Only closeFile and ~DB leave a file, after a scan of the whole pool.    *)
LEMMA LeavingScans ==
  ASSUME CarefulClient, "flush" \notin Faults, PoolInv, DBNext
  PROVE  LastsAreWritten
<1>1. CASE WriteScanned /\ Scanned = Frames
  BY <1>1, NoneCanFail DEF LastsAreWritten
<1>2. CASE UNCHANGED openCnt /\ process' # "exited"
  BY <1>2 DEF LastsAreWritten, Opened
<1>3. CASE (\A f \in File : Opened(f) => Opened(f)') /\ process' # "exited"
  BY <1>3 DEF LastsAreWritten
<1>4. ASSUME NEW f \in File \cup {NULL}, CloseFile(f)
      PROVE  LastsAreWritten
  <2>1. CASE CloseRefused(f)
    BY <1>2, <2>1 DEF CloseRefused, DBReply, Refused, Refusal, DBNext
  <2>2. CASE CloseOneOfMany(f)
    <3>1. \A g \in File : Opened(g) => Opened(g)'
      BY <2>2 DEF CloseOneOfMany, Opened, PoolInv, DBInv, DBTypeOK
    <3>. QED BY <1>3, <2>2, <3>1 DEF CloseOneOfMany, DBNext
  <2>3. CASE CloseLast(f)
    BY <1>1, <1>2, <2>3 DEF CloseLast, Crash, FlushBeforeClose, DBNext
  <2>. QED BY <1>4, <2>1, <2>2, <2>3 DEF CloseFile
<1>5. ASSUME NEW n \in Name \cup {NULL}, CreateFile(n) \/ DestroyFile(n) \/ OpenFileCall(n)
      PROVE  LastsAreWritten
  <2>1. CASE CreateFile(n) \/ DestroyFile(n)
    BY <1>2, <2>1 DEF CreateFile, DestroyFile, DBReply, Refused, Refusal, DBNext
  <2>2. CASE OpenFileCall(n)
    <3>1. \A g \in File : Opened(g) => Opened(g)'
      BY <2>2 DEF OpenFileCall, OpenAgain, OpenAbsent, OpenNew, Opened, PoolInv, DBInv, DBTypeOK
    <3>. QED BY <1>3, <2>2, <3>1 DEF OpenFileCall, DBNext
  <2>. QED BY <1>5, <2>1, <2>2
<1>6. CASE PageCall /\ UNCHANGED dbVars
  <2>1. process' = process
    BY <1>6, PageCallReturns
  <2>. QED BY <1>2, <1>6, <2>1 DEF dbVars, DBNext
<1>7. CASE DeleteBufMgr /\ UNCHANGED dbVars
  <2>1. ~AnyOpened
    BY <1>7 DEF DeleteBufMgr, CarefulClient
  <2>. QED BY <1>7, <2>1 DEF LastsAreWritten, AnyOpened
<1>8. CASE DestroyDB /\ UNCHANGED dbVars
  <2>1. CASE ~AnyOpened
    BY <2>1 DEF LastsAreWritten, AnyOpened
  <2>2. CASE AnyOpened
    <3>1. Scanned = Frames
      BY <1>8, UnpinnedScan DEF DestroyDB, CarefulClient
    <3>. QED BY <1>1, <1>2, <1>8, <2>2, <3>1 DEF DestroyDB, Crash, dbVars
  <2>. QED BY <2>1, <2>2
<1>. QED BY <1>4, <1>5, <1>6, <1>7, <1>8 DEF DBNext, FileCall

(* Every step of the files is a step of PageStore.                         *)
LEMMA FileStoreStep ==
  ASSUME CarefulClient, LastsAreWritten, PoolInv, DBNext
  PROVE  Files!Next
<1>1. PoolInv' /\ process = "running"
  BY PoolStep DEF DBNext
<1>2. CASE FileCall
  BY <1>1, <1>2, DirFileStep, OpenFileStep, CloseFileStep DEF FileCall
<1>3. CASE PageCall /\ UNCHANGED dbVars
  <2>1. process' = process /\ unixFile' = unixFile
    BY <1>3, PageCallReturns, PageCallsKeep
  <2>2. Whole(ret')
    BY <1>1, <1>3, <2>1, PageReplyWhole
  <2>3. StoreEffect(Live) /\ Untouched(Live)
    BY <1>3, PageCallEffect
  <2>. QED BY <1>1, <1>3, <2>1, <2>2, <2>3, NamedEffectStep
<1>4. CASE (DeleteBufMgr \/ DestroyDB) /\ UNCHANGED dbVars
  BY <1>1, <1>4, EndStep
<1>. QED BY <1>2, <1>3, <1>4 DEF DBNext

(* Named files implement PageStore for every number of frames, files,      *)
(* names, pages and values, with reads, allocations, disposes and writes   *)
(* of flushFile that fail, as long as none fails in the closeFile or ~DB   *)
(* that says OK and leaves the file (buf.cpp:167) and none of a victim     *)
(* does (CarefulClient): closing a file and opening it again, under        *)
(* another object and another descriptor, loses and invents no page, and   *)
(* destroying one takes its pages and no others.                           *)
THEOREM FilesImplementStore ==
  ASSUME CarefulClient
  PROVE  FlushedSpec => ImplementsFileStore
<1>1. DBInit => Files!Init
  <2>. SUFFICES ASSUME DBInit PROVE Files!Init
    OBVIOUS
  <2>1. \A n \in Name : dir[n] = NULL
    BY DEF DBInit
  <2>2. ret = Reply("none", "OK") /\ Whole(ret) /\ ret.data = NULL
    BY WholeReplies, NoData DEF DBInit, NewBufMgr
  <2>3. outBar.data = NULL
    BY <2>2 DEF outBar, Whole
  <2>4. NamedStore = [n \in Name |-> [p \in Page |-> "gone"]]
    BY <2>1 DEF NamedStore
  <2>. QED BY <2>3, <2>4 DEF Files!Init, outBar
<1>2. PoolInv /\ [DBNext /\ LastsAreWritten]_allVars => [Files!Next]_(Files!storeVars)
  <2>1. CASE UNCHANGED allVars
    <3>1. UNCHANGED outBar
      BY <2>1 DEF allVars, vars, dbVars, outBar
    <3>2. \A n \in Name, p \in Page : NamedAs(n, p)' = NamedAs(n, p)
      BY <2>1 DEF allVars, vars, dbVars, NamedAs, PageIn, HeldBy, Allocates
    <3>3. UNCHANGED NamedStore
      BY <3>2, NamedSame
    <3>. QED BY <3>1, <3>3 DEF Files!storeVars, outBar
  <2>. QED BY <2>1, FileStoreStep
<1>3. FlushedSpec => DBSpec
  BY PTL DEF FlushedSpec, DBSpec
<1>. QED BY <1>1, <1>2, <1>3, PoolAlways, PTL DEF FlushedSpec, ImplementsFileStore, Files!Spec

(* On a disk on which neither the write of a victim nor one of a flush     *)
(* fails, every behaviour of DB does.                                      *)
THEOREM FilesImplementStoreIfFlushed ==
  ASSUME CarefulClient, "flush" \notin Faults
  PROVE  DBSpec => ImplementsFileStore
<1>1. PoolInv /\ [DBNext]_allVars => [DBNext /\ LastsAreWritten]_allVars
  BY LeavingScans
<1>. QED BY <1>1, PoolAlways, FilesImplementStore, PTL DEF DBSpec, FlushedSpec
=============================================================================
