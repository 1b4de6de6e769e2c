--------------------------------- MODULE DB ---------------------------------
(***************************************************************************)
(* Class DB (484_proj_3/db.cpp) and the part of class File that opens and  *)
(* closes: files have names, the client gets a File object for a name, and *)
(* the object leads to the file through a descriptor of the process.       *)
(*                                                                         *)
(* The calls on pages are those of BufMgr.  closeFile flushes the pool and *)
(* closes the descriptor, and leaves the File object and its frames, which *)
(* stay dirty, where they are.  A descriptor number that was closed is     *)
(* given to the next file that is opened.                                  *)
(***************************************************************************)
EXTENDS BufMgr

CONSTANTS
  Name,     (* names of files; NULL stands for the empty name              *)
  MaxOpen,  (* bound: the opens of one file that are not closed yet        *)
  Reuse     (* TRUE: a client that goes on using the pool when a file was  *)
            (* closed that has dirty pages in it, and exits as it likes    *)

ASSUME NameAssumption == NULL \notin Name /\ MaxOpen \in Nat \ {0} /\ Reuse \in BOOLEAN

VARIABLES
  openFiles,  (* DB::openFiles, the File object of every open name         *)
  openCnt,    (* the fields of the File objects                            *)
  fileName,
  fd,         (* File::unixFile: a descriptor number, which outlives close *)
  dir         (* the Unix file a name leads to, or NULL                    *)

dbVars == <<openFiles, openCnt, fileName, fd, dir>>
allVars == <<vars, dbVars>>

Pool == <<clockHand, bufTable, bufMap, bufPool>>

Opened(f) == openCnt[f] > 0

-----------------------------------------------------------------------------
(* Descriptors.  Every File object that still holds the number of a        *)
(* descriptor follows it to the file it is given to.                       *)

NoDescriptor == -1

Used == {fd[f] : f \in {f \in File : Opened(f)}}

(* ::open returns the lowest number that is free.                          *)
Lowest(k) ==
  k \in (0 .. Cardinality(File)) \ Used /\ \A j \in 0 .. k - 1 : j \in Used

UnixOpen(f, n) ==
  \E k \in 0 .. Cardinality(File) :
    /\ Lowest(k)
    /\ fd' = [fd EXCEPT ![f] = k]
    /\ unixFile' = [g \in File |-> IF g = f \/ fd[g] = k THEN n ELSE unixFile[g]]

UnixClose(f) == unixFile' = [g \in File |-> IF fd[g] = fd[f] THEN NULL ELSE unixFile[g]]

(* A frame that will be written through the File object of a closed file.  *)
Stale(i) == bufTable[i].valid /\ bufTable[i].dirty /\ ~Opened(bufTable[i].file)

PoolUsable == Reuse \/ \A i \in Frames : ~Stale(i)

-----------------------------------------------------------------------------
(* createFile and destroyFile                                              *)

DBReply(op, status) == ret' = Reply(op, status) /\ UNCHANGED <<Pool, bufStats, process>>

(* The reply of a call that changes nothing.  Which call of DB it was and  *)
(* which error it returned, named beside it, is left out.                  *)
Refusal == Reply("none", "refused")

Refused == ret' = Refusal /\ UNCHANGED <<Pool, bufStats, process>>

CreateFile(n) ==
  /\ \/ n = NULL /\ Refused /\ UNCHANGED <<disk, dir>>            \* BADFILE
     \/ /\ n # NULL /\ (openFiles[n] # NULL \/ dir[n] # NULL)
        /\ Refused /\ UNCHANGED <<disk, dir>>                      \* FILEEXISTS
     \/ /\ n # NULL /\ openFiles[n] = NULL /\ dir[n] = NULL
        /\ \E i \in Inode :
             /\ \A m \in Name : dir[m] # i
             /\ dir' = [dir EXCEPT ![n] = i]
             /\ disk' = [disk EXCEPT ![i] = NewFile]
        /\ DBReply("createFile", "OK")
  /\ UNCHANGED <<unixFile, openFiles, openCnt, fileName, fd>>

(* Mutant: an open file can be destroyed.                                  *)
MayUnlinkOpen(n) == TRUE

MayUnlink(n) == openFiles[n] = NULL

(* The pages of a file without a name are gone with it.                    *)
DestroyFile(n) ==
  /\ \/ n = NULL /\ Refused /\ UNCHANGED <<disk, dir>>            \* BADFILE
     \/ /\ n # NULL /\ ~MayUnlink(n)
        /\ Refused /\ UNCHANGED <<disk, dir>>                      \* FILEOPEN
     \/ /\ n # NULL /\ MayUnlink(n) /\ dir[n] = NULL
        /\ Refused /\ UNCHANGED <<disk, dir>>                      \* UNIXERR
     \/ /\ n # NULL /\ MayUnlink(n) /\ dir[n] # NULL
        /\ dir' = [dir EXCEPT ![n] = NULL]
        /\ disk' = [disk EXCEPT ![dir[n]] = NewFile]
        /\ DBReply("destroyFile", "OK")
  /\ UNCHANGED <<unixFile, openFiles, openCnt, fileName, fd>>

-----------------------------------------------------------------------------
(* openFile *)

(* File objects are never deleted after closeFile.  One that nothing       *)
(* refers to any more stands for the new object of the next openFile.      *)
Unreferenced(f) == ~Opened(f) /\ \A i \in Frames : bufTable[i].file # f

OpenAgain(n) ==
  LET f == openFiles[n] IN
  /\ f # NULL /\ openCnt[f] < MaxOpen
  /\ openCnt' = [openCnt EXCEPT ![f] = @ + 1]
  /\ ret' = CallReply("openFile", "OK", f, -1)
  /\ UNCHANGED <<unixFile, openFiles, fileName, fd>>

OpenAbsent(n) ==
  /\ openFiles[n] = NULL /\ dir[n] = NULL
  /\ ret' = Refusal                                               \* UNIXERR
  /\ UNCHANGED <<unixFile, openFiles, openCnt, fileName, fd>>

OpenNew(n, f) ==
  /\ openFiles[n] = NULL /\ dir[n] # NULL
  /\ PoolUsable /\ Unreferenced(f)
  /\ UnixOpen(f, dir[n])
  /\ fileName' = [fileName EXCEPT ![f] = n]
  /\ openCnt' = [openCnt EXCEPT ![f] = 1]
  /\ openFiles' = [openFiles EXCEPT ![n] = f]
  /\ ret' = CallReply("openFile", "OK", f, -1)

OpenFileCall(n) ==
  /\ \/ /\ n = NULL /\ ret' = Refusal                             \* BADFILE
        /\ UNCHANGED <<unixFile, openFiles, openCnt, fileName, fd>>
     \/ n # NULL /\ (OpenAgain(n) \/ OpenAbsent(n) \/ \E f \in File : OpenNew(n, f))
  /\ UNCHANGED <<Pool, bufStats, disk, dir, process>>

-----------------------------------------------------------------------------
(* closeFile.  The flush comes before the count matters: when it stops at  *)
(* a pinned page, of any file, the file stays open.                        *)

CloseRefused(f) ==
  /\ f # NULL => fileName[f] # NULL /\ ~Opened(f)
  /\ Refused                                         \* BADFILEPTR, FILENOTOPEN
  /\ UNCHANGED <<disk, unixFile, openFiles, openCnt>>

(* Mutant: the count is lowered without a look at it.                      *)
CloseUnchecked(f) ==
  /\ f # NULL /\ openCnt[f] # 1
  /\ openCnt' = [openCnt EXCEPT ![f] = @ - 1]
  /\ ret' = CallReply("closeFile", "OK", f, -1)
  /\ UNCHANGED <<Pool, bufStats, disk, unixFile, openFiles, process>>

CloseOneOfMany(f) ==
  /\ f # NULL /\ openCnt[f] > 1
  /\ openCnt' = [openCnt EXCEPT ![f] = @ - 1]
  /\ ret' = CallReply("closeFile", "OK", f, -1)
  /\ UNCHANGED <<Pool, bufStats, disk, unixFile, openFiles, process>>

(* Mutant: the name stays in the table of open files.                      *)
NameKept(f) == openFiles' = openFiles

FlushBeforeClose == WriteScanned

NameErased(f) == openFiles' = [openFiles EXCEPT ![fileName[f]] = NULL]

CloseLast(f) ==
  /\ f # NULL /\ openCnt[f] = 1
  /\ \/ Stray(Scanned) /\ Crash("closeFile") /\ UNCHANGED <<openFiles, openCnt>>
     \/ /\ ~Stray(Scanned) /\ FlushBeforeClose
        /\ \/ /\ Scanned # Frames
              /\ ret' = CallReply("closeFile", "PAGEPINNED", f, -1)
              /\ UNCHANGED <<unixFile, openFiles, openCnt>>
           \/ /\ Scanned = Frames
              /\ UnixClose(f)
              /\ openCnt' = [openCnt EXCEPT ![f] = 0]
              /\ NameErased(f)
              /\ ret' = CallReply("closeFile", IF openFiles[fileName[f]] = NULL
                                               THEN "BADFILEPTR" ELSE "OK", f, -1)
        /\ UNCHANGED <<Pool, process>>

CloseFile(f) ==
  /\ CloseRefused(f) \/ CloseOneOfMany(f) \/ CloseLast(f)
  /\ UNCHANGED <<fileName, fd, dir>>

-----------------------------------------------------------------------------
(* The end of the program.  main deletes bufMgr, and ~DB runs after that:  *)
(* it closes what is still open, through the pointer to the deleted bufMgr.*)

AnyOpened == \E f \in File : Opened(f)

DeleteBufMgr ==
  \/ ~AnyOpened /\ Delete
  \/ /\ Reuse /\ AnyOpened
     /\ \E W \in Writes(Frames, "shutdown") : disk' = WrittenBack(W)
     /\ process' = "crashed"
     /\ ret' = Reply("delete", "OK")
     /\ UNCHANGED <<Pool, bufStats, unixFile>>

(* A program that leaves bufMgr alone: ~DB flushes the pool if any file is *)
(* open.  The flushes of the further files find nothing more to write.     *)
DestroyDB ==
  /\ Reuse \/ \A i \in Frames : bufTable[i].pinCnt = 0
  /\ \/ AnyOpened /\ Stray(Scanned) /\ Crash("deleteDB")
     \/ /\ AnyOpened => ~Stray(Scanned)
        /\ IF AnyOpened THEN WriteScanned ELSE UNCHANGED <<disk, bufStats>>
        /\ process' = "exited"
        /\ ret' = Reply("deleteDB", "OK")
        /\ UNCHANGED <<Pool, unixFile>>

-----------------------------------------------------------------------------
DBInit ==
  /\ NewBufMgr
  /\ disk = [n \in Inode |-> NewFile]
  /\ unixFile = [f \in File |-> NULL]
  /\ openFiles = [n \in Name |-> NULL]
  /\ openCnt = [f \in File |-> 0]
  /\ fileName = [f \in File |-> NULL]
  /\ fd = [f \in File |-> NoDescriptor]
  /\ dir = [n \in Name |-> NULL]

PageCall ==
  \/ \E f \in File : Opened(f) /\ ((PoolUsable /\ Fetch(f)) \/ Release(f))
  \/ \E i \in Frames, c \in Value : WritePage(i, c)

FileCall ==
  \/ \E n \in Name \cup {NULL} : CreateFile(n) \/ DestroyFile(n) \/ OpenFileCall(n)
  \/ \E f \in File \cup {NULL} : CloseFile(f)

DBNext ==
  /\ process = "running"
  /\ \/ FileCall
     \/ (PageCall \/ DeleteBufMgr \/ DestroyDB) /\ UNCHANGED dbVars

DBSpec == DBInit /\ [][DBNext]_allVars

(* flushFile does not look at what its writes return (buf.cpp:167), so a   *)
(* close says OK whatever became of them.  FlushedSpec is DB on a disk     *)
(* where none of them fails in a scan after which a file is closed or the  *)
(* program ends; the writes of any other flush may fail.                   *)
NoWriteFails == disk' = WrittenBack(Writable(Frames))

LastsAreWritten ==
  (\E f \in File : Opened(f) /\ ~Opened(f)') \/ (AnyOpened /\ process' = "exited") => NoWriteFails

FlushedSpec == DBInit /\ [][DBNext /\ LastsAreWritten]_allVars

-----------------------------------------------------------------------------
(* The type invariant of the table of files.                               *)
DBTypeOK ==
  /\ openFiles \in [Name -> File \cup {NULL}]
  /\ openCnt \in [File -> 0 .. MaxOpen]
  /\ fileName \in [File -> Name \cup {NULL}]
  /\ fd \in [File -> {NoDescriptor} \cup 0 .. Cardinality(File)]
  /\ dir \in [Name -> Inode \cup {NULL}]
  /\ unixFile \in [File -> Inode \cup {NULL}]

(* The table of open files and the counts kept in the objects say the same:*)
(* every call of closeFile that brings a count to zero finds its entry     *)
(* (db.cpp:508 cannot return BADFILEPTR), and a name has one object.       *)
OpenTableSound ==
  /\ \A n \in Name : openFiles[n] # NULL
       => Opened(openFiles[n]) /\ fileName[openFiles[n]] = n
  /\ \A f \in File : Opened(f)
       => fileName[f] \in Name /\ openFiles[fileName[f]] = f

(* The object of an open file leads to the file of its name, and no other  *)
(* object does through the same descriptor, whatever was closed, destroyed *)
(* and created before.                                                     *)
DescriptorsApart ==
  \A f \in File : Opened(f) =>
    /\ unixFile[f] # NULL /\ unixFile[f] = dir[fileName[f]]
    /\ \A g \in File : Opened(g) /\ fd[f] = fd[g] => f = g

(* What an OK of closeFile or flushFile is taken for: the pages of the     *)
(* file, and of the files that stay open, are on disk (db.cpp:113 closes   *)
(* the descriptor on the strength of it).                                  *)
NamedPage(i) == disk[dir[fileName[bufTable[i].file]]].page[bufTable[i].pageNo]

ClosedIsDurable ==
  /\ ret.op \in {"flushFile", "closeFile"} /\ ret.status = "OK"
  /\ ret.op = "closeFile" => ~Opened(ret.file)
  => \A i \in Frames :
       /\ bufTable[i].valid /\ bufTable[i].dirty
       /\ Opened(bufTable[i].file) \/ bufTable[i].file = ret.file
       => bufPool[i] = NamedPage(i)

(* It means that unless a write of this very call failed, through whatever *)
(* descriptors they went and whatever flush failed before.                 *)
FlushedIsDurable ==
  [][~ClosedIsDurable' => ~NoWriteFails]_allVars

(* A dirty frame is written to the file it came from or to none.           *)
WritesReachTheirFile ==
  \A i \in Frames : bufTable[i].valid /\ bufTable[i].dirty /\ TargetOf(i) # NULL
    => TargetOf(i) = dir[fileName[bufTable[i].file]]

(* A page that can be read or written through the pool is in one frame.    *)
InUse(i) ==
  bufTable[i].valid /\ TargetOf(i) # NULL /\ (bufTable[i].dirty \/ Opened(bufTable[i].file))

OneCopyOfAPage ==
  \A i, j \in Frames :
    InUse(i) /\ InUse(j) /\ <<TargetOf(i), bufTable[i].pageNo>> = <<TargetOf(j), bufTable[j].pageNo>>
      => i = j

-----------------------------------------------------------------------------
(* Named files implement PageStore: closing and opening again, under       *)
(* another File object and another descriptor, loses and invents nothing;  *)
(* destroying a file takes its pages and no others.                        *)

NamedStore ==
  [n \in Name |-> [p \in Page |->
    IF dir[n] = NULL THEN "gone" ELSE PageIn(disk[dir[n]], openFiles[n], p)]]

Files == INSTANCE PageStore WITH
           store <- NamedStore, Handle <- Name,
           out <- [ret EXCEPT !.file = IF @ = NULL THEN NULL ELSE fileName[@]]

ImplementsFileStore == Files!Spec
=============================================================================
