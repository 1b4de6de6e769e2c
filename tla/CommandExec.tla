---------------------------- MODULE CommandExec -----------------------------
(***************************************************************************)
(* Class commandexec and the loop of main (283_proj_3/commandexec.cpp,     *)
(* main.cpp): it reads lines, which are files or commands, drives one      *)
(* myheap, and keeps count of the prints that found the heap empty.  After *)
(* each command a loop prints as long as prints are outstanding; an        *)
(* iteration of it is a step.                                              *)
(***************************************************************************)
EXTENDS MyHeap

CONSTANTS
  MaxOwed,  (* bound: the prints that may be outstanding                   *)
  Careful   (* TRUE: the user gives revert and history only when           *)
            (* RevertIsSafe and HistoryIsSafe                              *)

ASSUME CommandAssumption == MaxOwed \in Nat /\ Careful \in BOOLEAN

VARIABLES
  map,                (* the names of all files there ever were            *)
  outstandingprints,
  pc,                 (* at the next line, or in the loop after a command  *)
  process,            (* running, exited, or undefined behaviour           *)
  out                 (* what the last step printed                        *)

vars == <<heapVars, map, outstandingprints, pc, process, out>>

Init ==
  /\ HeapInit
  /\ map = {} /\ outstandingprints = 0 /\ pc = "read" /\ process = "running" /\ out = <<>>

Reading == process = "running" /\ pc = "read"

(* Mutant: the loop is left out.                                           *)
DoneAtOnce == pc' = "read" /\ UNCHANGED process

(* Every command but quit ends in the loop.                                *)
Done == pc' = (IF outstandingprints' > 0 THEN "drain" ELSE "read") /\ UNCHANGED process

Undefined == process' = "undefined" /\ out' = <<>> /\ UNCHANGED <<heapVars, map, outstandingprints, pc>>

NoResults == [i \in 1 .. outstandingprints |-> <<"No results", 0>>]

-----------------------------------------------------------------------------
AddFile(d, r) ==
  /\ Reading /\ d \notin map
  /\ map' = map \cup {d}
  /\ AddToHeap(d, r)
  /\ out' = <<>> /\ UNCHANGED outstandingprints
  /\ Done

(* A name is found again, or atoi gives no positive number: exit(1), which *)
(* runs no destructor of allcommands.                                      *)
FatalError ==
  /\ Reading
  /\ process' = "exited" /\ out' = <<>>
  /\ UNCHANGED <<heapVars, map, outstandingprints, pc>>

(* Mutant: the count is not raised before the result of print is added.    *)
PrintUncounted ==
  /\ Reading
  /\ \/ /\ heap.tree # <<>>
        /\ TakeTop
        /\ out' = <<<<"Result", Element(heap.tree, 0)>>>>
        /\ outstandingprints' = outstandingprints - 1
     \/ heap.tree = <<>> /\ out' = <<>> /\ UNCHANGED <<heapVars, outstandingprints>>
  /\ Done /\ UNCHANGED map

PrintCommand ==
  /\ Reading
  /\ \/ /\ heap.tree # <<>>
        /\ TakeTop
        /\ out' = <<<<"Result", Element(heap.tree, 0)>>>>
        /\ UNCHANGED outstandingprints
     \/ /\ heap.tree = <<>>
        /\ outstandingprints < MaxOwed
        /\ outstandingprints' = outstandingprints + 1
        /\ out' = <<>> /\ UNCHANGED heapVars
  /\ Done /\ UNCHANGED map

ClearCommand ==
  /\ Reading
  /\ \/ DeletedTwice /\ Undefined
     \/ /\ ~DeletedTwice /\ Clear
        /\ out' = NoResults /\ outstandingprints' = 0
        /\ Done /\ UNCHANGED map

SaveCommand == Reading /\ Save /\ out' = <<>> /\ UNCHANGED <<map, outstandingprints>> /\ Done

(* Revert does what it should if the save point belongs to this heap and   *)
(* all unsaved entries are prints, no more of them than the loop answers   *)
(* outstanding prints with, or all are adds whose datapoints never moved.  *)
OnlyPrints ==
  /\ \A i \in 1 .. Len(Unsaved) : HistoryLine(lastsaveat + i)[1] = "Removed"
  /\ outstandingprints = 0 \/ Len(Unsaved) <= outstandingprints

OnlyAddsInPlace ==
  /\ \A i \in 1 .. Len(Unsaved) : heap.third[Unsaved[i]] = Len(heap.tree) - Len(Unsaved) + i - 1
  /\ IsSuffix(Unsaved, heap.tree)

RevertIsSafe == ~stale /\ (OnlyPrints \/ OnlyAddsInPlace)
HistoryIsSafe == ~stale

RevertCommand ==
  /\ Reading /\ (Careful => RevertIsSafe)
  /\ \/ RevertUndefined /\ Undefined
     \/ ~RevertUndefined /\ Revert /\ out' = <<>> /\ UNCHANGED <<map, outstandingprints>> /\ Done

HistoryCommand ==
  /\ Reading /\ (Careful => HistoryIsSafe)
  /\ \/ HistoryUndefined /\ Undefined
     \/ /\ ~HistoryUndefined
        /\ out' = HistoryLines(lastsaveat)
        /\ UNCHANGED <<heapVars, map, outstandingprints>> /\ Done

InvalidCommand == Reading /\ out' = <<>> /\ UNCHANGED <<heapVars, map, outstandingprints>> /\ Done

(* quit leaves main, whose end runs ~myheap.                               *)
Quit ==
  /\ Reading
  /\ \/ DeletedTwice /\ Undefined
     \/ /\ ~DeletedTwice /\ Clear
        /\ out' = NoResults /\ outstandingprints' = 0
        /\ process' = "exited" /\ UNCHANGED <<map, pc>>

(* Mutant: the loop goes on as long as requests wait.                      *)
DrainAll ==
  /\ process = "running" /\ pc = "drain"
  /\ \/ /\ heap.tree = <<>>
        /\ pc' = (IF outstandingprints > 0 THEN "drain" ELSE "read")
        /\ UNCHANGED <<heapVars, outstandingprints, out>>
     \/ /\ heap.tree # <<>>
        /\ TakeTop
        /\ out' = <<<<"Result", Element(heap.tree, 0)>>>>
        /\ outstandingprints' = outstandingprints - 1 /\ UNCHANGED pc
  /\ UNCHANGED <<map, process>>

(* The loop calls print before it looks at the count: when the count is    *)
(* zero by then and the heap is not empty, one result too many is printed. *)
Drain ==
  /\ process = "running" /\ pc = "drain"
  /\ \/ heap.tree = <<>> /\ pc' = "read" /\ UNCHANGED <<heapVars, outstandingprints, out>>
     \/ /\ heap.tree # <<>>
        /\ TakeTop
        /\ out' = <<<<"Result", Element(heap.tree, 0)>>>>
        /\ IF outstandingprints > 0
           THEN outstandingprints' = outstandingprints - 1 /\ UNCHANGED pc
           ELSE pc' = "read" /\ UNCHANGED outstandingprints
  /\ UNCHANGED <<map, process>>

Next ==
  \/ \E d \in Doc, r \in Relevance : AddFile(d, r)
  \/ FatalError
  \/ PrintCommand \/ ClearCommand \/ SaveCommand \/ RevertCommand \/ HistoryCommand
  \/ InvalidCommand \/ Quit
  \/ Drain

Spec == Init /\ [][Next]_vars /\ WF_vars(Drain)

-----------------------------------------------------------------------------
(* The type invariant; the tree fits into its array.                       *)
TypeOK ==
  /\ heap \in [tree : Seq(Doc), third : [Doc -> Int]]
  /\ second \in [Doc -> Relevance \cup {0}] /\ added \in [Doc -> 0 .. 2]
  /\ dumpster \in Seq(Doc) /\ historicaldoc \in Seq(Doc)
  /\ {numhistoricaldoc, lastsaveat, historicaldocsize} \subseteq Nat
  /\ maxElts \in Nat /\ Len(heap.tree) <= maxElts
  /\ freed \subseteq map /\ map \subseteq Doc
  /\ outstandingprints \in 0 .. MaxOwed
  /\ pc \in {"read", "drain"} /\ process \in {"running", "exited", "undefined"}

(* No entry of the history is written or kept outside of the vector, which *)
(* operator[] does not check.                                              *)
HistoryFits == numhistoricaldoc < historicaldocsize /\ lastsaveat < historicaldocsize

(* Each datapoint that was not deleted has one owner, the tree or the      *)
(* dumpster: clear deletes all of them and none twice.                     *)
OwnedOnce ==
  process = "running" => ToSet(Found) = map \ freed /\ IsInjective(Found)

(* When the next line is read, nobody waits for a file that is there.      *)
OwedOnlyWhenEmpty ==
  pc = "read" /\ outstandingprints > 0 => heap.tree = <<>>

(* revert brings back the files of the last save, in a heap that is in     *)
(* order (myheap.h:38).                                                    *)
SavedDocs ==
  {d \in Doc : Cardinality({i \in 1 .. lastsaveat : historicaldoc[i] = d}) = 1}

RevertRestores ==
  [][RevertCommand /\ ~stale => /\ ToSet(heap'.tree) = SavedDocs
                                /\ HeapOrdered(heap'.tree, second)]_vars

(* The loop after a command ends.                                          *)
DrainEnds == pc = "drain" ~> pc = "read"

-----------------------------------------------------------------------------
(* P3Search implements SearchQueue, for a careful user.                    *)
Queue == INSTANCE SearchQueue WITH
  queue   <- InTree,
  rel     <- second,
  saved   <- IF stale THEN {} ELSE SavedDocs,
  changes <- HistoryLines(IF stale THEN 0 ELSE lastsaveat),
  owed    <- outstandingprints

ImplementsSearchQueue == Queue!Spec
=============================================================================
