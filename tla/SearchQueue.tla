---------------------------- MODULE SearchQueue -----------------------------
(***************************************************************************)
(* What P3Search promises (283_proj_3/Project3.pdf): a queue of files, the *)
(* most relevant first, files that are equally relevant in the order of    *)
(* their names; requests that wait for a file; a save point to go back to. *)
(* There is no tree and no array of history here.                          *)
(***************************************************************************)
EXTENDS Integers, Sequences

CONSTANTS Doc, Relevance

VARIABLES
  queue,    (* the files in the queue                                      *)
  rel,      (* the relevance of each                                       *)
  saved,    (* the queue at the last save, empty after a clear             *)
  changes,  (* the changes since then, <<"Added", file>> and the like      *)
  owed,     (* the requests that wait                                      *)
  out       (* what was printed last, a sequence of such pairs             *)

queueVars == <<queue, rel, saved, changes, owed, out>>

Precedes(d, e) == rel[d] > rel[e] \/ (rel[d] = rel[e] /\ d < e)

Best(d) == d \in queue /\ \A e \in queue \ {d} : Precedes(d, e)

(* A request that waits is answered before the next command is read.       *)
Settled == owed = 0 \/ queue = {}

Init ==
  /\ queue = {} /\ saved = {} /\ changes = <<>> /\ owed = 0 /\ out = <<>>
  /\ rel = [d \in Doc |-> 0]

Takes(d) ==
  /\ Best(d)
  /\ queue' = queue \ {d}
  /\ changes' = Append(changes, <<"Removed", d>>)
  /\ out' = <<<<"Result", d>>>>
  /\ UNCHANGED <<rel, saved>>

Add(d, r) ==
  /\ Settled /\ d \notin queue
  /\ queue' = queue \cup {d}
  /\ rel' = [rel EXCEPT ![d] = r]
  /\ changes' = Append(changes, <<"Added", d>>)
  /\ out' = <<>>
  /\ UNCHANGED <<saved, owed>>

Answer(d) == Settled /\ Takes(d) /\ UNCHANGED owed

Wait == Settled /\ queue = {} /\ owed' = owed + 1 /\ out' = <<>> /\ UNCHANGED <<queue, rel, saved, changes>>

Settle(d) == owed > 0 /\ Takes(d) /\ owed' = owed - 1

(* clear and quit: every request that waits gets its answer.               *)
Empty ==
  /\ Settled
  /\ out' = [i \in 1 .. owed |-> <<"No results", 0>>]
  /\ queue' = {} /\ saved' = {} /\ changes' = <<>> /\ owed' = 0
  /\ UNCHANGED rel

Save ==
  /\ Settled
  /\ saved' = queue /\ changes' = <<>> /\ out' = <<>>
  /\ UNCHANGED <<queue, rel, owed>>

Revert ==
  /\ Settled
  /\ queue' = saved /\ changes' = <<>> /\ out' = <<>>
  /\ UNCHANGED <<rel, saved, owed>>

History == Settled /\ out' = changes /\ UNCHANGED <<queue, rel, saved, changes, owed>>

(* A line that is no command, and the end on a fatal error.                *)
Refuse == Settled /\ out' = <<>> /\ UNCHANGED <<queue, rel, saved, changes, owed>>

Next ==
  \/ \E d \in Doc : Answer(d) \/ Settle(d) \/ \E r \in Relevance : Add(d, r)
  \/ Wait \/ Empty \/ Save \/ Revert \/ History \/ Refuse

Spec == Init /\ [][Next]_queueVars
=============================================================================
