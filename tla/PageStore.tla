----------------------------- MODULE PageStore -----------------------------
(***************************************************************************)
(* What the buffer manager promises its clients: a store of pages in which *)
(* a page that is read is the page last written.  There is no pool and no  *)
(* disk here.  A page is gone (not allocated), blank (allocated, and       *)
(* nothing was written to it that counts) or holds a Value.                *)
(***************************************************************************)
CONSTANTS Handle, Page, Value, NULL

VARIABLES
  store,   (* the pages of each file                                       *)
  out      (* what the last call returned; data # NULL if it gave a page   *)

storeVars == <<store, out>>

Content == Value \cup {"blank"}

Init ==
  /\ store = [f \in Handle |-> [p \in Page |-> "gone"]]
  /\ out.data = NULL

Gives(op, f, p) ==
  out'.op = op /\ out'.data # NULL /\ out'.file = f /\ out'.pageNo = p

(* A page that holds a value is read as that value.                        *)
Read(f, p) ==
  /\ Gives("readPage", f, p)
  /\ store[f][p] # "gone"
  /\ store[f][p] \in Value => out'.data = store[f][p]
  /\ UNCHANGED store

(* A store into a page counts at once if the page was reported dirty or    *)
(* read; into a new page, when it is first reported dirty.                 *)
Write(f, p, c) ==
  /\ \/ out'.op = "writePage"
     \/ out'.op = "unPinPage" /\ store[f][p] = "blank"
  /\ store[f][p] # "gone"
  /\ store' = [store EXCEPT ![f][p] = c]

Allocate(f, p) ==
  /\ Gives("allocPage", f, p)
  /\ store[f][p] = "gone"
  /\ store' = [store EXCEPT ![f][p] = "blank"]

(* disposePage leaves nothing certain of its page, and nothing else moves. *)
Dispose(f, p) ==
  /\ out'.op = "disposePage"
  /\ store[f][p] # "gone"
  /\ \E c \in Content \cup {"gone"} : store' = [store EXCEPT ![f][p] = c]

(* The file is destroyed.                                                  *)
Discard(f) ==
  /\ out'.op = "destroyFile"
  /\ store' = [store EXCEPT ![f] = [p \in Page |-> "gone"]]

(* Everything else, failed calls included, gives no page and moves none.   *)
Other == out'.data = NULL /\ UNCHANGED store

Next ==
  \/ Other
  \/ \E f \in Handle, p \in Page :
       \/ Read(f, p) \/ Allocate(f, p) \/ Dispose(f, p)
       \/ \E c \in Content : Write(f, p, c)
  \/ \E f \in Handle : Discard(f)

Spec == Init /\ [][Next]_storeVars
=============================================================================
