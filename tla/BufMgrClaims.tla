---------------------------- MODULE BufMgrClaims ----------------------------
(***************************************************************************)
(* What the assignment says of BufMgr and the code does not do: checked on *)
(* its own and expected to fail.                                           *)
(***************************************************************************)
EXTENDS BufMgr

(* "UNIXERR if a Unix file system error occurs when a dirty page was being *)
(* written to disk": readPage and allocPage give a page, in another frame, *)
(* after the write of the victim under the hand failed.                    *)
UnixErrorsPropagate ==
  [][ret'.data # NULL /\ clockHand' # clockHand => ~bufTable'[clockHand'].dirty]_vars
=============================================================================
