------------------------------ MODULE Ranking -------------------------------
(***************************************************************************)
(* What P4Server promises: it collects servers, however many are alike,    *)
(* and then lists all of them once, none before one that ranks higher.     *)
(* There is no order of input and no sorting here.                         *)
(***************************************************************************)
EXTENDS Servers

VARIABLES
  servers,  (* the bag of servers                                          *)
  listed    (* the list, empty until it is published                       *)

RankingInit == servers = EmptyBag /\ listed = <<>>

Collect ==
  /\ listed = <<>>
  /\ \E s \in DOMAIN servers' \cap Server : servers' = servers (+) SetToBag({s})
  /\ UNCHANGED listed

Publish ==
  /\ listed = <<>>
  /\ listed' \in Seq(Server)
  /\ BagOf(listed') = servers
  /\ SortedIn(listed', 0, Len(listed'))
  /\ UNCHANGED servers

RankingSpec == RankingInit /\ [][Collect \/ Publish]_<<servers, listed>>
=============================================================================
