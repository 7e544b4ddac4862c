-------------------------- MODULE EvidenceChain --------------------------
(***************************************************************************)
(* The evidence of one deal: evidence_items, each of which names the item  *)
(* it follows by that item's hash.  An item is identified by the instant   *)
(* at it was stamped, so prev, the hash it stores, is an instant too.      *)
(***************************************************************************)
EXTENDS Integers

(* The instants an item may link to: 0 stands for what the deal had before *)
Instants(items) == {0} \cup {x.at : x \in items}

(* What append_evidence selects: the item stamped last.                    *)
LatestInstants(items) ==
  {t \in Instants(items) : \A u \in Instants(items) : u <= t}

(* Every item follows an earlier item that exists.                         *)
FollowEarlier(items) ==
  \A x \in items :
    /\ x.prev < x.at
    /\ x.prev = 0 \/ \E y \in items : y.at = x.prev

(* No two items follow the same one.                                       *)
Unforked(items) == \A x, y \in items : x.prev = y.prev => x = y
==========================================================================
