---------------------------- MODULE MCCreation ----------------------------
(***************************************************************************)
(* Two users, one of them with a linked wallet, who ask for a deal that is *)
(* in order, for one whose milestones do not add up and for one whose      *)
(* total is too large for its column.                                      *)
(***************************************************************************)
EXTENDS Creation, TLC

CONSTANTS r1, r2, u1, u2, w1, k1, k2, g1

MCLinked == [u \in Users |-> IF u = u1 THEN {w1} ELSE {}]

MCOffers ==
  {[total |-> 3, bps |-> 5000, amounts |-> <<1, 2>>, wallet |-> w1],
   [total |-> 3, bps |-> 5000, amounts |-> <<2>>, wallet |-> None],
   [total |-> 4, bps |-> 10000, amounts |-> <<4>>, wallet |-> None]}
==========================================================================
