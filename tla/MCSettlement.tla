--------------------------- MODULE MCSettlement ---------------------------
(***************************************************************************)
(* A deal of a buyer, a seller and an observer, whom an approver may join  *)
(* later, over two milestones of 1 and 2 units, threshold 50 %.  The first *)
(* payment stays below the threshold; the two together pay the total; a    *)
(* second report of the larger one would exceed it.                        *)
(***************************************************************************)
EXTENDS SettlementLedger

CONSTANTS r1, r2, m1, m2

MCParties == {"buyer", "seller", "observer", "approver"}
MCLate    == {"approver"}
MCRole    == [buyer |-> "BUYER", seller |-> "SELLER", observer |-> "OBSERVER",
              approver |-> "APPROVER"]
MCWallet  == [buyer |-> "wb", seller |-> "ws", observer |-> None,
              approver |-> "wa"]

MCMilestones == {m1, m2}
MCAmount     == [m \in MCMilestones |-> IF m = m1 THEN 1 ELSE 2]

Event(id, name, m, sender, credited) ==
  [id |-> id, name |-> name, milestone |-> m, sender |-> sender,
   credited |-> credited]

Setup ==
  {Event(1, "DealRegistered", None, "wb", 0),
   Event(2, "PartyAccepted", None, "wb", 0),
   Event(3, "PartyAccepted", None, "ws", 0),
   Event(11, "PartyAccepted", None, "wa", 0)}

Payments ==
  {Event(4, "DealFunded", None, "wb", 1), Event(5, "DealFunded", None, "wb", 2)}

Work ==
  {Event(6, "MilestoneSubmitted", m1, "ws", 0),
   Event(7, "MilestoneApproved", m1, "wb", 0),
   Event(8, "MilestoneReleased", m1, "wb", 0),
   Event(9, "MilestoneReleased", m2, "wb", 0),
   Event(10, "DisputeOpened", m1, "ws", 0)}

WholeChain == Setup \cup Payments \cup Work

(* One event of each kind that can race another, both payments included.   *)
RacingChain == {e \in WholeChain : e.id \in {1, 2, 4, 5, 7, 8, 10}}

(* What settlement_serial needs of the contract.                           *)
ASSUME ChainPaysOnce == ReleasedOnce

(* By hand: abandon and archive, or declare signed.                        *)
MCTargets == {"EXPIRED", "ARCHIVED", "AWAITING_FUNDING"}
===========================================================================
