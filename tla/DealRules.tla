---------------------------- MODULE DealRules ----------------------------
(***************************************************************************)
(* The rules of one escrow deal, without any state: the enumerations of    *)
(* db/models.py, the transition table and the funding rule of              *)
(* deals/service.py, and for each workflow handler the effect it has on    *)
(* the deal row it loaded.  A deal row here is a record                    *)
(*   [status, version, funded, released, disputed, registered]             *)
(* where registered stands for "registration_transaction_hash is set".     *)
(* refunded_amount is no field: no code ever assigns it, so it is 0 in the *)
(* one comparison that reads it (AfterRelease).                            *)
(***************************************************************************)
EXTENDS Integers, FiniteSetsExt

DealRole ==
  {"BUYER", "SELLER", "CONTRIBUTOR", "OBSERVER", "APPROVER", "DEAL_ADMIN",
   "ORGANISATION_REPRESENTATIVE"}

DealStatus ==
  {"DRAFT", "NEGOTIATING", "AWAITING_PARTIES", "AWAITING_SIGNATURES",
   "AWAITING_FUNDING", "PARTIALLY_FUNDED", "READY_TO_START", "ACTIVE",
   "MILESTONE_REVIEW", "DISPUTED", "COMPLETED", "CANCELLATION_REQUESTED",
   "CANCELLED", "EXPIRED", "ARCHIVED"}

(* The milestone statuses some handler assigns, with the column default.   *)
MilestoneStatus == {"PENDING", "SUBMITTED", "APPROVED", "RELEASED", "DISPUTED"}

DealRow ==
  [status : DealStatus, version : Nat, funded : Nat, released : Nat,
   disputed : Nat, registered : BOOLEAN]

---------------------------------------------------------------------------
(* Manual transitions: deals/service.py.                                   *)

TRANSITIONS ==
  [DRAFT                  |-> {"NEGOTIATING", "AWAITING_PARTIES"},
   NEGOTIATING            |-> {"AWAITING_PARTIES", "AWAITING_SIGNATURES"},
   AWAITING_PARTIES       |-> {"NEGOTIATING", "AWAITING_SIGNATURES", "EXPIRED"},
   AWAITING_SIGNATURES    |-> {"NEGOTIATING", "AWAITING_FUNDING", "EXPIRED"},
   AWAITING_FUNDING       |-> {"PARTIALLY_FUNDED", "READY_TO_START",
                               "CANCELLATION_REQUESTED"},
   PARTIALLY_FUNDED       |-> {"READY_TO_START", "CANCELLATION_REQUESTED"},
   READY_TO_START         |-> {"ACTIVE", "CANCELLATION_REQUESTED"},
   ACTIVE                 |-> {"MILESTONE_REVIEW", "DISPUTED", "COMPLETED",
                               "CANCELLATION_REQUESTED"},
   MILESTONE_REVIEW       |-> {"ACTIVE", "DISPUTED", "COMPLETED"},
   DISPUTED               |-> {"ACTIVE", "COMPLETED", "CANCELLED"},
   CANCELLATION_REQUESTED |-> {"ACTIVE", "CANCELLED"},
   COMPLETED              |-> {"ARCHIVED"},
   CANCELLED              |-> {"ARCHIVED"},
   EXPIRED                |-> {"ARCHIVED"},
   ARCHIVED               |-> {}]

CanTransition(d, target) == target \in TRANSITIONS[d.status]

AfterTransition(d, target) == [d EXCEPT !.status = target, !.version = @ + 1]

---------------------------------------------------------------------------
(* Funding: deals/service.py.                                              *)

(* MUTANT of CanFund: the ceiling is compared with the new amount alone.   *)
CanFundAlone(d, total, amount) == amount > 0 /\ amount <= total

CanFund(d, total, amount) == amount > 0 /\ d.funded + amount <= total

ThresholdReached(funded, total, bps) == funded * 10000 >= total * bps

(* MUTANT of AfterFunding: the payment replaces the funding so far.        *)
AfterFundingAssigned(d, total, bps, amount) ==
  [d EXCEPT !.funded  = amount,
            !.status  = IF ThresholdReached(amount, total, bps)
                          THEN "ACTIVE" ELSE "PARTIALLY_FUNDED",
            !.version = @ + 1]

AfterFunding(d, total, bps, amount) ==
  [d EXCEPT !.funded  = @ + amount,
            !.status  = IF ThresholdReached(d.funded + amount, total, bps)
                          THEN "ACTIVE" ELSE "PARTIALLY_FUNDED",
            !.version = @ + 1]

(* What create_deal demands of the milestone amounts of a new deal.        *)
ValidAllocations(total, milestones, amount) ==
  /\ milestones # {}
  /\ \A m \in milestones : amount[m] > 0
  /\ MapThenSumSet(LAMBDA m : amount[m], milestones) = total

---------------------------------------------------------------------------
(* The other handlers: api/workflow.py.                                    *)

AfterRegister(d) ==
  [d EXCEPT !.registered = TRUE, !.status = "AWAITING_SIGNATURES",
            !.version = @ + 1]

AfterAccept(d, everyone) ==
  [d EXCEPT !.status  = IF everyone THEN "AWAITING_FUNDING" ELSE @,
            !.version = @ + 1]

AfterSubmit(d) == [d EXCEPT !.status = "MILESTONE_REVIEW", !.version = @ + 1]

AfterApprove(d) == [d EXCEPT !.version = @ + 1]

(* MUTANT of AfterRelease: the milestone's status is written to the deal.  *)
AfterReleaseMilestoneStatus(d, total, amount) ==
  [d EXCEPT !.released = @ + amount, !.status = "RELEASED", !.version = @ + 1]

AfterRelease(d, total, amount) ==
  [d EXCEPT !.released = @ + amount,
            !.status   = IF d.released + amount >= total
                           THEN "COMPLETED" ELSE "ACTIVE",
            !.version  = @ + 1]

(* MUTANT of AfterDispute: the amount is added to the releases.            *)
AfterDisputeReleased(d, amount) ==
  [d EXCEPT !.released = @ + amount, !.status = "DISPUTED", !.version = @ + 1]

AfterDispute(d, amount) ==
  [d EXCEPT !.disputed = @ + amount, !.status = "DISPUTED", !.version = @ + 1]

---------------------------------------------------------------------------
(* Invitations and joins: api/invitations.py.                              *)

AfterInvite(d) ==
  IF d.status \in {"DRAFT", "NEGOTIATING"}
    THEN [d EXCEPT !.status = "AWAITING_PARTIES", !.version = @ + 1]
    ELSE d

(* MUTANT of AfterLastJoin: the invitation's status is written to the deal *)
AfterLastJoinAccepted(d) ==
  [d EXCEPT !.status = "ACCEPTED", !.version = @ + 1]

AfterLastJoin(d) ==
  [d EXCEPT !.status = "AWAITING_SIGNATURES", !.version = @ + 1]
==========================================================================
