------------------------- MODULE SettlementLedger -------------------------
(***************************************************************************)
(* How the money columns of a settled deal relate to the events stored for *)
(* it, and the refinement of SerialLedger by a settlement whose requests   *)
(* run one after the other.                                                *)
(***************************************************************************)
EXTENDS Settlement

Credited(e) == IF e.name = "DealFunded" THEN e.credited ELSE 0

(* The funding the stored events confirm.                                  *)
ConfirmedFunding == MapThenSumSet(Credited, events)

Contested(e) == IF e.name = "DisputeOpened" THEN Amount[e.milestone] ELSE 0

(* The amounts they confirm to be in dispute.                              *)
ConfirmedDisputes == MapThenSumSet(Contested, events)

(* What the milestone rows and the dispute rows add up to.                 *)
MilestonesReleased ==
  MapThenSumSet(LAMBDA m : milestone[m].released, Milestones)

MilestonesDisputed ==
  MapThenSumSet(LAMBDA m : disputes[m] * Amount[m], Milestones)

(* What the evidence of one kind of event adds up to, repeats included.    *)
Recorded(name, Worth(_)) ==
  MapThenSumSet(LAMBDA i : Worth(i.event),
                {i \in evidence : i.event.name = name})

---------------------------------------------------------------------------
(* Whatever requests race or are repeated, the deal never shows more money *)
(* than its evidence and its disputes account for.  (It may show less: of  *)
(* two racing writers of a column one is lost; and its evidence may repeat *)
(* what one event confirms.)                                               *)
TotalsNotOverstated ==
  /\ deal.funded <= Recorded("DealFunded", LAMBDA e : e.credited)
  /\ deal.released <=
       Recorded("MilestoneReleased", LAMBDA e : Amount[e.milestone])
  /\ deal.disputed <= MilestonesDisputed

(* Each event reported once, by one request at a time: the columns are     *)
(* exact, and a fully released deal has been completed.                    *)
TotalsExact ==
  /\ deal.funded = ConfirmedFunding
  /\ deal.released = MilestonesReleased
  /\ deal.disputed = MilestonesDisputed
  /\ deal.released = Total =>
       \A m \in Milestones : HoldsFor(events, "MilestoneReleased", m)

(* The contract pays no milestone twice.                                   *)
ReleasedOnce ==
  \A e, f \in Chain :
    /\ e.name = "MilestoneReleased" /\ f.name = "MilestoneReleased"
    /\ e.milestone = f.milestone
    => e = f

(* The events of the items, in the order of their instants.                *)
Rank(x, E) == Cardinality({y \in E : y.at <= x.at})

TheItem(S) == CHOOSE x \in S : TRUE

LogOf(E) ==
  [n \in 1..Cardinality(E) |-> TheItem({x \in E : Rank(x, E) = n}).event]

EvidenceLog == LogOf(evidence)

(* One request at a time, each event reported once: the settlement is the  *)
(* ledger.                                                                 *)
Ledger == INSTANCE SerialLedger WITH log <- EvidenceLog

LedgerSpec == Ledger!Spec

(* UniqueConstraint("chain_id", "transaction_hash", "log_index"): an event *)
(* of the chain counts once.  What the deal's row has as paid and as       *)
(* disputed is what the stored events confirm.                             *)
TotalsConfirmed ==
  /\ deal.funded = ConfirmedFunding
  /\ deal.disputed = ConfirmedDisputes
===========================================================================
