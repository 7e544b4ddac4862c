------------------------- MODULE SettlementProofs -------------------------
(***************************************************************************)
(* Theorems about Settlement, for either database and every set of         *)
(* sessions, parties, milestones and events, with and without retries.     *)
(*                                                                         *)
(* All eight handlers end in UpdateDeal, and the invitations and joins in  *)
(* AppendInvitationItem.  The lemmas HandlerFrame and InvitationStep say   *)
(* once what such a step is, and the invariants are proved from them.      *)
(***************************************************************************)
EXTENDS Settlement, TLAPS

---------------------------------------------------------------------------
(* Lemmas about the rules                                                  *)

(* The columns the handlers assign, with values of their types.            *)
LEMMA RowUpdates ==
  \A d \in DealRow, s \in DealStatus, v, n \in Nat :
    /\ [d EXCEPT !.version = v] \in DealRow
    /\ [d EXCEPT !.status = s, !.version = v] \in DealRow
    /\ [d EXCEPT !.registered = TRUE, !.status = s, !.version = v] \in DealRow
    /\ [d EXCEPT !.funded = n, !.status = s, !.version = v] \in DealRow
    /\ [d EXCEPT !.released = n, !.status = s, !.version = v] \in DealRow
    /\ [d EXCEPT !.disputed = n, !.status = s, !.version = v] \in DealRow
<1> SUFFICES ASSUME NEW d \in DealRow, NEW s \in DealStatus, NEW v \in Nat,
                    NEW n \in Nat
             PROVE  /\ [d EXCEPT !.version = v] \in DealRow
                    /\ [d EXCEPT !.status = s, !.version = v] \in DealRow
                    /\ [d EXCEPT !.registered = TRUE, !.status = s,
                                 !.version = v] \in DealRow
                    /\ [d EXCEPT !.funded = n, !.status = s,
                                 !.version = v] \in DealRow
                    /\ [d EXCEPT !.released = n, !.status = s,
                                 !.version = v] \in DealRow
                    /\ [d EXCEPT !.disputed = n, !.status = s,
                                 !.version = v] \in DealRow
  OBVIOUS
<1>1. [d EXCEPT !.version = v] \in DealRow
  BY DEF DealRow
<1>2. [d EXCEPT !.status = s, !.version = v] \in DealRow
  BY DEF DealRow
<1>3. [d EXCEPT !.registered = TRUE, !.status = s, !.version = v] \in DealRow
  BY DEF DealRow
<1>4. [d EXCEPT !.funded = n, !.status = s, !.version = v] \in DealRow
  BY DEF DealRow
<1>5. [d EXCEPT !.released = n, !.status = s, !.version = v] \in DealRow
  BY DEF DealRow
<1>6. [d EXCEPT !.disputed = n, !.status = s, !.version = v] \in DealRow
  BY DEF DealRow
<1> QED BY <1>1, <1>2, <1>3, <1>4, <1>5, <1>6

(* Every effect of a handler on a deal row yields a deal row.              *)
LEMMA EffectsAreRows ==
  ASSUME NEW d \in DealRow
  PROVE  /\ AfterRegister(d) \in DealRow
         /\ \A everyone \in BOOLEAN : AfterAccept(d, everyone) \in DealRow
         /\ \A n \in Nat : AfterFunding(d, Total, Bps, n) \in DealRow
         /\ AfterSubmit(d) \in DealRow
         /\ AfterApprove(d) \in DealRow
         /\ \A n \in Nat : AfterRelease(d, Total, n) \in DealRow
         /\ \A n \in Nat : AfterDispute(d, n) \in DealRow
         /\ \A target \in DealStatus : AfterTransition(d, target) \in DealRow
         /\ AfterInvite(d) \in DealRow
         /\ AfterLastJoin(d) \in DealRow
<1>a. {"AWAITING_PARTIES", "AWAITING_SIGNATURES", "AWAITING_FUNDING",
       "PARTIALLY_FUNDED", "ACTIVE", "MILESTONE_REVIEW", "DISPUTED",
       "COMPLETED"} \subseteq DealStatus
  BY DEF DealStatus
<1>b. /\ d.status \in DealStatus
      /\ d.version + 1 \in Nat
      /\ \A n \in Nat : /\ d.funded + n \in Nat
                        /\ d.released + n \in Nat
                        /\ d.disputed + n \in Nat
  BY DEF DealRow
<1> USE <1>a, <1>b, RowUpdates
<1>1. AfterRegister(d) \in DealRow
  BY DEF AfterRegister
<1>2. ASSUME NEW everyone \in BOOLEAN
      PROVE  AfterAccept(d, everyone) \in DealRow
  BY DEF AfterAccept
<1>3. ASSUME NEW n \in Nat
      PROVE  AfterFunding(d, Total, Bps, n) \in DealRow
  BY DEF AfterFunding
<1>4. AfterSubmit(d) \in DealRow
  BY DEF AfterSubmit
<1>5. AfterApprove(d) \in DealRow
  BY DEF AfterApprove
<1>6. ASSUME NEW n \in Nat
      PROVE  AfterRelease(d, Total, n) \in DealRow
  BY DEF AfterRelease
<1>7. ASSUME NEW n \in Nat
      PROVE  AfterDispute(d, n) \in DealRow
  BY DEF AfterDispute
<1>8. ASSUME NEW target \in DealStatus
      PROVE  AfterTransition(d, target) \in DealRow
  BY DEF AfterTransition
<1>9. AfterInvite(d) \in DealRow /\ AfterLastJoin(d) \in DealRow
  BY DEF AfterInvite, AfterLastJoin
<1> QED BY <1>1, <1>2, <1>3, <1>4, <1>5, <1>6, <1>7, <1>8, <1>9

(* The columns one UPDATE leaves behind make a row again.                  *)
LEMMA WrittenAreRows ==
  /\ \A old, new, cur \in DealRow : WrittenDeal(old, new, cur) \in DealRow
  /\ \A old, new, cur \in MilestoneRow :
       WrittenMilestone(old, new, cur) \in MilestoneRow
BY DEF DealRow, MilestoneRow, WrittenDeal, WrittenMilestone, Column

(* A deal funded in full is active, whatever its threshold.                *)
THEOREM FullFundingActivates ==
  ASSUME NEW d \in DealRow, NEW amount \in Nat, d.funded + amount = Total
  PROVE  AfterFunding(d, Total, Bps, amount).status = "ACTIVE"
<1>1. Total \in Nat /\ Bps \in Nat /\ Bps <= 10000
  BY DealAssumption
<1>2. \A t, b \in Nat : b <= 10000 => t * 10000 >= t * b
  OBVIOUS
<1>3. ThresholdReached(d.funded + amount, Total, Bps)
  BY <1>1, <1>2 DEF ThresholdReached
<1> QED BY <1>3 DEF AfterFunding, DealRow

---------------------------------------------------------------------------
(* Type correctness                                                        *)

LEMMA ChainTypes ==
  /\ \A e \in Chain : /\ e.name \in ChainNames
                      /\ e.credited \in Nat
                      /\ e.name \in MilestoneNames =>
                           /\ e.milestone \in Milestones
                           /\ Amount[e.milestone] \in Nat
  /\ \A j \in TransitionJob : j.name = "Transition" /\ j.target \in DealStatus
  /\ \A j \in InvitationJob : /\ j.name \in {"Invite", "Join"}
                               /\ j.party \in Late
  /\ \A j \in Job : j.name \in ChainNames => j \in Chain
  /\ \A j \in Job : j.name = "Invite" => j \in InvitationJob
  /\ {"Transition", "Invite", "Join"} \cap ChainNames = {}
  /\ None \notin Workers
BY ChainAssumption, DealAssumption, EnvironmentAssumption
   DEF TransitionJob, InvitationJob, Job, ChainNames

(* A session at work has a job, and one that joins has a party to add.     *)
AtWork ==
  \A r \in Workers :
    /\ pc[r] # "idle" => job[r] \in Job
    /\ pc[r] \in {"checked", "joined"} => job[r] \in InvitationJob

Typed == TypeOK /\ AtWork

(* The milestone rows a handler flushes are rows.                          *)
LEMMA MarkedAreRows ==
  ASSUME TypeOK, NEW r \in Workers, job[r].milestone \in Milestones,
         NEW status \in MilestoneStatus, NEW released \in Nat
  PROVE  /\ WithMilestone(r, status, released) \in [Milestones -> MilestoneRow]
         /\ LoadedReleased(r) \in Nat
BY DEF TypeOK, View, WithMilestone, LoadedReleased, MilestoneRow

(* What a handler flushes: typed rows, and the lock.                       *)
HandlerUpdate(r) ==
  \E row \in DealRow, signed \in SUBSET Parties,
     rows \in [Milestones -> MilestoneRow], disputed \in SUBSET Milestones,
     items \in SUBSET EvidenceItem :
    /\ UpdateDeal(r, row, signed, rows, disputed, items)
    /\ clock' \in Nat

LEMMA HandlersUpdate ==
  ASSUME Typed, NEW r \in Workers, Handle(r)
  PROVE  HandlerUpdate(r)
<1> DEFINE d == view[r].deal
<1>1. /\ d \in DealRow
      /\ view[r].milestone \in [Milestones -> MilestoneRow]
      /\ clock \in Nat
      /\ view[r].parties \subseteq Parties
  BY DEF Typed, TypeOK, View
<1>2. ASSUME pc[r] = "verified", job[r].name \in ChainNames
      PROVE  job[r] \in Chain
  BY <1>2, ChainTypes DEF Typed, AtWork
<1>3. ASSUME job[r] \in Chain, NEW row \in DealRow,
             NEW signed \in SUBSET Parties,
             NEW rows \in [Milestones -> MilestoneRow],
             UpdateWithEvidence(r, row, signed, rows)
      PROVE  HandlerUpdate(r)
  <2>1. PICK latest \in LatestInstants(evidence) :
          /\ clock' = clock + 1
          /\ UpdateDeal(r, row, signed, rows, {},
               {[at |-> clock + 1, prev |-> latest, event |-> job[r],
                 locked |-> TRUE]})
    BY <1>3 DEF UpdateWithEvidence
  <2>2. latest \in Nat
    BY DEF LatestInstants, Instants, Typed, TypeOK, EvidenceItem
  <2> DEFINE items == {[at |-> clock + 1, prev |-> latest, event |-> job[r],
                        locked |-> TRUE]}
  <2>3. items \in SUBSET EvidenceItem
    BY <1>1, <1>3, <2>2 DEF EvidenceItem
  <2>4. UpdateDeal(r, row, signed, rows, {}, items) /\ clock' \in Nat
    BY <1>1, <2>1
  <2> HIDE DEF items
  <2>5. {} \in SUBSET Milestones
    OBVIOUS
  <2> QED BY <1>3, <2>3, <2>4, <2>5 DEF HandlerUpdate
<1>4. CASE RegisterOnchain(r)
  <2>1. job[r] \in Chain
    BY <1>2, <1>4 DEF RegisterOnchain, Verified, ChainNames
  <2>2. AfterRegister(d) \in DealRow
    BY <1>1, EffectsAreRows
  <2> QED BY <1>1, <1>3, <1>4, <2>1, <2>2 DEF RegisterOnchain
<1>5. CASE AcceptAgreement(r)
  <2>1. job[r] \in Chain
    BY <1>2, <1>5 DEF AcceptAgreement, Verified, ChainNames
  <2>2. PICK p \in Parties :
          UpdateWithEvidence(r, AfterAccept(d, EveryoneAccepted(r, p)), {p},
                             view[r].milestone)
    BY <1>1, <1>5 DEF AcceptAgreement
  <2>3. EveryoneAccepted(r, p) \in BOOLEAN
    BY DEF EveryoneAccepted
  <2>4. AfterAccept(d, EveryoneAccepted(r, p)) \in DealRow
    BY <1>1, <2>3, EffectsAreRows
  <2> QED BY <1>1, <1>3, <2>1, <2>2, <2>4
<1>6. CASE RecordFunding(r)
  <2>1. job[r] \in Chain
    BY <1>2, <1>6 DEF RecordFunding, Verified, ChainNames
  <2>2. AfterFunding(d, Total, Bps, job[r].credited) \in DealRow
    BY <1>1, <2>1, ChainTypes, EffectsAreRows
  <2> QED BY <1>1, <1>3, <1>6, <2>1, <2>2 DEF RecordFunding
<1>7. CASE SubmitMilestone(r)
  <2>1. job[r] \in Chain /\ job[r].milestone \in Milestones
    BY <1>2, <1>7, ChainTypes
    DEF SubmitMilestone, Verified, ChainNames, MilestoneNames
  <2>2. AfterSubmit(d) \in DealRow
    BY <1>1, EffectsAreRows
  <2>3. WithMilestone(r, "SUBMITTED", LoadedReleased(r))
          \in [Milestones -> MilestoneRow]
    BY <2>1, MarkedAreRows DEF MilestoneStatus, Typed
  <2> QED BY <1>3, <1>7, <2>1, <2>2, <2>3 DEF SubmitMilestone
<1>8. CASE ApproveMilestone(r)
  <2>1. job[r].milestone \in Milestones
    BY <1>2, <1>8, ChainTypes
    DEF ApproveMilestone, Verified, ChainNames, MilestoneNames
  <2>2. AfterApprove(d) \in DealRow
    BY <1>1, EffectsAreRows
  <2>3. WithMilestone(r, "APPROVED", LoadedReleased(r))
          \in [Milestones -> MilestoneRow]
    BY <2>1, MarkedAreRows DEF MilestoneStatus, Typed
  <2> QED BY <1>1, <1>8, <2>2, <2>3 DEF ApproveMilestone, HandlerUpdate
<1>9. CASE ReleaseMilestone(r)
  <2> DEFINE amount == Amount[job[r].milestone]
  <2>1. /\ job[r] \in Chain
        /\ job[r].milestone \in Milestones
        /\ amount \in Nat
    BY <1>2, <1>9, ChainTypes
    DEF ReleaseMilestone, Verified, ChainNames, MilestoneNames
  <2>2. AfterRelease(d, Total, amount) \in DealRow
    BY <1>1, <2>1, EffectsAreRows
  <2>3. WithMilestone(r, "RELEASED", amount) \in [Milestones -> MilestoneRow]
    BY <2>1, MarkedAreRows DEF MilestoneStatus, Typed
  <2> QED BY <1>3, <1>9, <2>1, <2>2, <2>3 DEF ReleaseMilestone
<1>10. CASE OpenDispute(r)
  <2> DEFINE m == job[r].milestone
  <2>1. m \in Milestones /\ Amount[m] \in Nat
    BY <1>2, <1>10, ChainTypes
    DEF OpenDispute, Verified, ChainNames, MilestoneNames
  <2>2. AfterDispute(d, Amount[m]) \in DealRow
    BY <1>1, <2>1, EffectsAreRows
  <2>3. WithMilestone(r, "DISPUTED", LoadedReleased(r))
          \in [Milestones -> MilestoneRow]
    BY <2>1, MarkedAreRows DEF MilestoneStatus, Typed
  <2> QED BY <1>1, <1>10, <2>1, <2>2, <2>3 DEF OpenDispute, HandlerUpdate
<1>11. CASE ChangeStatus(r)
  <2>1. AfterTransition(d, job[r].target) \in DealRow
    BY <1>1, <1>11, ChainTypes, EffectsAreRows DEF ChangeStatus
  <2> QED BY <1>1, <1>11, <2>1 DEF ChangeStatus, HandlerUpdate
<1> QED BY <1>4, <1>5, <1>6, <1>7, <1>8, <1>9, <1>10, <1>11 DEF Handle

(* The empty rows are rows.                                                *)
LEMMA NewRows ==
  /\ NewDeal \in DealRow
  /\ NewMilestones \in [Milestones -> MilestoneRow]
  /\ NoView \in View
  /\ NoDraft \in Draft
<1>1. NewDeal \in DealRow /\ NewMilestones \in [Milestones -> MilestoneRow]
  BY DEF NewDeal, DealRow, DealStatus, NewMilestones, MilestoneRow,
         MilestoneStatus
<1> QED BY <1>1 DEF NoView, NoDraft, View, Draft

---------------------------------------------------------------------------
(* The steps of a session that only load rows.                             *)
Loads(r) ==
  \/ Report(r)
  \/ RequestTransition(r)
  \/ RequestInvite(r)
  \/ RequestJoin(r)
  \/ LoadChildren(r)
  \/ Verify(r)

LEMMA BeginStep ==
  ASSUME Typed, NEW r \in Workers, NEW phase, NEW j, NEW rows,
         Begin(r, phase, j, rows),
         phase \in {"row", "checked"}, j \in Job, rows \in View,
         phase = "checked" => j \in InvitationJob
  PROVE  Typed'
BY DEF Begin, committed, Typed, TypeOK, AtWork, Phases

LEMMA BeginWithDealStep ==
  ASSUME Typed, NEW r \in Workers, NEW j, BeginWithDeal(r, j)
  PROVE  /\ j \in Job => Typed'
         /\ Begin(r, "row", j, [NoView EXCEPT !.deal = deal])
         /\ [NoView EXCEPT !.deal = deal].deal = deal
         /\ [NoView EXCEPT !.deal = deal].milestone = NewMilestones
<1>1. [NoView EXCEPT !.deal = deal] \in View
  BY NewRows DEF Typed, TypeOK, View
<1>2. Begin(r, "row", j, [NoView EXCEPT !.deal = deal])
  BY DEF BeginWithDeal
<1>3. /\ [NoView EXCEPT !.deal = deal].deal = deal
      /\ [NoView EXCEPT !.deal = deal].milestone = NewMilestones
  BY DEF NoView
<1> QED BY <1>1, <1>2, <1>3, BeginStep

(* Whoever begins reads the deal, or does not yet.                         *)
LEMMA LoadsTyped ==
  ASSUME Typed, NEW r \in Workers, Loads(r)
  PROVE  Typed'
<1>1. CASE Report(r)
  <2>1. PICK e \in Chain : BeginWithDeal(r, e)
    BY <1>1 DEF Report
  <2> QED BY <2>1, BeginWithDealStep DEF Job
<1>2. CASE RequestTransition(r)
  <2>1. PICK target \in Targets, expected \in {deal.version - 1, deal.version} :
          BeginWithDeal(r, [name |-> "Transition", target |-> target,
                            expected |-> expected])
    BY <1>2 DEF RequestTransition
  <2>2. expected \in Int
    BY <2>1 DEF Typed, TypeOK, DealRow
  <2>3. [name |-> "Transition", target |-> target, expected |-> expected] \in Job
    BY <2>2 DEF Job, TransitionJob
  <2> QED BY <2>1, <2>3, BeginWithDealStep
<1>3. CASE RequestInvite(r)
  <2>1. PICK p \in Late : BeginWithDeal(r, [name |-> "Invite", party |-> p])
    BY <1>3 DEF RequestInvite
  <2>2. [name |-> "Invite", party |-> p] \in Job
    BY DEF Job, InvitationJob
  <2> QED BY <2>1, <2>2, BeginWithDealStep
<1>4. CASE RequestJoin(r)
  <2>1. PICK p \in Late :
          Begin(r, "checked", [name |-> "Join", party |-> p],
                [NoView EXCEPT !.known = p \in parties])
    BY <1>4 DEF RequestJoin
  <2>2. [name |-> "Join", party |-> p] \in InvitationJob
    BY DEF InvitationJob
  <2>3. \A known \in BOOLEAN : [NoView EXCEPT !.known = known] \in View
    BY NewRows DEF View
  <2>4. (p \in parties) \in BOOLEAN
    OBVIOUS
  <2>5. [NoView EXCEPT !.known = p \in parties] \in View
    BY <2>3, <2>4
  <2> QED BY <2>1, <2>2, <2>5, BeginStep DEF Job
<1>5. CASE LoadChildren(r)
  <2>1. [view[r] EXCEPT !.parties = parties, !.accepted = accepted,
                        !.milestone = milestone] \in View
    BY DEF Typed, TypeOK, View
  <2> QED BY <1>5, <2>1 DEF LoadChildren, committed, Typed, TypeOK, AtWork,
                            Phases
<1>6. CASE Verify(r)
  <2>1. \A known \in BOOLEAN : [view[r] EXCEPT !.known = known] \in View
    BY DEF Typed, TypeOK, View
  <2>2. (job[r] \in events) \in BOOLEAN
    OBVIOUS
  <2>3. [view[r] EXCEPT !.known = job[r] \in events] \in View
    BY <2>1, <2>2
  <2> QED BY <1>6, <2>3 DEF Verify, committed, Typed, TypeOK, AtWork, Phases
<1> QED BY <1>1, <1>2, <1>3, <1>4, <1>5, <1>6 DEF Loads

(* What such a step leaves alone, and the rows it may have read.           *)
LEMMA LoadFrame ==
  ASSUME Typed, NEW r \in Workers, Loads(r)
  PROVE  /\ UNCHANGED <<committed, clock, lock, draft>>
         /\ pc[r] \notin {"joined", "flushed"}
         /\ pc'[r] \notin {"idle", "joined", "flushed"}
         /\ \A q \in Workers : q # r => /\ pc'[q] = pc[q] /\ job'[q] = job[q]
                                        /\ view'[q] = view[q]
         /\ pc[r] = "idle" \/ job'[r] = job[r]
         /\ view'[r].deal \in {deal, view[r].deal, NewDeal}
         /\ view'[r].milestone \in {milestone, view[r].milestone, NewMilestones}
<1>1. ASSUME NEW phase \in {"row", "checked"}, NEW j, NEW rows,
             Begin(r, phase, j, rows), rows.deal \in {deal, NewDeal},
             rows.milestone = NewMilestones
      PROVE  /\ UNCHANGED <<committed, clock, lock, draft>>
             /\ pc[r] = "idle"
             /\ pc'[r] \notin {"idle", "joined", "flushed"}
             /\ \A q \in Workers : q # r => /\ pc'[q] = pc[q]
                                            /\ job'[q] = job[q]
                                            /\ view'[q] = view[q]
             /\ view'[r].deal \in {deal, NewDeal}
             /\ view'[r].milestone = NewMilestones
  BY <1>1 DEF Begin, Typed, TypeOK
<1>2. CASE Report(r) \/ RequestTransition(r) \/ RequestInvite(r)
  <2>1. PICK j : BeginWithDeal(r, j)
    BY <1>2 DEF Report, RequestTransition, RequestInvite
  <2> DEFINE rows == [NoView EXCEPT !.deal = deal]
  <2>2. /\ Begin(r, "row", j, rows)
        /\ rows.deal = deal
        /\ rows.milestone = NewMilestones
    BY <2>1, BeginWithDealStep
  <2> HIDE DEF rows
  <2> QED BY <1>1, <2>2
<1>3. CASE RequestJoin(r)
  <2>1. PICK p \in Late :
          Begin(r, "checked", [name |-> "Join", party |-> p],
                [NoView EXCEPT !.known = p \in parties])
    BY <1>3 DEF RequestJoin
  <2> DEFINE rows == [NoView EXCEPT !.known = p \in parties]
  <2>2. rows.deal = NewDeal /\ rows.milestone = NewMilestones
    BY DEF NoView
  <2>3. Begin(r, "checked", [name |-> "Join", party |-> p], rows)
    BY <2>1
  <2> HIDE DEF rows
  <2> QED BY <1>1, <2>2, <2>3
<1>4. CASE LoadChildren(r)
  <2>1. /\ view'[r].deal = view[r].deal
        /\ view'[r].milestone = milestone
    BY <1>4 DEF LoadChildren, Typed, TypeOK, View
  <2> QED BY <1>4, <2>1 DEF LoadChildren, Typed, TypeOK
<1>5. CASE Verify(r)
  <2>1. /\ view'[r].deal = view[r].deal
        /\ view'[r].milestone = view[r].milestone
    BY <1>5 DEF Verify, Typed, TypeOK, View
  <2> QED BY <1>5, <2>1 DEF Verify, Typed, TypeOK
<1> QED BY <1>2, <1>3, <1>4, <1>5 DEF Loads

---------------------------------------------------------------------------
(* The end of an invitation's or a join's work: the item it flushes.       *)

(* The one item of the draft of r, which links to the latest committed one *)
LinkedWith(r, locked) ==
  \E latest \in LatestInstants(evidence) :
    /\ clock' = clock + 1
    /\ draft'[r].items =
         {[at |-> clock + 1, prev |-> latest, event |-> job[r],
           locked |-> locked]}

LinkedItem(r) == LinkedWith(r, TRUE)

(* The draft of r has this deal row and such an item; the lock is taken,   *)
(* or the deal's row is left alone.                                        *)
Appended(r, row) ==
  /\ UNCHANGED <<committed, job, view, requests>>
  /\ pc' = [pc EXCEPT ![r] = "flushed"]
  /\ \A q \in Workers : q # r => draft'[q] = draft[q]
  /\ draft'[r].deal = row
  /\ draft'[r].milestone = view[r].milestone
  /\ draft'[r].joins = draft[r].joins
  /\ draft'[r].accepted = draft[r].accepted
  /\ draft'[r].disputed = draft[r].disputed
  /\ LinkedWith(r, lock' = r)
  /\ \/ lock' = lock /\ row = view[r].deal /\ database # "SQLite"
     \/ lock' = r /\ lock \in {None, r}

(* The rows an invitation or a join may leave the deal in.                 *)
InvitationRows(d) == {d, AfterInvite(d), AfterLastJoin(d)}

LEMMA AppendStep ==
  ASSUME Typed, NEW r \in Workers, NEW row, AppendInvitationItem(r, row)
  PROVE  Appended(r, row)
<1>1. PICK latest \in LatestInstants(evidence) :
        /\ clock' = clock + 1
        /\ IF row # view[r].deal \/ database = "SQLite"
             THEN lock \in {None, r} /\ lock' = r
             ELSE UNCHANGED lock
        /\ pc' = [pc EXCEPT ![r] = "flushed"]
        /\ draft' = [draft EXCEPT ![r] =
             [@ EXCEPT !.deal      = row,
                       !.milestone = view[r].milestone,
                       !.items     = {[at |-> clock + 1, prev |-> latest,
                                       event |-> job[r],
                                       locked |-> lock' = r]}]]
        /\ UNCHANGED <<committed, job, view, requests>>
  BY DEF AppendInvitationItem
<1> DEFINE items == {[at |-> clock + 1, prev |-> latest, event |-> job[r],
                      locked |-> lock' = r]}
<1>2. draft'[r] = [draft[r] EXCEPT !.deal = row, !.milestone = view[r].milestone,
                                   !.items = items]
  BY <1>1 DEF Typed, TypeOK
<1>3. draft[r] \in Draft
  BY DEF Typed, TypeOK
<1> HIDE DEF items
<1>4. /\ draft'[r].deal = row
      /\ draft'[r].milestone = view[r].milestone
      /\ draft'[r].joins = draft[r].joins
      /\ draft'[r].accepted = draft[r].accepted
      /\ draft'[r].disputed = draft[r].disputed
      /\ draft'[r].items = items
  BY <1>2, <1>3 DEF Draft
<1>5. \A q \in Workers : q # r => draft'[q] = draft[q]
  BY <1>1 DEF Typed, TypeOK
<1> QED BY <1>1, <1>4, <1>5 DEF Appended, LinkedWith, items

LEMMA InvitationStep ==
  ASSUME Typed, NEW r \in Workers, Invite(r) \/ Join(r)
  PROVE  /\ job[r] \in InvitationJob
         /\ pc[r] \in {"loaded", "joined"}
         /\ \E row \in InvitationRows(view[r].deal) : Appended(r, row)
<1>1. job[r] \in InvitationJob
  BY ChainTypes DEF Invite, Join, Typed, AtWork
<1>2. pc[r] \in {"loaded", "joined"}
  BY DEF Invite, Join
<1>3. PICK row \in InvitationRows(view[r].deal) : AppendInvitationItem(r, row)
  BY DEF Invite, Join, InvitationRows
<1>4. Appended(r, row)
  BY <1>3, AppendStep
<1> QED BY <1>1, <1>2, <1>4

(* An invitation or a join moves no money.                                 *)
LEMMA EffectsOfInvitations ==
  ASSUME NEW d \in DealRow, NEW row \in InvitationRows(d)
  PROVE  /\ row \in DealRow
         /\ row.funded = d.funded
         /\ row.released = d.released
         /\ row.disputed = d.disputed
         /\ row.registered = d.registered
<1>1. row \in DealRow
  BY EffectsAreRows DEF InvitationRows
<1> QED BY <1>1 DEF DealRow, InvitationRows, AfterInvite, AfterLastJoin

LEMMA InvitationTyped ==
  ASSUME Typed, NEW r \in Workers, Invite(r) \/ Join(r)
  PROVE  Typed'
<1>1. PICK row \in InvitationRows(view[r].deal) : AppendInvitationItem(r, row)
  BY DEF Invite, Join, InvitationRows
<1>2. row \in DealRow
  BY <1>1, EffectsOfInvitations DEF Typed, TypeOK, View
<1>3. job[r] \in InvitationJob /\ pc[r] # "idle"
  BY InvitationStep
<1>4. PICK latest \in LatestInstants(evidence) :
        /\ clock' = clock + 1
        /\ lock' \in {lock, r}
        /\ pc' = [pc EXCEPT ![r] = "flushed"]
        /\ draft' = [draft EXCEPT ![r] =
             [@ EXCEPT !.deal      = row,
                       !.milestone = view[r].milestone,
                       !.items     = {[at |-> clock + 1, prev |-> latest,
                                       event |-> job[r],
                                       locked |-> lock' = r]}]]
        /\ UNCHANGED <<committed, job, view, requests>>
  BY <1>1 DEF AppendInvitationItem
<1>5. latest \in Nat /\ clock + 1 \in Nat
  BY DEF LatestInstants, Instants, Typed, TypeOK, EvidenceItem
<1>6. [at |-> clock + 1, prev |-> latest, event |-> job[r],
       locked |-> lock' = r] \in EvidenceItem
  BY <1>3, <1>5 DEF EvidenceItem
<1> DEFINE items == {[at |-> clock + 1, prev |-> latest, event |-> job[r],
                      locked |-> lock' = r]}
<1>7. items \in SUBSET EvidenceItem
  BY <1>6
<1>8. draft' = [draft EXCEPT ![r] =
        [@ EXCEPT !.deal = row, !.milestone = view[r].milestone,
                  !.items = items]]
  BY <1>4
<1> HIDE DEF items
<1>9. draft' \in [Workers -> Draft]
  <2>1. draft[r] \in Draft /\ view[r].milestone \in [Milestones -> MilestoneRow]
    BY DEF Typed, TypeOK, View
  <2>2. [draft[r] EXCEPT !.deal = row, !.milestone = view[r].milestone,
                         !.items = items] \in Draft
    BY <1>2, <1>7, <2>1 DEF Draft
  <2> QED BY <1>8, <2>2 DEF Typed, TypeOK
<1> QED BY <1>3, <1>4, <1>5, <1>9 DEF committed, Typed, TypeOK, AtWork, Phases

---------------------------------------------------------------------------
(* The sessions of a request, at its end.                                  *)
LEMMA EndIsTyped ==
  ASSUME Typed, NEW r \in Workers, EndSession(r)
  PROVE  /\ lock' \in Workers \cup {None}
         /\ pc' \in [Workers -> Phases]
         /\ job' \in [Workers -> Job \cup {None}]
         /\ view' \in [Workers -> View]
         /\ draft' \in [Workers -> Draft]
         /\ AtWork'
BY NewRows DEF EndSession, Typed, TypeOK, AtWork, Phases

(* What LoadDeal adds to the session.                                      *)
LEMMA LoadDealStep ==
  ASSUME Typed, NEW r \in Workers, LoadDeal(r)
  PROVE  /\ UNCHANGED <<committed, clock, job, requests>>
         /\ pc[r] = "checked"
         /\ pc' = [pc EXCEPT ![r] = "joined"]
         /\ \/ database # "SQLite" /\ lock' = lock
            \/ lock = None /\ lock' = r
         /\ view'[r].deal = deal
         /\ view'[r].milestone = view[r].milestone
         /\ view'[r] \in View
         /\ draft'[r].deal = deal
         /\ draft'[r].joins \in SUBSET Late
         /\ draft'[r].accepted = {}
         /\ draft'[r].milestone = NewMilestones
         /\ draft'[r].disputed = {}
         /\ draft'[r].items = {}
         /\ draft'[r] \in Draft
         /\ \A q \in Workers : q # r => /\ view'[q] = view[q]
                                        /\ draft'[q] = draft[q]
<1> DEFINE joins == IF view[r].known THEN {} ELSE {job[r].party}
<1>1. joins \in SUBSET Late
  BY ChainTypes DEF LoadDeal, Typed, AtWork
<1>2. deal \in DealRow /\ view[r] \in View /\ NoDraft \in Draft
  BY NewRows DEF Typed, TypeOK
<1>3. /\ view'[r] = [view[r] EXCEPT !.deal = deal]
      /\ draft'[r] = [NoDraft EXCEPT !.deal = deal, !.joins = joins]
      /\ \A q \in Workers : q # r => /\ view'[q] = view[q]
                                     /\ draft'[q] = draft[q]
  BY DEF LoadDeal, Typed, TypeOK
<1> HIDE DEF joins
<1>4. /\ view'[r].deal = deal
      /\ view'[r].milestone = view[r].milestone
      /\ view'[r] \in View
  BY <1>2, <1>3 DEF View
<1>5. draft'[r] \in Draft
  BY <1>1, <1>2, <1>3 DEF Draft
<1>6. /\ draft'[r].deal = deal
      /\ draft'[r].joins = joins
      /\ draft'[r].accepted = {}
      /\ draft'[r].milestone = NewMilestones
      /\ draft'[r].disputed = {}
      /\ draft'[r].items = {}
  BY <1>3 DEF NoDraft
<1> QED BY <1>1, <1>3, <1>4, <1>5, <1>6 DEF LoadDeal

(* Init => Typed and Typed /\ [Next]_vars => Typed'.                       *)
LEMMA InitTyped == Init => Typed
BY NewRows, DealAssumption, EnvironmentAssumption
DEF Init, Typed, TypeOK, AtWork, Phases

LEMMA NextTyped == Typed /\ [Next]_vars => Typed'
<1> SUFFICES ASSUME Typed, [Next]_vars PROVE Typed'
  OBVIOUS
<1>1. CASE UNCHANGED vars
  BY <1>1 DEF vars, committed, sessions, Typed, TypeOK, AtWork
<1>2. ASSUME NEW r \in Workers, Handle(r)
      PROVE  Typed'
  <2>1. PICK row \in DealRow, signed \in SUBSET Parties,
             rows \in [Milestones -> MilestoneRow],
             disputed \in SUBSET Milestones, items \in SUBSET EvidenceItem :
          /\ UpdateDeal(r, row, signed, rows, disputed, items)
          /\ clock' \in Nat
    BY <1>2, HandlersUpdate DEF HandlerUpdate
  <2>2. pc[r] # "idle"
    BY <1>2 DEF Handle, RegisterOnchain, AcceptAgreement, RecordFunding,
         SubmitMilestone, ApproveMilestone, ReleaseMilestone, OpenDispute,
         ChangeStatus, Verified
  <2>3. [deal |-> row, joins |-> {}, accepted |-> signed, milestone |-> rows,
         disputed |-> disputed, items |-> items] \in Draft
    BY <2>1 DEF Draft
  <2> QED BY <2>1, <2>2, <2>3
       DEF UpdateDeal, committed, Typed, TypeOK, AtWork, Phases
<1>3. ASSUME NEW r \in Workers, LoadDeal(r)
      PROVE  Typed'
  <2>1. /\ view' \in [Workers -> View]
        /\ draft' \in [Workers -> Draft]
    <3>1. /\ DOMAIN view' = Workers /\ view' = [q \in Workers |-> view'[q]]
          /\ DOMAIN draft' = Workers /\ draft' = [q \in Workers |-> draft'[q]]
      BY <1>3 DEF LoadDeal, Typed, TypeOK
    <3> QED BY <1>3, <3>1, LoadDealStep DEF Typed, TypeOK
  <2>2. lock' \in Workers \cup {None}
    BY <1>3, LoadDealStep DEF Typed, TypeOK
  <2>3. /\ UNCHANGED <<committed, clock, job, requests>>
        /\ pc[r] = "checked"
        /\ pc' = [pc EXCEPT ![r] = "joined"]
    BY <1>3, LoadDealStep
  <2> QED BY <2>1, <2>2, <2>3 DEF committed, Typed, TypeOK, AtWork, Phases
<1>4. ASSUME NEW r \in Workers, Commit(r)
      PROVE  Typed'
  <2>1. deal' \in DealRow
    BY <1>4, WrittenAreRows DEF Commit, Typed, TypeOK, View, Draft
  <2>2. milestone' \in [Milestones -> MilestoneRow]
    BY <1>4, WrittenAreRows DEF Commit, Typed, TypeOK, View, Draft
  <2>3. disputes' \in [Milestones -> Nat]
    BY <1>4 DEF Commit, Typed, TypeOK, View, Draft
  <2>4. /\ database' \in {"PostgreSQL", "SQLite"}
        /\ parties' \subseteq Parties
        /\ accepted' \subseteq Parties
        /\ events' \subseteq Chain
        /\ evidence' \subseteq EvidenceItem
        /\ clock' \in Nat
        /\ requests' \in Nat
    BY <1>4, DealAssumption DEF Commit, Typed, TypeOK, View, Draft
  <2>5. EndSession(r)
    BY <1>4 DEF Commit
  <2> QED BY <2>1, <2>2, <2>3, <2>4, <2>5, EndIsTyped DEF Typed, TypeOK
<1>5. ASSUME NEW r \in Workers, Refuse(r) \/ Abort(r)
      PROVE  Typed'
  <2>1. EndSession(r) /\ UNCHANGED <<committed, clock, requests>>
    BY <1>5 DEF Refuse, Abort
  <2> QED BY <2>1, EndIsTyped DEF Typed, TypeOK, committed
<1> QED BY <1>1, <1>2, <1>3, <1>4, <1>5, LoadsTyped, InvitationTyped
     DEF Next, Loads

(* Every reachable state is well typed, and every session at work has a    *)
(* job: no handler of workflow.py runs on a request that has none.         *)
THEOREM TypeCorrect == Spec => [](TypeOK /\ AtWork)
<1>1. Init => Typed
  BY InitTyped
<1>2. Typed /\ [Next]_vars => Typed'
  BY NextTyped
<1> QED BY <1>1, <1>2, PTL DEF Spec, Typed

---------------------------------------------------------------------------
(* What a handler's step leaves alone, and what its draft is               *)

LEMMA HandlerFrame ==
  ASSUME Typed, NEW r \in Workers, Handle(r)
  PROVE  /\ UNCHANGED <<committed, job, view, requests>>
         /\ pc[r] \in {"loaded", "verified"}
         /\ pc' = [pc EXCEPT ![r] = "flushed"]
         /\ lock = None
         /\ lock' = r
         /\ \A q \in Workers : q # r => draft'[q] = draft[q]
<1>1. PICK row \in DealRow, signed \in SUBSET Parties,
           rows \in [Milestones -> MilestoneRow],
           disputed \in SUBSET Milestones, items \in SUBSET EvidenceItem :
        UpdateDeal(r, row, signed, rows, disputed, items)
  BY HandlersUpdate DEF HandlerUpdate
<1>2. pc[r] \in {"loaded", "verified"}
  BY DEF Handle, RegisterOnchain, AcceptAgreement, RecordFunding,
       SubmitMilestone, ApproveMilestone, ReleaseMilestone, OpenDispute,
       ChangeStatus, Verified
<1> QED BY <1>1, <1>2 DEF UpdateDeal, Typed, TypeOK

(* The draft of r holds these rows.                                        *)
Drafted(r, row, signed, rows, disputed) ==
  /\ draft'[r].deal = row
  /\ draft'[r].joins = {}
  /\ draft'[r].accepted = signed
  /\ draft'[r].milestone = rows
  /\ draft'[r].disputed = disputed

LEMMA UpdateDraft ==
  ASSUME Typed, NEW r \in Workers, NEW row, NEW signed, NEW rows,
         NEW disputed, NEW items,
         UpdateDeal(r, row, signed, rows, disputed, items)
  PROVE  /\ Drafted(r, row, signed, rows, disputed)
         /\ draft'[r].items = items
BY DEF UpdateDeal, Typed, TypeOK, Drafted

LEMMA EvidenceDraft ==
  ASSUME Typed, NEW r \in Workers, NEW row, NEW signed, NEW rows,
         UpdateWithEvidence(r, row, signed, rows)
  PROVE  Drafted(r, row, signed, rows, {}) /\ LinkedItem(r)
<1>1. PICK latest \in LatestInstants(evidence) :
        /\ clock' = clock + 1
        /\ UpdateDeal(r, row, signed, rows, {},
             {[at |-> clock + 1, prev |-> latest, event |-> job[r],
               locked |-> TRUE]})
  BY DEF UpdateWithEvidence
<1>2. /\ Drafted(r, row, signed, rows, {})
      /\ draft'[r].items = {[at |-> clock + 1, prev |-> latest,
                             event |-> job[r], locked |-> TRUE]}
  BY <1>1, UpdateDraft
<1> QED BY <1>1, <1>2 DEF LinkedItem, LinkedWith

(* The draft of each handler, and the evidence in it.                      *)
LEMMA HandlerDrafts ==
  ASSUME Typed, NEW r \in Workers, NEW d, d = view[r].deal,
         NEW m, m = job[r].milestone
  PROVE  /\ RegisterOnchain(r) =>
              /\ Drafted(r, AfterRegister(d), {}, view[r].milestone, {})
              /\ LinkedItem(r)
         /\ AcceptAgreement(r) =>
              /\ \E p \in view[r].parties :
                   /\ SentBy(p, job[r])
                   /\ Drafted(r, AfterAccept(d, EveryoneAccepted(r, p)), {p},
                              view[r].milestone, {})
              /\ LinkedItem(r)
         /\ RecordFunding(r) =>
              /\ Drafted(r, AfterFunding(d, Total, Bps, job[r].credited), {},
                         view[r].milestone, {})
              /\ LinkedItem(r)
         /\ SubmitMilestone(r) =>
              /\ Drafted(r, AfterSubmit(d), {},
                         WithMilestone(r, "SUBMITTED", LoadedReleased(r)), {})
              /\ LinkedItem(r)
         /\ ApproveMilestone(r) =>
              /\ Drafted(r, AfterApprove(d), {},
                         WithMilestone(r, "APPROVED", LoadedReleased(r)), {})
              /\ draft'[r].items = {} /\ clock' = clock
         /\ ReleaseMilestone(r) =>
              /\ Drafted(r, AfterRelease(d, Total, Amount[m]), {},
                         WithMilestone(r, "RELEASED", Amount[m]), {})
              /\ LinkedItem(r)
         /\ OpenDispute(r) =>
              /\ Drafted(r, AfterDispute(d, Amount[m]), {},
                         WithMilestone(r, "DISPUTED", LoadedReleased(r)), {m})
              /\ draft'[r].items = {} /\ clock' = clock
         /\ ChangeStatus(r) =>
              /\ Drafted(r, AfterTransition(d, job[r].target), {},
                         view[r].milestone, {})
              /\ draft'[r].items = {} /\ clock' = clock
<1>2. ASSUME AcceptAgreement(r)
      PROVE  /\ \E p \in view[r].parties :
                  /\ SentBy(p, job[r])
                  /\ Drafted(r, AfterAccept(d, EveryoneAccepted(r, p)), {p},
                             view[r].milestone, {})
             /\ LinkedItem(r)
  <2>1. PICK p \in view[r].parties :
          /\ SentBy(p, job[r])
          /\ UpdateWithEvidence(r, AfterAccept(d, EveryoneAccepted(r, p)), {p},
                                view[r].milestone)
    BY <1>2 DEF AcceptAgreement
  <2> QED BY <2>1, EvidenceDraft
<1>3. RegisterOnchain(r) =>
        /\ Drafted(r, AfterRegister(d), {}, view[r].milestone, {})
        /\ LinkedItem(r)
  BY EvidenceDraft DEF RegisterOnchain
<1>4. RecordFunding(r) =>
        /\ Drafted(r, AfterFunding(d, Total, Bps, job[r].credited), {},
                   view[r].milestone, {})
        /\ LinkedItem(r)
  BY EvidenceDraft DEF RecordFunding
<1>5. SubmitMilestone(r) =>
        /\ Drafted(r, AfterSubmit(d), {},
                   WithMilestone(r, "SUBMITTED", LoadedReleased(r)), {})
        /\ LinkedItem(r)
  BY EvidenceDraft DEF SubmitMilestone
<1>6. ApproveMilestone(r) =>
        /\ Drafted(r, AfterApprove(d), {},
                   WithMilestone(r, "APPROVED", LoadedReleased(r)), {})
        /\ draft'[r].items = {} /\ clock' = clock
  BY UpdateDraft DEF ApproveMilestone
<1>7. ReleaseMilestone(r) =>
        /\ Drafted(r, AfterRelease(d, Total, Amount[m]), {},
                   WithMilestone(r, "RELEASED", Amount[m]), {})
        /\ LinkedItem(r)
  BY EvidenceDraft DEF ReleaseMilestone
<1>8. OpenDispute(r) =>
        /\ Drafted(r, AfterDispute(d, Amount[m]), {},
                   WithMilestone(r, "DISPUTED", LoadedReleased(r)), {m})
        /\ draft'[r].items = {} /\ clock' = clock
  BY UpdateDraft DEF OpenDispute
<1>9. ChangeStatus(r) =>
        /\ Drafted(r, AfterTransition(d, job[r].target), {},
                   view[r].milestone, {})
        /\ draft'[r].items = {} /\ clock' = clock
  BY UpdateDraft DEF ChangeStatus
<1> QED BY <1>2, <1>3, <1>4, <1>5, <1>6, <1>7, <1>8, <1>9

(* Only RecordFunding changes the funding, and it has checked the sum.     *)
LEMMA EffectsOnFunded ==
  ASSUME NEW d \in DealRow
  PROVE  /\ AfterRegister(d).funded = d.funded
         /\ \A everyone : AfterAccept(d, everyone).funded = d.funded
         /\ \A n : AfterFunding(d, Total, Bps, n).funded = d.funded + n
         /\ AfterSubmit(d).funded = d.funded
         /\ AfterApprove(d).funded = d.funded
         /\ \A n : AfterRelease(d, Total, n).funded = d.funded
         /\ \A n : AfterDispute(d, n).funded = d.funded
         /\ \A target : AfterTransition(d, target).funded = d.funded
BY DEF DealRow, AfterRegister, AfterAccept, AfterFunding, AfterSubmit,
       AfterApprove, AfterRelease, AfterDispute, AfterTransition

LEMMA HandlersFunded ==
  ASSUME Typed, NEW r \in Workers, Handle(r), view[r].deal.funded <= Total
  PROVE  draft'[r].deal.funded <= Total
<1>1. view[r].deal \in DealRow
  BY DEF Typed, TypeOK, View
<1>2. CASE RecordFunding(r)
  <2>1. draft'[r].deal = AfterFunding(view[r].deal, Total, Bps, job[r].credited)
    BY <1>2, HandlerDrafts DEF Drafted
  <2> QED BY <1>1, <1>2, <2>1, EffectsOnFunded DEF RecordFunding, CanFund
<1>3. CASE ~RecordFunding(r)
  <2>1. draft'[r].deal.funded = view[r].deal.funded
    BY <1>1, <1>3, HandlerDrafts, EffectsOnFunded DEF Drafted, Handle
  <2> QED BY <2>1
<1> QED BY <1>2, <1>3

---------------------------------------------------------------------------
(* The funding ceiling                                                     *)

(* The row, every loaded copy of it and every flushed one stay below the   *)
(* total: a commit writes either what is there or what a handler computed  *)
(* from a copy, never a sum of the two.                                    *)
FundedInv ==
  /\ deal.funded <= Total
  /\ \A r \in Workers :
       view[r].deal.funded <= Total /\ draft[r].deal.funded <= Total

LEMMA EndFunded ==
  ASSUME Typed, FundedInv, NEW r \in Workers, EndSession(r), deal'.funded <= Total
  PROVE  FundedInv'
<1>1. NoView.deal.funded <= Total /\ NoDraft.deal.funded <= Total
  BY DealAssumption DEF NoView, NoDraft, NewDeal
<1> QED BY <1>1 DEF EndSession, FundedInv, Typed, TypeOK

LEMMA NextFunded == Typed /\ FundedInv /\ [Next]_vars => FundedInv'
<1> SUFFICES ASSUME Typed, FundedInv, [Next]_vars PROVE FundedInv'
  OBVIOUS
<1>1. CASE UNCHANGED vars
  BY <1>1 DEF vars, committed, sessions, FundedInv
<1>2. NewDeal.funded <= Total
  BY DealAssumption DEF NewDeal
<1>3. ASSUME NEW r \in Workers, Loads(r) \/ LoadDeal(r)
      PROVE  FundedInv'
  <2>1. /\ deal' = deal
        /\ view'[r].deal \in {deal, view[r].deal, NewDeal}
        /\ draft'[r].deal \in {deal, draft[r].deal}
        /\ \A q \in Workers : q # r => /\ view'[q] = view[q]
                                       /\ draft'[q] = draft[q]
    BY <1>3, LoadFrame, LoadDealStep DEF committed
  <2> QED BY <1>2, <2>1 DEF FundedInv
<1>4. ASSUME NEW r \in Workers, Invite(r) \/ Join(r)
      PROVE  FundedInv'
  <2>1. PICK row \in InvitationRows(view[r].deal) : Appended(r, row)
    BY <1>4, InvitationStep
  <2>2. row.funded = view[r].deal.funded
    BY EffectsOfInvitations DEF Typed, TypeOK, View
  <2>3. /\ deal' = deal /\ view' = view
        /\ draft'[r].deal = row
        /\ \A q \in Workers : q # r => draft'[q] = draft[q]
    BY <2>1 DEF Appended, committed
  <2> QED BY <2>2, <2>3 DEF FundedInv
<1>5. ASSUME NEW r \in Workers, Handle(r)
      PROVE  FundedInv'
  <2>1. draft'[r].deal.funded <= Total
    BY <1>5, HandlersFunded DEF FundedInv
  <2> QED BY <1>5, <2>1, HandlerFrame DEF FundedInv, committed
<1>6. ASSUME NEW r \in Workers, Commit(r)
      PROVE  FundedInv'
  <2>1. deal'.funded = Column(view[r].deal.funded, draft[r].deal.funded,
                              deal.funded)
    BY <1>6 DEF Commit, WrittenDeal
  <2>2. deal'.funded <= Total
    BY <2>1 DEF FundedInv, Column
  <2> QED BY <1>6, <2>2, EndFunded DEF Commit
<1>7. ASSUME NEW r \in Workers, Refuse(r) \/ Abort(r)
      PROVE  FundedInv'
  <2>1. EndSession(r) /\ deal' = deal
    BY <1>7 DEF Refuse, Abort, committed
  <2> QED BY <2>1, EndFunded DEF FundedInv
<1> QED BY <1>1, <1>3, <1>4, <1>5, <1>6, <1>7 DEF Next, Loads

(* The recorded funding never exceeds the total: for any number of         *)
(* sessions, any confirmed payments, any retries and any interleaving.     *)
THEOREM FundingCeiling == Spec => []FundedWithinTotal
<1>1. Init => Typed /\ FundedInv
  <2>1. Init => FundedInv
    BY DealAssumption DEF Init, FundedInv, NoView, NoDraft, NewDeal
  <2> QED BY <2>1, InitTyped
<1>2. Typed /\ FundedInv /\ [Next]_vars => (Typed /\ FundedInv)'
  BY NextTyped, NextFunded
<1>3. FundedInv => FundedWithinTotal
  BY DEF FundedInv, FundedWithinTotal
<1> QED BY <1>1, <1>2, <1>3, PTL DEF Spec

---------------------------------------------------------------------------
(* The isolation of columns                                                *)

LEMMA EffectsOnReleased ==
  ASSUME NEW d \in DealRow
  PROVE  /\ AfterRegister(d).released = d.released
         /\ \A everyone : AfterAccept(d, everyone).released = d.released
         /\ \A n : AfterFunding(d, Total, Bps, n).released = d.released
         /\ AfterSubmit(d).released = d.released
         /\ AfterApprove(d).released = d.released
         /\ \A n : AfterDispute(d, n).released = d.released
         /\ \A target : AfterTransition(d, target).released = d.released
BY DEF DealRow, AfterRegister, AfterAccept, AfterFunding, AfterSubmit,
       AfterApprove, AfterDispute, AfterTransition

LEMMA EffectsOnDisputed ==
  ASSUME NEW d \in DealRow
  PROVE  /\ AfterRegister(d).disputed = d.disputed
         /\ \A everyone : AfterAccept(d, everyone).disputed = d.disputed
         /\ \A n : AfterFunding(d, Total, Bps, n).disputed = d.disputed
         /\ AfterSubmit(d).disputed = d.disputed
         /\ AfterApprove(d).disputed = d.disputed
         /\ \A n : AfterRelease(d, Total, n).disputed = d.disputed
         /\ \A target : AfterTransition(d, target).disputed = d.disputed
BY DEF DealRow, AfterRegister, AfterAccept, AfterFunding, AfterSubmit,
       AfterApprove, AfterRelease, AfterTransition

(* What the draft n of a request about job j differs in from the loaded    *)
(* rows v is what that event is about.                                     *)
OwnColumns(v, n, j) ==
  /\ n.deal.funded # v.deal.funded => j.name = "DealFunded"
  /\ n.deal.released # v.deal.released => j.name = "MilestoneReleased"
  /\ n.deal.disputed # v.deal.disputed => j.name = "DisputeOpened"
  /\ \A m \in Milestones :
       n.milestone[m] # v.milestone[m] =>
         j.name \in MilestoneNames /\ j.milestone = m

(* It is so of everything flushed: by the handler that flushed it, and     *)
(* because a session loads nothing afterwards.                             *)
IsolatedInv ==
  \A r \in Workers : pc[r] = "flushed" => OwnColumns(view[r], draft[r], job[r])

(* A milestone handler assigns the row of its own milestone.               *)
LEMMA MarkedAlone ==
  ASSUME Typed, NEW r \in Workers, NEW status, NEW released,
         NEW m \in Milestones,
         WithMilestone(r, status, released)[m] # view[r].milestone[m]
  PROVE  job[r].milestone = m
BY DEF WithMilestone, Typed, TypeOK, View

LEMMA HandlersIsolated ==
  ASSUME Typed, NEW r \in Workers, Handle(r)
  PROVE  OwnColumns(view[r], draft'[r], job[r])
<1> DEFINE d == view[r].deal
<1>1. d \in DealRow
  BY DEF Typed, TypeOK, View
<1>2. CASE RegisterOnchain(r)
  BY <1>1, <1>2, HandlerDrafts, EffectsOnFunded, EffectsOnReleased,
     EffectsOnDisputed
  DEF Drafted, OwnColumns
<1>3. CASE AcceptAgreement(r)
  BY <1>1, <1>3, HandlerDrafts, EffectsOnFunded, EffectsOnReleased,
     EffectsOnDisputed
  DEF Drafted, OwnColumns
<1>4. CASE RecordFunding(r)
  BY <1>1, <1>4, HandlerDrafts, EffectsOnReleased, EffectsOnDisputed
  DEF Drafted, OwnColumns, RecordFunding, Verified
<1>5. CASE SubmitMilestone(r)
  BY <1>1, <1>5, HandlerDrafts, MarkedAlone, EffectsOnFunded,
     EffectsOnReleased, EffectsOnDisputed
  DEF Drafted, OwnColumns, SubmitMilestone, Verified, MilestoneNames
<1>6. CASE ApproveMilestone(r)
  BY <1>1, <1>6, HandlerDrafts, MarkedAlone, EffectsOnFunded,
     EffectsOnReleased, EffectsOnDisputed
  DEF Drafted, OwnColumns, ApproveMilestone, Verified, MilestoneNames
<1>7. CASE ReleaseMilestone(r)
  BY <1>1, <1>7, HandlerDrafts, MarkedAlone, EffectsOnFunded,
     EffectsOnDisputed
  DEF Drafted, OwnColumns, ReleaseMilestone, Verified, MilestoneNames
<1>8. CASE OpenDispute(r)
  <2>1. /\ draft'[r].deal = AfterDispute(d, Amount[job[r].milestone])
        /\ draft'[r].milestone = WithMilestone(r, "DISPUTED", LoadedReleased(r))
    BY <1>8, HandlerDrafts DEF Drafted
  <2>2. job[r].name = "DisputeOpened"
    BY <1>8 DEF OpenDispute, Verified
  <2>3. draft'[r].deal.funded = d.funded /\ draft'[r].deal.released = d.released
    BY <1>1, <2>1, EffectsOnFunded, EffectsOnReleased
  <2> QED BY <2>1, <2>2, <2>3, MarkedAlone DEF OwnColumns, MilestoneNames
<1>9. CASE ChangeStatus(r)
  BY <1>1, <1>9, HandlerDrafts, EffectsOnFunded, EffectsOnReleased,
     EffectsOnDisputed
  DEF Drafted, OwnColumns
<1> QED BY <1>2, <1>3, <1>4, <1>5, <1>6, <1>7, <1>8, <1>9 DEF Handle

LEMMA NextIsolated == Typed /\ IsolatedInv /\ [Next]_vars => IsolatedInv'
<1> SUFFICES ASSUME Typed, IsolatedInv, [Next]_vars PROVE IsolatedInv'
  OBVIOUS
<1>1. CASE UNCHANGED vars
  BY <1>1 DEF vars, sessions, IsolatedInv
<1>2. ASSUME NEW r \in Workers, Loads(r) \/ LoadDeal(r)
      PROVE  IsolatedInv'
  <2>1. /\ pc'[r] # "flushed"
        /\ \A q \in Workers \ {r} : /\ pc'[q] = pc[q] /\ job'[q] = job[q]
                                    /\ view'[q] = view[q]
                                    /\ draft'[q] = draft[q]
    BY <1>2, LoadFrame, LoadDealStep DEF Typed, TypeOK
  <2> QED BY <2>1 DEF IsolatedInv
<1>3. ASSUME NEW r \in Workers, Handle(r)
      PROVE  IsolatedInv'
  <2>1. OwnColumns(view[r], draft'[r], job[r])
    BY <1>3, HandlersIsolated
  <2>2. /\ job' = job /\ view' = view
        /\ \A q \in Workers \ {r} : pc'[q] = pc[q] /\ draft'[q] = draft[q]
    BY <1>3, HandlerFrame DEF Typed, TypeOK
  <2> QED BY <2>1, <2>2 DEF IsolatedInv
<1>4. ASSUME NEW r \in Workers, Commit(r) \/ Refuse(r) \/ Abort(r)
      PROVE  IsolatedInv'
  <2>1. EndSession(r)
    BY <1>4 DEF Commit, Refuse, Abort
  <2>2. /\ pc'[r] # "flushed"
        /\ \A q \in Workers \ {r} : /\ pc'[q] = pc[q] /\ job'[q] = job[q]
                                    /\ view'[q] = view[q]
                                    /\ draft'[q] = draft[q]
    BY <2>1 DEF EndSession, Typed, TypeOK
  <2> QED BY <2>2 DEF IsolatedInv
<1>5. ASSUME NEW r \in Workers, Invite(r) \/ Join(r)
      PROVE  IsolatedInv'
  <2>1. PICK row \in InvitationRows(view[r].deal) : Appended(r, row)
    BY <1>5, InvitationStep
  <2>2. /\ row.funded = view[r].deal.funded
        /\ row.released = view[r].deal.released
        /\ row.disputed = view[r].deal.disputed
    BY EffectsOfInvitations DEF Typed, TypeOK, View
  <2>3. OwnColumns(view[r], draft'[r], job[r])
    BY <2>1, <2>2 DEF Appended, OwnColumns
  <2>4. /\ job' = job /\ view' = view
        /\ \A q \in Workers \ {r} : pc'[q] = pc[q] /\ draft'[q] = draft[q]
    BY <2>1 DEF Appended, Typed, TypeOK
  <2> QED BY <2>3, <2>4 DEF IsolatedInv
<1> QED BY <1>1, <1>2, <1>3, <1>4, <1>5 DEF Next, Loads

(* A column is written when the handler changed it.                        *)
LEMMA CommitsOwnColumns ==
  ASSUME Typed, NEW r \in Workers, Commit(r),
         OwnColumns(view[r], draft[r], job[r])
  PROVE  /\ deal'.funded # deal.funded => job[r].name = "DealFunded"
         /\ deal'.released # deal.released => job[r].name = "MilestoneReleased"
         /\ deal'.disputed # deal.disputed => job[r].name = "DisputeOpened"
         /\ \A m \in Milestones :
              milestone'[m] # milestone[m] =>
                job[r].name \in MilestoneNames /\ job[r].milestone = m
<1>1. deal' = WrittenDeal(view[r].deal, draft[r].deal, deal)
  BY DEF Commit
<1>2. ASSUME NEW m \in Milestones, draft[r].milestone[m] = view[r].milestone[m]
      PROVE  milestone'[m] = milestone[m]
  <2>1. milestone'[m] = WrittenMilestone(view[r].milestone[m],
                                         draft[r].milestone[m], milestone[m])
    BY DEF Commit
  <2>2. milestone[m] \in MilestoneRow
    BY DEF Typed, TypeOK
  <2> QED BY <1>2, <2>1, <2>2 DEF WrittenMilestone, Column, MilestoneRow
<1> QED BY <1>1, <1>2 DEF OwnColumns, WrittenDeal, Column

(* No commit writes back a money column or a milestone its own handler did *)
(* not change, whatever the other sessions committed since it loaded the   *)
(* rows: the deal row is written column by column.                         *)
THEOREM CommitsAreIsolated == Spec => ColumnsIsolated
<1>1. Init => Typed /\ IsolatedInv
  <2>1. Init => IsolatedInv
    BY DEF Init, IsolatedInv
  <2> QED BY <2>1, InitTyped
<1>2. Typed /\ IsolatedInv /\ [Next]_vars => (Typed /\ IsolatedInv)'
  BY NextTyped, NextIsolated
<1>3. Typed /\ IsolatedInv =>
        \A r \in Workers :
          Commit(r) =>
            /\ deal'.funded # deal.funded => job[r].name = "DealFunded"
            /\ deal'.released # deal.released =>
                 job[r].name = "MilestoneReleased"
            /\ deal'.disputed # deal.disputed => job[r].name = "DisputeOpened"
            /\ \A m \in Milestones :
                 milestone'[m] # milestone[m] =>
                   job[r].name \in MilestoneNames /\ job[r].milestone = m
  <2> SUFFICES ASSUME Typed, IsolatedInv, NEW r \in Workers, Commit(r)
               PROVE  /\ deal'.funded # deal.funded => job[r].name = "DealFunded"
                      /\ deal'.released # deal.released =>
                           job[r].name = "MilestoneReleased"
                      /\ deal'.disputed # deal.disputed =>
                           job[r].name = "DisputeOpened"
                      /\ \A m \in Milestones :
                           milestone'[m] # milestone[m] =>
                             job[r].name \in MilestoneNames /\ job[r].milestone = m
    OBVIOUS
  <2>1. pc[r] = "flushed"
    BY DEF Commit
  <2> QED BY <2>1, CommitsOwnColumns DEF IsolatedInv
<1> QED BY <1>1, <1>2, <1>3, PTL DEF Spec, ColumnsIsolated

---------------------------------------------------------------------------
(* The evidence of a deal forks only at an item linked without the lock.   *)
(*                                                                         *)
(* That locked items link to distinct predecessors is not inductive.  What *)
(* is: those committed are linked in the order of their instants, and the  *)
(* locked item a session has flushed and not committed lies after all of   *)
(* them.  Only the holder of the lock has such an item, so no other locked *)
(* item is committed before its own; unlocked ones may be.                 *)

(* x is a possible item beside those of E.                                 *)
Linked(x, E) ==
  /\ x.at <= clock
  /\ x.prev < x.at
  /\ x.prev = 0 \/ \E y \in E : y.at = x.prev

(* The committed items: the locked ones in the order of their instants.    *)
ChainInv ==
  /\ \A x \in evidence : Linked(x, evidence)
  /\ \A x, y \in evidence : x.at = y.at => x = y
  /\ \A x, y \in evidence : x.locked /\ y.locked /\ x.at < y.at => x.at <= y.prev
  /\ database = "SQLite" => \A x \in evidence : x.locked

(* An item that r has flushed.                                             *)
Pending(r, x) ==
  /\ Linked(x, evidence)
  /\ \A y \in evidence : y.at # x.at
  /\ x.locked => lock = r /\ \A y \in evidence : y.locked => y.at <= x.prev
  /\ database = "SQLite" => x.locked

(* One at most, stamped when no other was.                                 *)
PendingInv ==
  /\ \A r \in Workers :
       /\ \A x \in draft[r].items : Pending(r, x)
       /\ \A x, y \in draft[r].items : x = y
  /\ \A r, q \in Workers :
       r # q => \A x \in draft[r].items, y \in draft[q].items : x.at # y.at

EvidenceInv == ChainInv /\ PendingInv

(* The order of the locked instants is the chain the property asks for.    *)
LEMMA ChainIsOne ==
  ASSUME TypeOK, ChainInv
  PROVE  EvidenceChained
<1>1. ASSUME NEW x \in evidence, NEW y \in evidence, x.locked, y.locked,
             x.prev = y.prev
      PROVE  x = y
  <2>1. /\ x.at \in Nat /\ x.prev \in Nat /\ x.prev < x.at
        /\ y.at \in Nat /\ y.prev \in Nat /\ y.prev < y.at
    BY DEF TypeOK, EvidenceItem, ChainInv, Linked
  <2>2. CASE x.at < y.at
    BY <1>1, <2>1, <2>2 DEF ChainInv
  <2>3. CASE y.at < x.at
    BY <1>1, <2>1, <2>3 DEF ChainInv
  <2>4. CASE x.at = y.at
    BY <2>4 DEF ChainInv
  <2> QED BY <2>1, <2>2, <2>3, <2>4
<1>2. FollowEarlier(evidence)
  BY DEF FollowEarlier, ChainInv, Linked
<1>3. Unforked({x \in evidence : x.locked})
  BY <1>1 DEF Unforked
<1>4. database = "SQLite" => Unforked(evidence)
  BY <1>1 DEF Unforked, ChainInv
<1> QED BY <1>2, <1>3, <1>4 DEF EvidenceChained

LEMMA InitEvidence == Init => EvidenceInv
BY DEF Init, EvidenceInv, ChainInv, PendingInv, NoDraft

(* A session that ends without a commit takes its pending item with it.    *)
LEMMA RollbackEvidence ==
  ASSUME Typed, EvidenceInv, NEW r \in Workers, EndSession(r),
         UNCHANGED <<committed, clock>>
  PROVE  EvidenceInv'
<1>1. ChainInv'
  BY DEF EvidenceInv, ChainInv, Linked, committed
<1>2. draft'[r].items = {} /\ \A q \in Workers : q # r => draft'[q] = draft[q]
  BY DEF EndSession, NoDraft, Typed, TypeOK
<1>3. \A q \in Workers : q # r => (lock = q => lock' = q)
  BY DEF EndSession
<1>4. ASSUME NEW q \in Workers, NEW x \in draft'[q].items
      PROVE  Pending(q, x)'
  BY <1>2, <1>3, <1>4 DEF EvidenceInv, PendingInv, Pending, Linked, committed
<1>5. PendingInv'
  BY <1>2, <1>4 DEF EvidenceInv, PendingInv
<1> QED BY <1>1, <1>5 DEF EvidenceInv

(* A session flushes an item or none, with the lock or beside it.          *)
LEMMA FlushEvidence ==
  ASSUME Typed, EvidenceInv, NEW r \in Workers, UNCHANGED committed,
         \A q \in Workers : q # r => draft'[q] = draft[q],
         lock' = lock \/ (lock' = r /\ lock \in {None, r}),
         \/ draft'[r].items = {} /\ clock' = clock
         \/ \E locked \in BOOLEAN :
              /\ LinkedWith(r, locked)
              /\ locked => lock' = r
              /\ database = "SQLite" => locked
  PROVE  EvidenceInv'
<1>1. /\ clock \in Nat
      /\ clock' \in Nat
      /\ clock <= clock'
      /\ \A y \in evidence : y.at \in Nat /\ y.at <= clock
  BY DEF LinkedWith, Typed, TypeOK, EvidenceItem, EvidenceInv, ChainInv, Linked
<1>2. ASSUME NEW q \in Workers, NEW x \in draft[q].items
      PROVE  x.at \in Nat /\ x.at <= clock
  BY <1>2 DEF EvidenceInv, PendingInv, Pending, Linked, Typed, TypeOK, Draft,
              EvidenceItem
<1>3. ChainInv'
  BY <1>1 DEF EvidenceInv, ChainInv, Linked, committed
<1>4. ASSUME NEW q \in Workers, q # r, NEW x \in draft[q].items
      PROVE  Pending(q, x)'
  <2>1. Pending(q, x)
    BY <1>4 DEF EvidenceInv, PendingInv
  <2>2. lock = q => lock' = q
    BY <1>4, EnvironmentAssumption
  <2> QED BY <1>1, <1>2, <1>4, <2>1, <2>2 DEF Pending, Linked, committed
<1>5. CASE draft'[r].items = {} /\ clock' = clock
  BY <1>3, <1>4, <1>5 DEF EvidenceInv, PendingInv
<1>6. CASE \E locked \in BOOLEAN :
             /\ LinkedWith(r, locked)
             /\ locked => lock' = r
             /\ database = "SQLite" => locked
  <2>1. PICK locked \in BOOLEAN :
          /\ LinkedWith(r, locked)
          /\ locked => lock' = r
          /\ database = "SQLite" => locked
    BY <1>6
  <2>2. PICK latest \in LatestInstants(evidence) :
          /\ clock' = clock + 1
          /\ draft'[r].items =
               {[at |-> clock + 1, prev |-> latest, event |-> job[r],
                 locked |-> locked]}
    BY <2>1 DEF LinkedWith
  <2>3. /\ latest \in Nat
        /\ latest <= clock
        /\ \A y \in evidence : y.at <= latest
        /\ latest = 0 \/ \E y \in evidence : y.at = latest
    BY <1>1 DEF LatestInstants, Instants
  <2>4. ASSUME NEW x \in draft'[r].items
        PROVE  Pending(r, x)' /\ x.at = clock + 1
    <3>1. /\ x.at = clock + 1
          /\ x.prev = latest
          /\ x.locked = locked
      BY <2>2, <2>4
    <3>2. Linked(x, evidence)'
      BY <1>1, <2>2, <2>3, <3>1 DEF Linked, committed
    <3>3. \A y \in evidence : y.at # x.at /\ y.at <= x.prev
      BY <1>1, <2>3, <3>1
    <3> QED BY <2>1, <3>1, <3>2, <3>3 DEF Pending, committed
  <2>5. \A q \in Workers : q # r =>
          \A x \in draft'[r].items, y \in draft'[q].items :
            x.at # y.at /\ y.at # x.at
    BY <1>1, <1>2, <2>4
  <2>6. \A x, y \in draft'[r].items : x = y
    BY <2>2
  <2>7. PendingInv'
    <3>1. \A q \in Workers :
            /\ \A x \in draft'[q].items : Pending(q, x)'
            /\ \A x, y \in draft'[q].items : x = y
      BY <1>4, <2>4, <2>6 DEF EvidenceInv, PendingInv
    <3>2. \A p, q \in Workers :
            p # q => \A x \in draft'[p].items, y \in draft'[q].items : x.at # y.at
      BY <2>5 DEF EvidenceInv, PendingInv
    <3> QED BY <3>1, <3>2 DEF PendingInv
  <2> QED BY <1>3, <2>7 DEF EvidenceInv
<1> QED BY <1>5, <1>6

LEMMA CommitEvidence ==
  ASSUME Typed, EvidenceInv, NEW r \in Workers, Commit(r)
  PROVE  EvidenceInv'
<1>1. /\ evidence' = evidence \cup draft[r].items
      /\ clock' = clock
      /\ database' = database
      /\ EndSession(r)
  BY DEF Commit
<1>2. /\ draft'[r].items = {}
      /\ \A q \in Workers : q # r => draft'[q] = draft[q]
      /\ \A q \in Workers : q # r => (lock = q => lock' = q)
  BY <1>1 DEF EndSession, NoDraft, Typed, TypeOK
<1>3. /\ \A x \in evidence \cup draft[r].items : x.at \in Nat /\ x.prev \in Nat
      /\ clock \in Nat
  BY DEF Typed, TypeOK, Draft, EvidenceItem
<1>4. ASSUME NEW x \in draft[r].items
      PROVE  Pending(r, x) /\ \A y \in draft[r].items : x = y
  BY DEF EvidenceInv, PendingInv
<1>5. ChainInv'
  <2>1. ASSUME NEW x \in evidence'
        PROVE  Linked(x, evidence)'
    <3>1. Linked(x, evidence)
      BY <1>1, <1>4, <2>1 DEF EvidenceInv, ChainInv, Pending
    <3> QED BY <1>1, <3>1 DEF Linked
  <2>2. ASSUME NEW x \in evidence', NEW y \in evidence'
        PROVE  /\ x.at = y.at => x = y
               /\ x.locked /\ y.locked /\ x.at < y.at => x.at <= y.prev
    <3>1. CASE x \in evidence /\ y \in evidence
      BY <3>1 DEF EvidenceInv, ChainInv
    <3>2. CASE x \in evidence /\ y \in draft[r].items
      BY <1>3, <1>4, <3>2 DEF Pending, Linked
    <3>3. CASE x \in draft[r].items /\ y \in evidence
      BY <1>3, <1>4, <3>3 DEF Pending, Linked
    <3>4. CASE x \in draft[r].items /\ y \in draft[r].items
      BY <1>3, <1>4, <3>4
    <3> QED BY <1>1, <2>2, <3>1, <3>2, <3>3, <3>4
  <2>3. database' = "SQLite" => \A x \in evidence' : x.locked
    BY <1>1, <1>4 DEF EvidenceInv, ChainInv, Pending
  <2> QED BY <2>1, <2>2, <2>3 DEF ChainInv
<1>6. ASSUME NEW q \in Workers, q # r, NEW x \in draft[q].items
      PROVE  Pending(q, x)'
  <2>1. /\ Pending(q, x)
        /\ \A y \in draft[r].items : y.at # x.at
    BY <1>6 DEF EvidenceInv, PendingInv
  <2>2. ASSUME x.locked, NEW y \in draft[r].items
        PROVE  ~y.locked
    BY <1>4, <1>6, <2>1, <2>2 DEF Pending
  <2>3. Linked(x, evidence)'
    BY <1>1, <2>1 DEF Pending, Linked
  <2> QED BY <1>1, <1>2, <1>6, <2>1, <2>2, <2>3 DEF Pending
<1>7. PendingInv'
  BY <1>2, <1>6 DEF EvidenceInv, PendingInv
<1> QED BY <1>5, <1>7 DEF EvidenceInv

LEMMA NextEvidence == Typed /\ EvidenceInv /\ [Next]_vars => EvidenceInv'
<1> SUFFICES ASSUME Typed, EvidenceInv, [Next]_vars PROVE EvidenceInv'
  OBVIOUS
<1>1. ASSUME UNCHANGED <<committed, clock, lock, draft>>
      PROVE  EvidenceInv'
  BY <1>1 DEF committed, EvidenceInv, ChainInv, PendingInv, Pending, Linked
<1>2. CASE UNCHANGED vars
  BY <1>1, <1>2 DEF vars, sessions
<1>3. ASSUME NEW r \in Workers, Loads(r)
      PROVE  EvidenceInv'
  BY <1>1, <1>3, LoadFrame
<1>4. ASSUME NEW r \in Workers, LoadDeal(r)
      PROVE  EvidenceInv'
  BY <1>4, LoadDealStep, FlushEvidence
<1>5. ASSUME NEW r \in Workers, Handle(r)
      PROVE  EvidenceInv'
  <2>1. \/ LinkedWith(r, TRUE)
        \/ draft'[r].items = {} /\ clock' = clock
    <3>1. LinkedItem(r) \/ (draft'[r].items = {} /\ clock' = clock)
      BY <1>5, HandlerDrafts DEF Handle
    <3> QED BY <3>1 DEF LinkedItem
  <2>2. /\ UNCHANGED committed
        /\ lock = None /\ lock' = r
        /\ \A q \in Workers : q # r => draft'[q] = draft[q]
    BY <1>5, HandlerFrame
  <2> QED BY <2>1, <2>2, FlushEvidence
<1>6. ASSUME NEW r \in Workers, Invite(r) \/ Join(r)
      PROVE  EvidenceInv'
  <2>1. PICK row \in InvitationRows(view[r].deal) : Appended(r, row)
    BY <1>6, InvitationStep
  <2> DEFINE locked == lock' = r
  <2>2. LinkedWith(r, locked) /\ locked \in BOOLEAN
    BY <2>1 DEF Appended
  <2>3. /\ locked => lock' = r
        /\ database = "SQLite" => locked
    BY <2>1 DEF Appended
  <2>4. /\ UNCHANGED committed
        /\ \A q \in Workers : q # r => draft'[q] = draft[q]
        /\ lock' = lock \/ (lock' = r /\ lock \in {None, r})
    BY <2>1 DEF Appended
  <2> HIDE DEF locked
  <2> QED BY <2>2, <2>3, <2>4, FlushEvidence
<1>7. ASSUME NEW r \in Workers, Commit(r)
      PROVE  EvidenceInv'
  BY <1>7, CommitEvidence
<1>8. ASSUME NEW r \in Workers, Refuse(r) \/ Abort(r)
      PROVE  EvidenceInv'
  BY <1>8, RollbackEvidence DEF Refuse, Abort
<1> QED BY <1>2, <1>3, <1>4, <1>5, <1>6, <1>7, <1>8 DEF Next, Loads

(* However many requests append to the evidence of a deal at once, repeat, *)
(* fail or crash: every item follows an earlier one, no two that were      *)
(* linked under the lock of the deal's row follow the same one, and on     *)
(* SQLite it is one chain.                                                 *)
THEOREM EvidenceForksOnlyUnlocked == Spec => []EvidenceChained
<1>1. Init => Typed /\ EvidenceInv
  BY InitTyped, InitEvidence
<1>2. Typed /\ EvidenceInv /\ [Next]_vars => (Typed /\ EvidenceInv)'
  BY NextTyped, NextEvidence
<1>3. Typed /\ EvidenceInv => EvidenceChained
  BY ChainIsOne DEF Typed, EvidenceInv
<1> QED BY <1>1, <1>2, <1>3, PTL DEF Spec

---------------------------------------------------------------------------
(* Whatever a deal records as done on chain has its event stored.          *)
(*                                                                         *)
(* The committed rows alone are not an inductive invariant: a session may  *)
(* hold rows it loaded long ago, and its commit writes columns it computed *)
(* from them.  The invariant covers those copies too: what a session has   *)
(* loaded is backed by the stored events (which only grow), and what it    *)
(* has flushed is backed by those and the event of its own request, which  *)
(* the same commit stores.                                                 *)

(* The events that will be stored once r commits.                          *)
WithOwn(r) == events \cup ({job[r]} \cap Chain)

ViewBacked ==
  \A r \in Workers :
    /\ DealBackedBy(view[r].deal, events)
    /\ \A m \in Milestones : MilestoneBackedBy(m, view[r].milestone[m], events)

DraftBackedBy(r, E) ==
  /\ DealBackedBy(draft[r].deal, E)
  /\ \A p \in draft[r].accepted : PartyBackedBy(p, E)
  /\ \A m \in Milestones : MilestoneBackedBy(m, draft[r].milestone[m], E)
  /\ \A m \in draft[r].disputed : HoldsFor(E, "DisputeOpened", m)
  /\ \A x \in draft[r].items : x.event \in Chain => x.event \in E

DraftBacked == \A r \in Workers : DraftBackedBy(r, WithOwn(r))

BackedInv == ChainBacked /\ ViewBacked /\ DraftBacked

---------------------------------------------------------------------------
(* Events are never deleted, so what they back stays backed.               *)
LEMMA Monotone ==
  ASSUME NEW E, NEW F, E \subseteq F
  PROVE  /\ \A d : DealBackedBy(d, E) => DealBackedBy(d, F)
         /\ \A m, row : MilestoneBackedBy(m, row, E) => MilestoneBackedBy(m, row, F)
         /\ \A p : PartyBackedBy(p, E) => PartyBackedBy(p, F)
         /\ \A m : HoldsFor(E, "DisputeOpened", m) => HoldsFor(F, "DisputeOpened", m)
<1>1. \A name : Holds(E, name) => Holds(F, name)
  BY DEF Holds
<1>2. \A name, m : HoldsFor(E, name, m) => HoldsFor(F, name, m)
  BY DEF HoldsFor
<1>3. \A d : DealBackedBy(d, E) => DealBackedBy(d, F)
  BY <1>1 DEF DealBackedBy
<1>4. \A m, row : MilestoneBackedBy(m, row, E) => MilestoneBackedBy(m, row, F)
  BY <1>2 DEF MilestoneBackedBy
<1>5. \A p : PartyBackedBy(p, E) => PartyBackedBy(p, F)
  BY DEF PartyBackedBy
<1> QED BY <1>2, <1>3, <1>4, <1>5

(* The empty rows claim nothing.                                           *)
LEMMA NothingClaimed ==
  ASSUME NEW E
  PROVE  /\ DealBackedBy(NewDeal, E)
         /\ \A m \in Milestones : MilestoneBackedBy(m, NewMilestones[m], E)
BY DEF NewDeal, NewMilestones, DealBackedBy, MilestoneBackedBy

(* An UPDATE takes each column from one of two backed rows.                *)
LEMMA WrittenAreBacked ==
  ASSUME NEW E, NEW old, NEW new, NEW cur
  PROVE  /\ DealBackedBy(new, E) /\ DealBackedBy(cur, E) =>
              DealBackedBy(WrittenDeal(old, new, cur), E)
         /\ \A m : MilestoneBackedBy(m, new, E) /\ MilestoneBackedBy(m, cur, E) =>
              MilestoneBackedBy(m, WrittenMilestone(old, new, cur), E)
BY DEF DealBackedBy, MilestoneBackedBy, WrittenDeal, WrittenMilestone, Column

(* What each handler claims of the deal beyond what it loaded.             *)
LEMMA EffectsOnClaims ==
  ASSUME NEW d \in DealRow, NEW E, DealBackedBy(d, E)
  PROVE  /\ Holds(E, "DealRegistered") => DealBackedBy(AfterRegister(d), E)
         /\ \A everyone : DealBackedBy(AfterAccept(d, everyone), E)
         /\ Holds(E, "DealFunded") =>
              \A n : DealBackedBy(AfterFunding(d, Total, Bps, n), E)
         /\ DealBackedBy(AfterSubmit(d), E)
         /\ DealBackedBy(AfterApprove(d), E)
         /\ Holds(E, "MilestoneReleased") =>
              \A n : DealBackedBy(AfterRelease(d, Total, n), E)
         /\ Holds(E, "DisputeOpened") =>
              \A n : DealBackedBy(AfterDispute(d, n), E)
         /\ \A target : DealBackedBy(AfterTransition(d, target), E)
<1> USE DEF DealRow, DealBackedBy
<1>1. Holds(E, "DealRegistered") => DealBackedBy(AfterRegister(d), E)
  BY DEF AfterRegister
<1>2. \A everyone : DealBackedBy(AfterAccept(d, everyone), E)
  BY DEF AfterAccept
<1>3. Holds(E, "DealFunded") =>
        \A n : DealBackedBy(AfterFunding(d, Total, Bps, n), E)
  BY DEF AfterFunding
<1>4. DealBackedBy(AfterSubmit(d), E)
  BY DEF AfterSubmit
<1>5. DealBackedBy(AfterApprove(d), E)
  BY DEF AfterApprove
<1>6. Holds(E, "MilestoneReleased") =>
        \A n : DealBackedBy(AfterRelease(d, Total, n), E)
  BY DEF AfterRelease
<1>7. Holds(E, "DisputeOpened") =>
        \A n : DealBackedBy(AfterDispute(d, n), E)
  BY DEF AfterDispute
<1>8. \A target : DealBackedBy(AfterTransition(d, target), E)
  BY DEF AfterTransition
<1> QED BY <1>1, <1>2, <1>3, <1>4, <1>5, <1>6, <1>7, <1>8

(* What a milestone handler claims of its milestone.                       *)
LEMMA MarkedAreBacked ==
  ASSUME Typed, NEW r \in Workers, NEW E,
         \A m \in Milestones : MilestoneBackedBy(m, view[r].milestone[m], E),
         NEW k, k = job[r].milestone, k \in Milestones,
         NEW status, NEW released,
         MilestoneBackedBy(k, [status |-> status, released |-> released], E)
  PROVE  \A m \in Milestones :
           MilestoneBackedBy(m, WithMilestone(r, status, released)[m], E)
BY DEF WithMilestone, Typed, TypeOK, View

---------------------------------------------------------------------------
LEMMA HandleBacked ==
  ASSUME Typed, BackedInv, NEW r \in Workers, Handle(r)
  PROVE  DraftBackedBy(r, WithOwn(r))'
<1> DEFINE E == WithOwn(r)
           d == view[r].deal
           k == job[r].milestone
           name == job[r].name
           DraftOK(row, signed, rows, disputed) ==
             /\ DealBackedBy(row, E)
             /\ \A p \in signed : PartyBackedBy(p, E)
             /\ \A m \in Milestones : MilestoneBackedBy(m, rows[m], E)
             /\ \A m \in disputed : HoldsFor(E, "DisputeOpened", m)
<1>1. WithOwn(r)' = E
  BY HandlerFrame DEF WithOwn, committed
<1>2. /\ d \in DealRow
      /\ DealBackedBy(d, E)
      /\ \A m \in Milestones : MilestoneBackedBy(m, view[r].milestone[m], E)
  <2>1. events \subseteq E
    BY DEF WithOwn
  <2> QED BY <2>1, Monotone DEF BackedInv, ViewBacked, Typed, TypeOK, View
<1>3. ASSUME NEW N \in ChainNames, Verified(r, N)
      PROVE  /\ job[r] \in Chain
             /\ job[r] \in E
             /\ Holds(E, N)
             /\ N \in MilestoneNames => k \in Milestones /\ HoldsFor(E, N, k)
  <2>1. pc[r] = "verified" /\ name = N
    BY <1>3 DEF Verified
  <2>2. job[r] \in Chain
    BY <2>1, ChainTypes DEF Typed, AtWork
  <2>3. job[r] \in E
    BY <2>2 DEF WithOwn
  <2> QED BY <2>1, <2>2, <2>3, ChainTypes DEF Holds, HoldsFor
<1>4. ASSUME NEW row, NEW signed, NEW rows, NEW disputed,
             Drafted(r, row, signed, rows, disputed),
             DraftOK(row, signed, rows, disputed),
             \/ LinkedItem(r) /\ job[r] \in E
             \/ draft'[r].items = {}
      PROVE  DraftBackedBy(r, WithOwn(r))'
  <2>1. \A x \in draft'[r].items : x.event \in Chain => x.event \in E
    BY <1>4 DEF LinkedItem, LinkedWith
  <2> QED BY <1>1, <1>4, <2>1 DEF DraftBackedBy, Drafted
<1>5. CASE RegisterOnchain(r)
  <2>1. job[r] \in E /\ Holds(E, "DealRegistered")
    BY <1>3, <1>5 DEF RegisterOnchain, ChainNames
  <2>2. DraftOK(AfterRegister(d), {}, view[r].milestone, {})
    BY <1>2, <2>1, EffectsOnClaims
  <2> QED BY <1>4, <1>5, <2>1, <2>2, HandlerDrafts
<1>6. CASE AcceptAgreement(r)
  <2>1. job[r] \in E /\ name = "PartyAccepted"
    BY <1>3, <1>6 DEF AcceptAgreement, Verified, ChainNames
  <2>2. PICK p \in view[r].parties :
          /\ SentBy(p, job[r])
          /\ Drafted(r, AfterAccept(d, EveryoneAccepted(r, p)), {p},
                     view[r].milestone, {})
    BY <1>6, HandlerDrafts
  <2>3. PartyBackedBy(p, E)
    BY <2>1, <2>2 DEF PartyBackedBy
  <2>4. DraftOK(AfterAccept(d, EveryoneAccepted(r, p)), {p},
                view[r].milestone, {})
    BY <1>2, <2>3, EffectsOnClaims
  <2>5. LinkedItem(r)
    BY <1>6, HandlerDrafts
  <2> QED BY <1>4, <2>1, <2>2, <2>4, <2>5
<1>7. CASE RecordFunding(r)
  <2>1. job[r] \in E /\ Holds(E, "DealFunded")
    BY <1>3, <1>7 DEF RecordFunding, ChainNames
  <2>2. DraftOK(AfterFunding(d, Total, Bps, job[r].credited), {},
                view[r].milestone, {})
    BY <1>2, <2>1, EffectsOnClaims
  <2> QED BY <1>4, <1>7, <2>1, <2>2, HandlerDrafts
<1>8. ASSUME k \in Milestones
      PROVE  MilestoneBackedBy(k, [status |-> "PENDING",
                                   released |-> LoadedReleased(r)], E)
  BY <1>2, <1>8 DEF MilestoneBackedBy, LoadedReleased
<1>9. CASE SubmitMilestone(r)
  <2>1. /\ job[r] \in E /\ k \in Milestones
        /\ HoldsFor(E, "MilestoneSubmitted", k)
    BY <1>3, <1>9 DEF SubmitMilestone, ChainNames, MilestoneNames
  <2>2. MilestoneBackedBy(k, [status |-> "SUBMITTED",
                              released |-> LoadedReleased(r)], E)
    BY <1>8, <2>1 DEF MilestoneBackedBy
  <2>3. DraftOK(AfterSubmit(d), {},
                WithMilestone(r, "SUBMITTED", LoadedReleased(r)), {})
    BY <1>2, <2>1, <2>2, EffectsOnClaims, MarkedAreBacked
  <2> QED BY <1>4, <1>9, <2>1, <2>3, HandlerDrafts
<1>10. CASE ApproveMilestone(r)
  <2>1. k \in Milestones /\ HoldsFor(E, "MilestoneApproved", k)
    BY <1>3, <1>10 DEF ApproveMilestone, ChainNames, MilestoneNames
  <2>2. MilestoneBackedBy(k, [status |-> "APPROVED",
                              released |-> LoadedReleased(r)], E)
    BY <1>8, <2>1 DEF MilestoneBackedBy
  <2>3. DraftOK(AfterApprove(d), {},
                WithMilestone(r, "APPROVED", LoadedReleased(r)), {})
    BY <1>2, <2>1, <2>2, EffectsOnClaims, MarkedAreBacked
  <2> QED BY <1>4, <1>10, <2>3, HandlerDrafts
<1>11. CASE ReleaseMilestone(r)
  <2>1. /\ job[r] \in E /\ k \in Milestones
        /\ Holds(E, "MilestoneReleased")
        /\ HoldsFor(E, "MilestoneReleased", k)
    BY <1>3, <1>11 DEF ReleaseMilestone, ChainNames, MilestoneNames
  <2>2. MilestoneBackedBy(k, [status |-> "RELEASED", released |-> Amount[k]], E)
    BY <2>1 DEF MilestoneBackedBy
  <2>3. DraftOK(AfterRelease(d, Total, Amount[k]), {},
                WithMilestone(r, "RELEASED", Amount[k]), {})
    BY <1>2, <2>1, <2>2, EffectsOnClaims, MarkedAreBacked
  <2> QED BY <1>4, <1>11, <2>1, <2>3, HandlerDrafts
<1>12. CASE OpenDispute(r)
  <2>1. /\ k \in Milestones
        /\ Holds(E, "DisputeOpened")
        /\ HoldsFor(E, "DisputeOpened", k)
    BY <1>3, <1>12 DEF OpenDispute, ChainNames, MilestoneNames
  <2>2. MilestoneBackedBy(k, [status |-> "DISPUTED",
                              released |-> LoadedReleased(r)], E)
    BY <1>8, <2>1 DEF MilestoneBackedBy
  <2>3. DraftOK(AfterDispute(d, Amount[k]), {},
                WithMilestone(r, "DISPUTED", LoadedReleased(r)), {k})
    BY <1>2, <2>1, <2>2, EffectsOnClaims, MarkedAreBacked
  <2>4. /\ Drafted(r, AfterDispute(d, Amount[k]), {},
                   WithMilestone(r, "DISPUTED", LoadedReleased(r)), {k})
        /\ draft'[r].items = {}
    BY <1>12, HandlerDrafts
  <2> QED BY <1>4, <2>3, <2>4
<1>13. CASE ChangeStatus(r)
  <2>1. DraftOK(AfterTransition(d, job[r].target), {}, view[r].milestone, {})
    BY <1>2, EffectsOnClaims
  <2> QED BY <1>4, <1>13, <2>1, HandlerDrafts
<1> QED BY <1>5, <1>6, <1>7, <1>9, <1>10, <1>11, <1>12, <1>13 DEF Handle

---------------------------------------------------------------------------
(* The end of a session clears its copies; the others keep theirs, over at *)
(* least the same events.                                                  *)
LEMMA EndBacked ==
  ASSUME Typed, ViewBacked, DraftBacked, NEW r \in Workers, EndSession(r),
         events \subseteq events'
  PROVE  ViewBacked' /\ DraftBacked'
<1>1. /\ view'[r] = NoView /\ draft'[r] = NoDraft
      /\ \A q \in Workers : q # r => /\ view'[q] = view[q]
                                     /\ draft'[q] = draft[q]
                                     /\ job'[q] = job[q]
  BY DEF EndSession, Typed, TypeOK
<1>2. ASSUME NEW q \in Workers
      PROVE  /\ DealBackedBy(view'[q].deal, events')
             /\ \A m \in Milestones :
                  MilestoneBackedBy(m, view'[q].milestone[m], events')
  <2>1. CASE q = r
    BY <1>1, <2>1, NothingClaimed DEF NoView
  <2>2. CASE q # r
    BY <1>1, <2>2, Monotone DEF ViewBacked
  <2> QED BY <2>1, <2>2
<1>3. ASSUME NEW q \in Workers
      PROVE  DraftBackedBy(q, WithOwn(q))'
  <2>1. CASE q = r
    BY <1>1, <2>1, NothingClaimed DEF NoDraft, DraftBackedBy
  <2>2. CASE q # r
    <3>1. WithOwn(q) \subseteq WithOwn(q)'
      BY <1>1, <2>2 DEF WithOwn
    <3>2. DraftBackedBy(q, WithOwn(q))
      BY DEF DraftBacked
    <3> QED BY <1>1, <2>2, <3>1, <3>2, Monotone DEF DraftBackedBy
  <2> QED BY <2>1, <2>2
<1> QED BY <1>2, <1>3 DEF ViewBacked, DraftBacked

LEMMA CommitBacked ==
  ASSUME Typed, BackedInv, NEW r \in Workers, Commit(r)
  PROVE  BackedInv'
<1>1. events' = WithOwn(r) /\ events \subseteq events'
  BY DEF Commit, WithOwn
<1>2. ViewBacked' /\ DraftBacked'
  BY <1>1, EndBacked DEF Commit, BackedInv
<1>3. DraftBackedBy(r, events')
  BY <1>1 DEF BackedInv, DraftBacked
<1>4. DealBackedBy(deal', events')
  <2>1. DealBackedBy(deal, events') /\ DealBackedBy(draft[r].deal, events')
    BY <1>1, <1>3, Monotone DEF BackedInv, ChainBacked, DraftBackedBy
  <2> QED BY <2>1, WrittenAreBacked DEF Commit
<1>5. \A p \in accepted' : PartyBackedBy(p, events')
  BY <1>1, <1>3, Monotone DEF Commit, BackedInv, ChainBacked, DraftBackedBy
<1>6. ASSUME NEW m \in Milestones
      PROVE  /\ MilestoneBackedBy(m, milestone'[m], events')
             /\ disputes'[m] > 0 => HoldsFor(events', "DisputeOpened", m)
  <2>1. /\ MilestoneBackedBy(m, milestone[m], events')
        /\ MilestoneBackedBy(m, draft[r].milestone[m], events')
    BY <1>1, <1>3, Monotone DEF BackedInv, ChainBacked, DraftBackedBy
  <2>2. MilestoneBackedBy(m, milestone'[m], events')
    BY <2>1, WrittenAreBacked DEF Commit
  <2>3. CASE m \in draft[r].disputed
    BY <1>3, <2>2, <2>3 DEF DraftBackedBy
  <2>4. CASE m \notin draft[r].disputed
    <3>1. disputes'[m] = disputes[m]
      BY <2>4 DEF Commit, Typed, TypeOK
    <3> QED BY <1>1, <2>2, <3>1, Monotone DEF BackedInv, ChainBacked
  <2> QED BY <2>3, <2>4
<1>7. \A x \in evidence' : x.event \in Chain => x.event \in events'
  BY <1>1, <1>3 DEF Commit, BackedInv, ChainBacked, DraftBackedBy
<1> QED BY <1>2, <1>4, <1>5, <1>6, <1>7 DEF BackedInv, ChainBacked

LEMMA InitBacked == Init => BackedInv
<1> SUFFICES ASSUME Init PROVE BackedInv
  OBVIOUS
<1>1. ChainBacked
  BY NothingClaimed DEF Init, ChainBacked
<1>2. ViewBacked
  BY NothingClaimed DEF Init, ViewBacked, NoView
<1>3. DraftBacked
  BY NothingClaimed DEF Init, DraftBacked, DraftBackedBy, NoDraft
<1> QED BY <1>1, <1>2, <1>3 DEF BackedInv

(* A step that loads rows, and writes none.                                *)
LEMMA LoadBacked ==
  ASSUME Typed, BackedInv, NEW r \in Workers, UNCHANGED <<committed, draft>>,
         \A q \in Workers : q # r => view'[q] = view[q] /\ job'[q] = job[q],
         job'[r] = job[r] \/ draft[r] = NoDraft,
         view'[r].deal \in {deal, view[r].deal, NewDeal},
         view'[r].milestone \in {milestone, view[r].milestone, NewMilestones}
  PROVE  BackedInv'
<1>1. ChainBacked'
  BY DEF BackedInv, committed, ChainBacked
<1>2. ViewBacked'
  BY NothingClaimed DEF BackedInv, ViewBacked, ChainBacked, committed
<1>3. ASSUME NEW q \in Workers
      PROVE  DraftBackedBy(q, WithOwn(q))'
  <2>1. CASE q = r /\ draft[r] = NoDraft
    BY <2>1, NothingClaimed DEF NoDraft, DraftBackedBy
  <2>2. CASE job'[q] = job[q]
    BY <2>2 DEF BackedInv, DraftBacked, DraftBackedBy, WithOwn, committed
  <2> QED BY <2>1, <2>2
<1> QED BY <1>1, <1>2, <1>3 DEF BackedInv, DraftBacked

(* A session has no draft before its first write.                          *)
IdleInv ==
  \A r \in Workers : pc[r] \notin {"joined", "flushed"} => draft[r] = NoDraft

LEMMA NextIdle == Typed /\ IdleInv /\ [Next]_vars => IdleInv'
<1> SUFFICES ASSUME Typed, IdleInv, [Next]_vars PROVE IdleInv'
  OBVIOUS
<1>1. CASE UNCHANGED vars
  BY <1>1 DEF vars, sessions, IdleInv
<1>2. ASSUME NEW r \in Workers, Loads(r)
      PROVE  IdleInv'
  BY <1>2, LoadFrame DEF IdleInv
<1>3. ASSUME NEW r \in Workers, Handle(r)
      PROVE  IdleInv'
  BY <1>3, HandlerFrame DEF IdleInv, Typed, TypeOK
<1>4. ASSUME NEW r \in Workers, Commit(r) \/ Refuse(r) \/ Abort(r)
      PROVE  IdleInv'
  BY <1>4 DEF Commit, Refuse, Abort, EndSession, IdleInv, Typed, TypeOK
<1>5. ASSUME NEW r \in Workers, LoadDeal(r)
      PROVE  IdleInv'
  BY <1>5, LoadDealStep DEF IdleInv, Typed, TypeOK
<1>6. ASSUME NEW r \in Workers, Invite(r) \/ Join(r)
      PROVE  IdleInv'
  BY <1>6, InvitationStep DEF Appended, IdleInv, Typed, TypeOK
<1> QED BY <1>1, <1>2, <1>3, <1>4, <1>5, <1>6 DEF Next, Loads

LEMMA LoadDealBacked ==
  ASSUME Typed, BackedInv, NEW r \in Workers, LoadDeal(r)
  PROVE  BackedInv'
<1>1. ChainBacked'
  BY LoadDealStep DEF BackedInv, committed, ChainBacked
<1>2. ASSUME NEW q \in Workers
      PROVE  /\ DealBackedBy(view'[q].deal, events')
             /\ \A m \in Milestones :
                  MilestoneBackedBy(m, view'[q].milestone[m], events')
  BY LoadDealStep DEF BackedInv, ViewBacked, ChainBacked, committed
<1>3. WithOwn(r)' = WithOwn(r) /\ events \subseteq WithOwn(r)
  BY LoadDealStep DEF WithOwn, committed
<1>4. DraftBackedBy(r, WithOwn(r))'
  <2>1. DealBackedBy(draft'[r].deal, WithOwn(r))
    BY <1>3, Monotone, LoadDealStep DEF BackedInv, ChainBacked
  <2> QED BY <1>3, <2>1, NothingClaimed, LoadDealStep DEF DraftBackedBy
<1>5. ASSUME NEW q \in Workers, q # r
      PROVE  DraftBackedBy(q, WithOwn(q))'
  BY <1>5, LoadDealStep
  DEF BackedInv, DraftBacked, DraftBackedBy, WithOwn, committed
<1> QED BY <1>1, <1>2, <1>4, <1>5 DEF BackedInv, ViewBacked, DraftBacked

LEMMA InvitationBacked ==
  ASSUME Typed, BackedInv, NEW r \in Workers, Invite(r) \/ Join(r)
  PROVE  BackedInv'
<1>1. PICK row \in InvitationRows(view[r].deal) : Appended(r, row)
  BY InvitationStep
<1>2. /\ UNCHANGED <<committed, job, view>>
      /\ \A q \in Workers : q # r => draft'[q] = draft[q]
  BY <1>1 DEF Appended
<1>3. WithOwn(r)' = WithOwn(r) /\ events \subseteq WithOwn(r)
  BY <1>2 DEF WithOwn, committed
<1>4. /\ DealBackedBy(row, WithOwn(r))
      /\ \A m \in Milestones :
           MilestoneBackedBy(m, view[r].milestone[m], WithOwn(r))
  <2>1. DealBackedBy(row, events)
    BY EffectsOfInvitations
    DEF BackedInv, ViewBacked, DealBackedBy, Typed, TypeOK, View
  <2> QED BY <1>3, <2>1, Monotone DEF BackedInv, ViewBacked
<1>5. \A x \in draft'[r].items : x.event \in Chain => x.event \in WithOwn(r)
  BY <1>1 DEF Appended, LinkedWith, WithOwn
<1>6. DraftBackedBy(r, WithOwn(r))'
  BY <1>1, <1>3, <1>4, <1>5 DEF BackedInv, DraftBacked, DraftBackedBy, Appended
<1>7. \A q \in Workers : q # r => DraftBackedBy(q, WithOwn(q))'
  BY <1>2 DEF BackedInv, DraftBacked, DraftBackedBy, WithOwn, committed
<1> QED BY <1>2, <1>6, <1>7
     DEF BackedInv, ChainBacked, ViewBacked, DraftBacked, committed

LEMMA NextBacked == Typed /\ IdleInv /\ BackedInv /\ [Next]_vars => BackedInv'
<1> SUFFICES ASSUME Typed, IdleInv, BackedInv, [Next]_vars PROVE BackedInv'
  OBVIOUS
<1>1. CASE UNCHANGED vars
  BY <1>1 DEF vars, committed, sessions, BackedInv, ChainBacked, ViewBacked,
              DraftBacked, DraftBackedBy, WithOwn
<1>2. ASSUME NEW r \in Workers, Loads(r)
      PROVE  BackedInv'
  <2>1. job'[r] = job[r] \/ draft[r] = NoDraft
    BY <1>2, LoadFrame DEF IdleInv
  <2> QED BY <1>2, <2>1, LoadFrame, LoadBacked
<1>3. ASSUME NEW r \in Workers, LoadDeal(r)
      PROVE  BackedInv'
  BY <1>3, LoadDealBacked
<1>4. ASSUME NEW r \in Workers, Invite(r) \/ Join(r)
      PROVE  BackedInv'
  BY <1>4, InvitationBacked
<1>5. ASSUME NEW r \in Workers, Handle(r)
      PROVE  BackedInv'
  <2>1. /\ UNCHANGED <<committed, job, view>>
        /\ \A q \in Workers : q # r => draft'[q] = draft[q]
    BY <1>5, HandlerFrame
  <2>2. DraftBackedBy(r, WithOwn(r))'
    BY <1>5, HandleBacked
  <2>3. \A q \in Workers : q # r => DraftBackedBy(q, WithOwn(q))'
    BY <2>1 DEF BackedInv, DraftBacked, DraftBackedBy, WithOwn, committed
  <2> QED BY <2>1, <2>2, <2>3
       DEF BackedInv, ChainBacked, ViewBacked, DraftBacked, committed
<1>6. ASSUME NEW r \in Workers, Commit(r)
      PROVE  BackedInv'
  BY <1>6, CommitBacked
<1>7. ASSUME NEW r \in Workers, Refuse(r) \/ Abort(r)
      PROVE  BackedInv'
  <2>1. EndSession(r) /\ UNCHANGED committed
    BY <1>7 DEF Refuse, Abort
  <2>2. ViewBacked' /\ DraftBacked'
    BY <2>1, EndBacked DEF BackedInv, committed
  <2> QED BY <2>1, <2>2 DEF BackedInv, ChainBacked, committed
<1> QED BY <1>1, <1>2, <1>3, <1>4, <1>5, <1>6, <1>7 DEF Next, Loads

(* Whatever a deal records as done on chain has its confirmed event        *)
(* stored, whatever requests race, are repeated, fail or crash.            *)
THEOREM BackedByChain == Spec => []ChainBacked
<1>1. Init => Typed /\ IdleInv /\ BackedInv
  BY InitTyped, InitBacked DEF Init, IdleInv
<1>2. Typed /\ IdleInv /\ BackedInv /\ [Next]_vars
        => (Typed /\ IdleInv /\ BackedInv)'
  BY NextTyped, NextIdle, NextBacked
<1>3. BackedInv => ChainBacked
  BY DEF BackedInv
<1> QED BY <1>1, <1>2, <1>3, PTL DEF Spec
===========================================================================
