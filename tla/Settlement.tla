--------------------------- MODULE Settlement ---------------------------
(***************************************************************************)
(* The settlement of one deal: the handlers of api/workflow.py and         *)
(* api/deals.py that report a confirmed Arc event (register, accept,       *)
(* fund, submit, approve, release, dispute) or move the deal by hand       *)
(* (change_status), as the database sessions of concurrent requests run    *)
(* them; beside them the invitations and the joins of api/invitations.py,  *)
(* which ask for no status of the deal, as far as they touch what the      *)
(* settlement uses: the deal row, its parties and its evidence.  Their own *)
(* rows and races are in Invitations.                                      *)
(*                                                                         *)
(* A request is a transaction of several statements with awaits between    *)
(* them, and the requests of both gunicorn processes interleave at every   *)
(* one:                                                                    *)
(*                                                                         *)
(*   idle     -- Report, RequestTransition, RequestInvite --> row          *)
(*                                                        SELECT deals     *)
(*   row      -- LoadChildren -->     loaded    SELECT parties, milestones *)
(*   loaded   -- Verify -->           verified  Arc RPC, SELECT the event  *)
(*   verified -- one handler -->      flushed   autoflush: the UPDATE      *)
(*                                              locks the deal row         *)
(*   loaded   -- ChangeStatus, Invite --> flushed                          *)
(*   idle     -- RequestJoin -->      checked   SELECT deal_parties        *)
(*   checked  -- LoadDeal -->         joined    INSERT party, SELECT deals *)
(*   joined   -- Join -->             flushed                              *)
(*   flushed  -- Commit -->           idle                                 *)
(*                                                                         *)
(* A handler computes its new rows from the rows it LOADED, and SQLAlchemy *)
(* writes the columns whose value differs from the loaded one, as absolute *)
(* values (Column).  Refuse is every response without a commit and Abort   *)
(* a crash, a dropped connection or a lock not granted in time: both roll  *)
(* back.                                                                   *)
(*                                                                         *)
(* The program runs on two databases: PostgreSQL in production, and SQLite *)
(* by default and in the tests.  Either reads what is committed.  A write  *)
(* locks its row on PostgreSQL and the whole database on SQLite; and only  *)
(* PostgreSQL enforces the width of a column (Storable).                   *)
(*                                                                         *)
(* Each request reads the parties and milestones in two SELECTs; they are  *)
(* one step here because no handler combines what it reads of them: accept *)
(* uses the parties, the others their milestone.                           *)
(***************************************************************************)
EXTENDS DealRules, EvidenceChain, ColumnUpdates

CONSTANTS
  Databases,    \* which databases the program is run on
  Workers,      \* request slots: the requests that can be under way at once
  Parties,      \* the rows deal_parties may come to have
  Late,         \* those of them that join while the deal is being settled
  Role,         \* their roles
  Wallet,       \* their linked wallets, or None
  Milestones,   \* rows of milestones
  Amount,       \* their amounts
  Total,        \* deals.total_amount
  Bps,          \* deals.funding_threshold_bps
  Chain,        \* the events the escrow contract has confirmed for this deal
  Targets,      \* the statuses managers ask for by hand
  Retries,      \* may an event be reported again after, or beside, a report?
  MaxRequests,  \* bound: requests that begin
  None

ChainNames ==
  {"DealRegistered", "PartyAccepted", "DealFunded", "MilestoneSubmitted",
   "MilestoneApproved", "MilestoneReleased", "DisputeOpened"}

(* The event names that carry a milestone position.                        *)
MilestoneNames ==
  {"MilestoneSubmitted", "MilestoneApproved", "MilestoneReleased",
   "DisputeOpened"}

(* VerifiedEvent: id stands for (transaction_hash, log_index), which the   *)
(* unique constraint of blockchain_events is about.                        *)
ASSUME ChainAssumption ==
  /\ \A e \in Chain :
       /\ DOMAIN e = {"id", "name", "milestone", "sender", "credited"}
       /\ e.name \in ChainNames
       /\ e.credited \in Nat
       /\ e.name \in MilestoneNames => e.milestone \in Milestones
  /\ \A e, f \in Chain : e.id = f.id => e = f

(* What create_deal has stored: the creator is the buyer, the amounts are  *)
(* positive and add up, the threshold satisfies the check constraint.      *)
ASSUME DealAssumption ==
  /\ Role \in [Parties -> DealRole]
  /\ Late \subseteq Parties
  /\ \A p \in Late :
       Role[p] \in {"SELLER", "CONTRIBUTOR", "APPROVER", "OBSERVER"}
  /\ IsFiniteSet(Milestones)
  /\ Amount \in [Milestones -> Nat]
  /\ Total \in Nat
  /\ ValidAllocations(Total, Milestones, Amount)
  /\ Bps \in 1..10000

ASSUME EnvironmentAssumption ==
  /\ Databases \subseteq {"PostgreSQL", "SQLite"}
  /\ Targets \subseteq DealStatus
  /\ Retries \in BOOLEAN
  /\ MaxRequests \in Nat
  /\ None \notin Workers
  /\ None \notin Chain

VARIABLES
  database,   \* the database of this run
  deal,       \* the committed row of deals
  parties,    \* the committed rows of deal_parties
  accepted,   \* the parties whose accepted_at is set
  milestone,  \* the committed rows of milestones: status, released_amount
  disputes,   \* how many rows of disputes each milestone has
  events,     \* the rows of blockchain_events
  evidence,   \* the rows of evidence_items: occurred_at, previous, source
  clock,      \* the last instant stamped on an evidence item
  lock,       \* the session that holds the lock of the deal's row, or None
  pc,         \* how far each session is
  job,        \* what its request is about
  view,       \* the rows it has loaded
  draft,      \* the rows it has flushed and not yet committed
  requests    \* requests begun so far

committed ==
  <<database, deal, parties, accepted, milestone, disputes, events, evidence>>
sessions  == <<pc, job, view, draft>>
vars      == <<committed, clock, lock, sessions, requests>>

TransitionJob == [name : {"Transition"}, target : Targets, expected : Int]
InvitationJob == [name : {"Invite", "Join"}, party : Late]
Job           == Chain \cup TransitionJob \cup InvitationJob
MilestoneRow  == [status : MilestoneStatus, released : Nat]

(* locked is no column: it remembers whether the item was linked by a      *)
(* session that held the lock of the deal's row.                           *)
EvidenceItem ==
  [at : Nat, prev : Nat, event : Chain \cup InvitationJob, locked : BOOLEAN]

(* known: the event's row, or the party's, was there when looked for.      *)
View  == [deal : DealRow, parties : SUBSET Parties, accepted : SUBSET Parties,
          milestone : [Milestones -> MilestoneRow], known : BOOLEAN]
Draft == [deal : DealRow, joins : SUBSET Late, accepted : SUBSET Parties,
          milestone : [Milestones -> MilestoneRow],
          disputed : SUBSET Milestones, items : SUBSET EvidenceItem]

NewMilestones == [m \in Milestones |-> [status |-> "PENDING", released |-> 0]]

(* The deal once those invited first have joined: created at version 1,    *)
(* moved to AWAITING_PARTIES and to AWAITING_SIGNATURES.                   *)
NewDeal ==
  [status |-> "AWAITING_SIGNATURES", version |-> 3, funded |-> 0,
   released |-> 0, disputed |-> 0, registered |-> FALSE]

NoView ==
  [deal |-> NewDeal, parties |-> {}, accepted |-> {},
   milestone |-> NewMilestones, known |-> FALSE]

NoDraft ==
  [deal |-> NewDeal, joins |-> {}, accepted |-> {},
   milestone |-> NewMilestones, disputed |-> {}, items |-> {}]

Init ==
  /\ database \in Databases
  /\ deal = NewDeal
  /\ parties = Parties \ Late
  /\ accepted = {}
  /\ milestone = NewMilestones
  /\ disputes = [m \in Milestones |-> 0]
  /\ events = {}
  /\ evidence = {}
  /\ clock = 0
  /\ lock = None
  /\ pc = [r \in Workers |-> "idle"]
  /\ job = [r \in Workers |-> None]
  /\ view = [r \in Workers |-> NoView]
  /\ draft = [r \in Workers |-> NoDraft]
  /\ requests = 0

---------------------------------------------------------------------------
(* A request arrives, and its session runs its first SELECT.               *)

Begin(r, phase, j, rows) ==
  /\ pc[r] = "idle"
  /\ requests < MaxRequests
  /\ requests' = requests + 1
  /\ pc' = [pc EXCEPT ![r] = phase]
  /\ job' = [job EXCEPT ![r] = j]
  /\ view' = [view EXCEPT ![r] = rows]
  /\ UNCHANGED <<committed, clock, lock, draft>>

(* accessible_deal: the deal first.                                        *)
BeginWithDeal(r, j) == Begin(r, "row", j, [NoView EXCEPT !.deal = deal])

(* Somebody reports a confirmed event.  With Retries = FALSE nobody        *)
(* reports one that is stored or that another request is reporting.        *)
Report(r) ==
  \E e \in Chain :
    /\ Retries \/ (e \notin events /\ \A q \in Workers : job[q] # e)
    /\ BeginWithDeal(r, e)

(* A manager asks for a status, naming the version last seen: the current  *)
(* one, or the one before it.                                              *)
RequestTransition(r) ==
  \E target \in Targets, expected \in {deal.version - 1, deal.version} :
    BeginWithDeal(r, [name |-> "Transition", target |-> target,
                      expected |-> expected])

RequestInvite(r) ==
  \E p \in Late : BeginWithDeal(r, [name |-> "Invite", party |-> p])

(* _accept looks for the party before it loads the deal.                   *)
RequestJoin(r) ==
  \E p \in Late :
    Begin(r, "checked", [name |-> "Join", party |-> p],
          [NoView EXCEPT !.known = p \in parties])

LoadChildren(r) ==
  /\ pc[r] = "row"
  /\ pc' = [pc EXCEPT ![r] = "loaded"]
  /\ view' = [view EXCEPT ![r] = [@ EXCEPT !.parties = parties,
                                           !.accepted = accepted,
                                           !.milestone = milestone]]
  /\ UNCHANGED <<committed, clock, lock, job, draft, requests>>

---------------------------------------------------------------------------
(* The checks on the caller, the Arc receipt, and the lookup of the event. *)

ReporterRoles ==
  [DealRegistered     |-> {"BUYER"},
   PartyAccepted      |-> DealRole,
   DealFunded         |-> DealRole,
   MilestoneSubmitted |-> {"SELLER"},
   MilestoneApproved  |-> {"BUYER", "APPROVER"},
   MilestoneReleased  |-> {"BUYER", "DEAL_ADMIN"},
   DisputeOpened      |-> DealRole]

(* Release and funding do not compare the sender with the caller's wallet. *)
SenderUnchecked == {"MilestoneReleased", "DealFunded"}

SentBy(p, e) == Wallet[p] # None /\ Wallet[p] = e.sender

MayReport(p, e) ==
  /\ Role[p] \in ReporterRoles[e.name]
  /\ e.name \in SenderUnchecked \/ SentBy(p, e)

(* The awaited RPC touches no row; _store_event's SELECT follows it.       *)
Verify(r) ==
  /\ pc[r] = "loaded"
  /\ job[r] \in Chain
  /\ \E p \in view[r].parties : MayReport(p, job[r])
  /\ pc' = [pc EXCEPT ![r] = "verified"]
  /\ view' = [view EXCEPT ![r] = [@ EXCEPT !.known = job[r] \in events]]
  /\ UNCHANGED <<committed, clock, lock, job, draft, requests>>
---------------------------------------------------------------------------
(* The handlers.  Each computes its rows from the loaded ones; the first   *)
(* statement after the assignments flushes them, and the UPDATE of the     *)
(* deal waits for its row lock.                                            *)

(* MUTANT of UpdateDeal: the flush does not wait for the row lock.         *)
UpdateDealUnlocked(r, row, signed, rows, disputed, items) ==
  /\ lock' = r
  /\ pc' = [pc EXCEPT ![r] = "flushed"]
  /\ draft' = [draft EXCEPT ![r] =
       [deal |-> row, joins |-> {}, accepted |-> signed, milestone |-> rows,
        disputed |-> disputed, items |-> items]]
  /\ UNCHANGED <<committed, job, view, requests>>

UpdateDeal(r, row, signed, rows, disputed, items) ==
  /\ lock = None
  /\ lock' = r
  /\ pc' = [pc EXCEPT ![r] = "flushed"]
  /\ draft' = [draft EXCEPT ![r] =
       [deal |-> row, joins |-> {}, accepted |-> signed, milestone |-> rows,
        disputed |-> disputed, items |-> items]]
  /\ UNCHANGED <<committed, job, view, requests>>

(* The event row goes first in the flush: its INSERT fails on the unique   *)
(* constraint when another session committed the event meanwhile.          *)
EventInsertable(r) == view[r].known \/ job[r] \notin events

Verified(r, name) ==
  /\ pc[r] = "verified"
  /\ job[r].name = name
  /\ EventInsertable(r)

(* append_evidence: its SELECT autoflushes the UPDATE first, so the latest *)
(* committed item is read under the row lock.                              *)
UpdateWithEvidence(r, row, signed, rows) ==
  \E latest \in LatestInstants(evidence) :
    /\ clock' = clock + 1
    /\ UpdateDeal(r, row, signed, rows, {},
         {[at |-> clock + 1, prev |-> latest, event |-> job[r],
           locked |-> TRUE]})

(* The loaded milestones with the one of this request assigned.            *)
WithMilestone(r, status, released) ==
  [view[r].milestone EXCEPT ![job[r].milestone] =
     [status |-> status, released |-> released]]

LoadedReleased(r) == view[r].milestone[job[r].milestone].released

RegisterOnchain(r) ==
  /\ Verified(r, "DealRegistered")
  /\ UpdateWithEvidence(r, AfterRegister(view[r].deal), {}, view[r].milestone)

(* MUTANT of EveryoneAccepted: decided before the signer's row is set.     *)
EveryoneElseAndSigner(r, p) ==
  \A q \in view[r].parties : Role[q] = "OBSERVER" \/ q \in view[r].accepted

(* "Everyone" is everyone who must sign, in the rows this request loaded.  *)
EveryoneAccepted(r, p) ==
  \A q \in view[r].parties :
    Role[q] = "OBSERVER" \/ q = p \/ q \in view[r].accepted

AcceptAgreement(r) ==
  /\ Verified(r, "PartyAccepted")
  /\ \E p \in view[r].parties :
       /\ SentBy(p, job[r])
       /\ UpdateWithEvidence(r,
            AfterAccept(view[r].deal, EveryoneAccepted(r, p)), {p},
            view[r].milestone)

(* The 409 of apply_funding is in Refuse.                                  *)
RecordFunding(r) ==
  /\ Verified(r, "DealFunded")
  /\ CanFund(view[r].deal, Total, job[r].credited)
  /\ UpdateWithEvidence(r,
       AfterFunding(view[r].deal, Total, Bps, job[r].credited), {},
       view[r].milestone)

SubmitMilestone(r) ==
  /\ Verified(r, "MilestoneSubmitted")
  /\ UpdateWithEvidence(r, AfterSubmit(view[r].deal), {},
       WithMilestone(r, "SUBMITTED", LoadedReleased(r)))

(* No evidence: the flush comes with the commit.                           *)
ApproveMilestone(r) ==
  /\ Verified(r, "MilestoneApproved")
  /\ UpdateDeal(r, AfterApprove(view[r].deal), {},
       WithMilestone(r, "APPROVED", LoadedReleased(r)), {}, {})
  /\ UNCHANGED clock

ReleaseMilestone(r) ==
  LET amount == Amount[job[r].milestone] IN
  /\ Verified(r, "MilestoneReleased")
  /\ UpdateWithEvidence(r, AfterRelease(view[r].deal, Total, amount), {},
       WithMilestone(r, "RELEASED", amount))

(* No evidence either.                                                     *)
OpenDispute(r) ==
  LET m == job[r].milestone IN
  /\ Verified(r, "DisputeOpened")
  /\ UpdateDeal(r, AfterDispute(view[r].deal, Amount[m]), {},
       WithMilestone(r, "DISPUTED", LoadedReleased(r)), {m}, {})
  /\ UNCHANGED clock

(* A buyer or an admin of the deal.                                        *)
Managed(r) == \E p \in view[r].parties : Role[p] \in {"BUYER", "DEAL_ADMIN"}

(* The version is compared with the loaded row, not with the locked one.   *)
ChangeStatus(r) ==
  /\ pc[r] = "loaded"
  /\ job[r] \in TransitionJob
  /\ view[r].deal.version = job[r].expected
  /\ Managed(r)
  /\ CanTransition(view[r].deal, job[r].target)
  /\ UpdateDeal(r, AfterTransition(view[r].deal, job[r].target), {},
       view[r].milestone, {}, {})
  /\ UNCHANGED clock

Handle(r) ==
  \/ RegisterOnchain(r)
  \/ AcceptAgreement(r)
  \/ RecordFunding(r)
  \/ SubmitMilestone(r)
  \/ ApproveMilestone(r)
  \/ ReleaseMilestone(r)
  \/ OpenDispute(r)
  \/ ChangeStatus(r)

---------------------------------------------------------------------------
(* Invitations and joins, at any status of the deal.                       *)

(* The item follows the latest committed one.  The deal's row is locked by *)
(* a session that changes it; SQLite locks for any row that is written.    *)
AppendInvitationItem(r, row) ==
  \E latest \in LatestInstants(evidence) :
    /\ clock' = clock + 1
    /\ IF row # view[r].deal \/ database = "SQLite"
         THEN lock \in {None, r} /\ lock' = r
         ELSE UNCHANGED lock
    /\ pc' = [pc EXCEPT ![r] = "flushed"]
    /\ draft' = [draft EXCEPT ![r] =
         [@ EXCEPT !.deal      = row,
                   !.milestone = view[r].milestone,
                   !.items     = {[at |-> clock + 1, prev |-> latest,
                                   event |-> job[r], locked |-> lock' = r]}]]
    /\ UNCHANGED <<committed, job, view, requests>>

(* A new invitation may move the deal, a reissued one does not.            *)
Invite(r) ==
  /\ pc[r] = "loaded"
  /\ job[r].name = "Invite"
  /\ Managed(r)
  /\ \E row \in {view[r].deal, AfterInvite(view[r].deal)} :
       AppendInvitationItem(r, row)

(* The INSERT waits for another's INSERT of the same party.                *)
MembershipFree(r) ==
  \A q \in Workers \ {r} : job[r].party \notin draft[q].joins

(* It fails on a party that has joined since it was looked for.            *)
PartyInsertable(r) == view[r].known \/ job[r].party \notin parties

LoadDeal(r) ==
  /\ pc[r] = "checked"
  /\ PartyInsertable(r)
  /\ MembershipFree(r)
  /\ IF database = "SQLite" THEN lock = None /\ lock' = r ELSE UNCHANGED lock
  /\ pc' = [pc EXCEPT ![r] = "joined"]
  /\ view' = [view EXCEPT ![r] = [@ EXCEPT !.deal = deal]]
  /\ draft' = [draft EXCEPT ![r] =
       [NoDraft EXCEPT !.deal  = deal,
                       !.joins = IF view[r].known THEN {} ELSE {job[r].party}]]
  /\ UNCHANGED <<committed, clock, job, requests>>

(* Whether any invitation is still pending, Invitations says.              *)
Join(r) ==
  /\ pc[r] = "joined"
  /\ \E row \in {view[r].deal, AfterLastJoin(view[r].deal)} :
       AppendInvitationItem(r, row)

---------------------------------------------------------------------------
(* The end of a request.                                                   *)

(* The columns of one UPDATE: see ColumnUpdates.                           *)
WrittenDeal(old, new, cur) ==
  [status     |-> Column(old.status, new.status, cur.status),
   version    |-> Column(old.version, new.version, cur.version),
   funded     |-> Column(old.funded, new.funded, cur.funded),
   released   |-> Column(old.released, new.released, cur.released),
   disputed   |-> Column(old.disputed, new.disputed, cur.disputed),
   registered |-> Column(old.registered, new.registered, cur.registered)]

WrittenMilestone(old, new, cur) ==
  [status   |-> Column(old.status, new.status, cur.status),
   released |-> Column(old.released, new.released, cur.released)]

(* source_entity_id is a VARCHAR(64): the hash of a transaction, of 66     *)
(* characters, does not fit, the id of an invitation or a user, of 36,     *)
(* does.  PostgreSQL refuses the INSERT, SQLite ignores the width.         *)
SourceLength(e) == IF e \in Chain THEN 66 ELSE 36

Storable(r) ==
  database = "PostgreSQL" =>
    \A x \in draft[r].items : SourceLength(x.event) <= 64

(* MUTANT of EndSession: the connection is not returned on the way out, so *)
(* an open transaction keeps its row lock.                                 *)
EndSessionKeepingLock(r) ==
  /\ pc' = [pc EXCEPT ![r] = "idle"]
  /\ job' = [job EXCEPT ![r] = None]
  /\ view' = [view EXCEPT ![r] = NoView]
  /\ draft' = [draft EXCEPT ![r] = NoDraft]
  /\ UNCHANGED lock

EndSession(r) ==
  /\ pc' = [pc EXCEPT ![r] = "idle"]
  /\ job' = [job EXCEPT ![r] = None]
  /\ view' = [view EXCEPT ![r] = NoView]
  /\ draft' = [draft EXCEPT ![r] = NoDraft]
  /\ lock' = IF lock = r THEN None ELSE lock

(* MUTANT of Commit: the event row is lost, added to another session.      *)
CommitWithoutEvent(r) ==
  /\ pc[r] = "flushed"
  /\ Storable(r)
  /\ deal' = WrittenDeal(view[r].deal, draft[r].deal, deal)
  /\ parties' = parties \cup draft[r].joins
  /\ accepted' = accepted \cup draft[r].accepted
  /\ milestone' = [m \in Milestones |->
       WrittenMilestone(view[r].milestone[m], draft[r].milestone[m],
                        milestone[m])]
  /\ disputes' = [m \in Milestones |->
       disputes[m] + (IF m \in draft[r].disputed THEN 1 ELSE 0)]
  /\ evidence' = evidence \cup draft[r].items
  /\ EndSession(r)
  /\ UNCHANGED <<database, events, clock, requests>>

(* The only durable point: every row of the request at once.               *)
Commit(r) ==
  /\ pc[r] = "flushed"
  /\ Storable(r)
  /\ deal' = WrittenDeal(view[r].deal, draft[r].deal, deal)
  /\ parties' = parties \cup draft[r].joins
  /\ accepted' = accepted \cup draft[r].accepted
  /\ milestone' = [m \in Milestones |->
       WrittenMilestone(view[r].milestone[m], draft[r].milestone[m],
                        milestone[m])]
  /\ disputes' = [m \in Milestones |->
       disputes[m] + (IF m \in draft[r].disputed THEN 1 ELSE 0)]
  /\ events' = events \cup ({job[r]} \cap Chain)
  /\ evidence' = evidence \cup draft[r].items
  /\ EndSession(r)
  /\ UNCHANGED <<database, clock, requests>>

(* 403, 404, 409, 422 or 500: who asked and what the chain says may refuse *)
(* any loaded request; a verified one is refused by the funding ceiling or *)
(* by the unique constraint, a join by that of the parties, and a flushed  *)
(* one by the width of a column.                                           *)
Refuse(r) ==
  /\ \/ pc[r] = "loaded"
     \/ /\ pc[r] = "verified"
        /\ job[r].name = "DealFunded"
        /\ ~CanFund(view[r].deal, Total, job[r].credited)
     \/ /\ pc[r] = "verified"
        /\ ~EventInsertable(r)
     \/ /\ pc[r] = "checked"
        /\ ~PartyInsertable(r)
     \/ /\ pc[r] = "flushed"
        /\ ~Storable(r)
  /\ EndSession(r)
  /\ UNCHANGED <<committed, clock, requests>>

(* The process or the connection is lost: the database rolls back.         *)
Abort(r) ==
  /\ pc[r] # "idle"
  /\ EndSession(r)
  /\ UNCHANGED <<committed, clock, requests>>

Next ==
  \E r \in Workers :
    \/ Report(r)
    \/ RequestTransition(r)
    \/ RequestInvite(r)
    \/ RequestJoin(r)
    \/ LoadChildren(r)
    \/ Verify(r)
    \/ Handle(r)
    \/ Invite(r)
    \/ LoadDeal(r)
    \/ Join(r)
    \/ Commit(r)
    \/ Refuse(r)
    \/ Abort(r)

Spec == Init /\ [][Next]_vars

(* The steps of a session that no lock of another one can hold up, and     *)
(* those that write and may have to wait for one.                          *)
Proceed(r) == LoadChildren(r) \/ Verify(r) \/ Commit(r) \/ Refuse(r)

Write(r) == Handle(r) \/ Invite(r) \/ LoadDeal(r) \/ Join(r)

(* A session that can move does.  The RPC of Verify ends by timeouts of    *)
(* its own, answered or refused.  PostgreSQL grants a lock in the order of *)
(* arrival, and SQLite's wait ends by a timeout, which ends the request    *)
(* too: hence strong fairness of what writes.                              *)
Fairness ==
  \A r \in Workers :
    /\ WF_vars(Proceed(r))
    /\ SF_vars(Write(r))

FairSpec == Spec /\ Fairness
---------------------------------------------------------------------------
(* Properties                                                              *)

Phases ==
  {"idle", "row", "loaded", "verified", "checked", "joined", "flushed"}

(* Every variable keeps its type; the phases of a session are those above. *)
TypeOK ==
  /\ database \in {"PostgreSQL", "SQLite"}
  /\ deal \in DealRow
  /\ parties \subseteq Parties
  /\ accepted \subseteq Parties
  /\ milestone \in [Milestones -> MilestoneRow]
  /\ disputes \in [Milestones -> Nat]
  /\ events \subseteq Chain
  /\ evidence \subseteq EvidenceItem
  /\ clock \in Nat
  /\ lock \in Workers \cup {None}
  /\ pc \in [Workers -> Phases]
  /\ job \in [Workers -> Job \cup {None}]
  /\ view \in [Workers -> View]
  /\ draft \in [Workers -> Draft]
  /\ requests \in Nat

(* The recorded funding never exceeds the deal's total, whatever reports   *)
(* race or are repeated: apply_funding checks the value it then writes.    *)
FundedWithinTotal == deal.funded <= Total

(* The evidence of the deal: every item follows an earlier one that        *)
(* exists, and of two that follow the same one, at least one was linked    *)
(* without the lock of the deal's row, by an invitation or a join that     *)
(* left that row alone.  On SQLite, where every request that links an item *)
(* has written first, it is one chain.  The code has no lock of its own    *)
(* for this: append_evidence relies on what its SELECT flushes.            *)
EvidenceChained ==
  /\ FollowEarlier(evidence)
  /\ Unforked({x \in evidence : x.locked})
  /\ database = "SQLite" => Unforked(evidence)

(* A set E of events has one of this name, or one of it for milestone m.   *)
Holds(E, name) == \E e \in E : e.name = name

HoldsFor(E, name, m) == \E e \in E : e.name = name /\ e.milestone = m

(* The events of E are what the row d of the deal claims happened on chain *)
DealBackedBy(d, E) ==
  /\ d.registered => Holds(E, "DealRegistered")
  /\ d.funded > 0 => Holds(E, "DealFunded")
  /\ d.released > 0 => Holds(E, "MilestoneReleased")
  /\ d.disputed > 0 => Holds(E, "DisputeOpened")

(* and what the row of milestone m claims.                                 *)
MilestoneBackedBy(m, row, E) ==
  /\ row.status = "SUBMITTED" => HoldsFor(E, "MilestoneSubmitted", m)
  /\ row.status = "APPROVED" => HoldsFor(E, "MilestoneApproved", m)
  /\ row.status = "RELEASED" => HoldsFor(E, "MilestoneReleased", m)
  /\ row.status = "DISPUTED" => HoldsFor(E, "DisputeOpened", m)
  /\ row.released > 0 => HoldsFor(E, "MilestoneReleased", m)

PartyBackedBy(p, E) == \E e \in E : e.name = "PartyAccepted" /\ SentBy(p, e)

(* Whatever the deal records as done on chain has its confirmed event      *)
(* stored in blockchain_events: signatures, registration, funding,         *)
(* milestone statuses, releases, dispute rows, and the sources of its      *)
(* evidence.  They are written by one commit, or not at all.               *)
ChainBacked ==
  /\ DealBackedBy(deal, events)
  /\ \A p \in accepted : PartyBackedBy(p, events)
  /\ \A m \in Milestones :
       /\ MilestoneBackedBy(m, milestone[m], events)
       /\ disputes[m] > 0 => HoldsFor(events, "DisputeOpened", m)
  /\ \A x \in evidence : x.event \in Chain => x.event \in events

(* A commit writes back no column its own handler did not change: a        *)
(* request that loaded the deal before another one's commit leaves that    *)
(* one's money columns alone.                                              *)
ColumnsIsolated ==
  [][\A r \in Workers :
       Commit(r) =>
         /\ deal'.funded # deal.funded => job[r].name = "DealFunded"
         /\ deal'.released # deal.released => job[r].name = "MilestoneReleased"
         /\ deal'.disputed # deal.disputed => job[r].name = "DisputeOpened"
         /\ \A m \in Milestones :
              milestone'[m] # milestone[m] =>
                job[r].name \in MilestoneNames /\ job[r].milestone = m]_vars

(* A request that began comes to an answer: nobody keeps a lock, and       *)
(* nobody waits for one for ever.                                          *)
RequestsFinish == \A r \in Workers : pc[r] # "idle" ~> pc[r] = "idle"

---------------------------------------------------------------------------
(* What the repository says of the settlement and the code does not keep.  *)

(* "Deal changed; refresh before retrying": a transition by hand commits   *)
(* on the deal row it was checked against.                                 *)
TransitionSeesCurrentDeal ==
  [][\A r \in Workers :
       Commit(r) /\ job[r].name = "Transition" => deal = view[r].deal]_vars

(* "assert funded.status_code == 200": a report that has passed every      *)
(* check of its handler is not refused by the database.                    *)
CheckedReportsAnswered ==
  [][\A r \in Workers : Refuse(r) => pc[r] # "flushed"]_vars
==========================================================================
