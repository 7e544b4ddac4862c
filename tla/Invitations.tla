--------------------------- MODULE Invitations ---------------------------
(***************************************************************************)
(* The parties of one deal: invitations are created and reissued           *)
(* (create_invitation), accepted, and found expired (_accept), by requests *)
(* that run as concurrent database sessions.  The last acceptance moves    *)
(* the deal to AWAITING_SIGNATURES.                                        *)
(*                                                                         *)
(*   invite:  idle -- BeginInvite --> row       SELECT deals               *)
(*            row -- LookUp --> looked          SELECT the invitation      *)
(*            looked -- Insert --> inserted     INSERT, not committed      *)
(*            inserted -- Announce --> flushed  UPDATE deals, evidence     *)
(*            looked -- Reissue --> flushed     UPDATE invitation          *)
(*   accept:  idle -- BeginAccept --> found     SELECT the invitation      *)
(*            found -- Lapse --> flushed        it had expired             *)
(*            found -- CheckMember --> checked  SELECT deal_parties        *)
(*            checked -- Join --> joined        UPDATE invitation, INSERT  *)
(*                                              party, SELECT deals        *)
(*            joined -- CountPending --> counted   SELECT pending          *)
(*            counted -- RecordJoin --> flushed    UPDATE deals, evidence  *)
(*   flushed -- Commit --> idle                                            *)
(*                                                                         *)
(* A session that flushed a row holds its lock until it ends: the locks    *)
(* are read off the phases (SlotFree, MembershipFree, DealFree).           *)
(*                                                                         *)
(* A slot is one (email, role) of the unique constraint.  Matches says     *)
(* which users prove the email or the wallet of a slot; everybody else is  *)
(* refused, but finds an expired invitation expired like anybody: _accept  *)
(* commits that before it asks who is there.  The token of the link only   *)
(* selects the row, which accept_invitation_by_id finds without it.        *)
(***************************************************************************)
EXTENDS DealRules, EvidenceChain, ColumnUpdates

CONSTANTS
  Workers,      \* request slots
  Slots,        \* (email, role) pairs that managers invite
  RoleOf,       \* the role of each
  Users,        \* the people who accept
  Matches,      \* who can accept which slot, by email or by wallet
  Registered,   \* the slots whose email has an account
  Targets,      \* the statuses managers ask for by hand meanwhile
  MaxRequests,  \* bound: requests that begin
  None

ASSUME InvitationAssumption ==
  /\ RoleOf \in [Slots -> {"SELLER", "CONTRIBUTOR", "APPROVER", "OBSERVER"}]
  /\ Matches \subseteq Users \X Slots
  /\ Registered \subseteq Slots
  /\ Targets \subseteq DealStatus
  /\ MaxRequests \in Nat
  /\ None \notin Users

VARIABLES
  deal,        \* the committed row of deals: status, version
  invitation,  \* the committed rows of deal_invitations
  members,     \* deal_parties that joined: pairs of a user and a role
  notified,    \* slots whose addressee got a DEAL_INVITATION notification
  evidence,    \* the rows of evidence_items
  clock,       \* the last instant stamped on an evidence item
  pc,          \* how far each session is
  job,         \* what its request asks for
  view,        \* the rows it has loaded
  draft,       \* the rows it has flushed
  requests     \* requests begun so far

committed == <<deal, invitation, members, notified, evidence>>
sessions  == <<pc, job, view, draft>>
vars      == <<committed, clock, sessions, requests>>

InviteJob == [kind : {"Invite"}, slot : Slots, user : {None}]
AcceptJob == [kind : {"Accept"}, slot : Slots, user : Users]

Row == [status : DealStatus, version : Nat]

(* NONE: there is no such row.  overdue: expires_at has passed.            *)
Invitation ==
  [status : {"NONE", "PENDING", "ACCEPTED", "EXPIRED"}, overdue : BOOLEAN,
   by : Users \cup {None}]

EvidenceKind == {"PARTY_INVITED", "PARTY_INVITATION_REISSUED", "PARTY_JOINED"}

Item == [at : Nat, prev : Nat, kind : EvidenceKind, slot : Slots,
         user : Users \cup {None}]

View  == [deal : Row, row : Invitation, member : BOOLEAN, last : BOOLEAN]
Draft == [deal : Row, row : Invitation, fresh : BOOLEAN,
          joins : SUBSET (Users \X DealRole), items : SUBSET Item]

NewDeal == [status |-> "DRAFT", version |-> 1]
NoRow   == [status |-> "NONE", overdue |-> FALSE, by |-> None]
NoView  == [deal |-> NewDeal, row |-> NoRow, member |-> FALSE, last |-> FALSE]
NoDraft == [deal |-> NewDeal, row |-> NoRow, fresh |-> FALSE, joins |-> {},
            items |-> {}]

Init ==
  /\ deal = NewDeal
  /\ invitation = [i \in Slots |-> NoRow]
  /\ members = {}
  /\ notified = {}
  /\ evidence = {}
  /\ clock = 0
  /\ pc = [r \in Workers |-> "idle"]
  /\ job = [r \in Workers |-> None]
  /\ view = [r \in Workers |-> NoView]
  /\ draft = [r \in Workers |-> NoDraft]
  /\ requests = 0

---------------------------------------------------------------------------
(* Row locks                                                               *)

Flushing == {"inserted", "joined", "counted", "flushed"}

SlotFree(r) ==
  \A q \in Workers \ {r} : pc[q] \in Flushing => job[q].slot # job[r].slot

(* An INSERT of a party waits for another's INSERT of the same key.        *)
MembershipFree(r, m) == \A q \in Workers \ {r} : m \notin draft[q].joins

MovesDeal(r) == pc[r] = "flushed" /\ draft[r].deal # view[r].deal

DealFree == \A q \in Workers : ~MovesDeal(q)

---------------------------------------------------------------------------
(* Steps of a session                                                      *)

Begin(r, phase, j, loaded) ==
  /\ pc[r] = "idle"
  /\ requests < MaxRequests
  /\ requests' = requests + 1
  /\ pc' = [pc EXCEPT ![r] = phase]
  /\ job' = [job EXCEPT ![r] = j]
  /\ view' = [view EXCEPT ![r] = loaded]
  /\ UNCHANGED <<committed, clock, draft>>

(* A SELECT: the session remembers what it read.                           *)
Select(r, from, to, loaded) ==
  /\ pc[r] = from
  /\ pc' = [pc EXCEPT ![r] = to]
  /\ view' = [view EXCEPT ![r] = loaded]
  /\ UNCHANGED <<committed, clock, job, draft, requests>>

(* Statements that write: the rows are locked and not yet committed.       *)
Flush(r, to, rows) ==
  /\ pc' = [pc EXCEPT ![r] = to]
  /\ draft' = [draft EXCEPT ![r] = rows]
  /\ UNCHANGED <<committed, job, requests>>

(* append_evidence, and the rows flushed by its SELECT.                    *)
FlushWithEvidence(r, kind, rows) ==
  \E latest \in LatestInstants(evidence) :
    /\ clock' = clock + 1
    /\ UNCHANGED view
    /\ Flush(r, "flushed",
         [rows EXCEPT !.items =
            {[at |-> clock + 1, prev |-> latest, kind |-> kind,
              slot |-> job[r].slot, user |-> job[r].user]}])

---------------------------------------------------------------------------
(* create_invitation                                                       *)

BeginInvite(r) ==
  \E i \in Slots :
    Begin(r, "row", [kind |-> "Invite", slot |-> i, user |-> None],
          [NoView EXCEPT !.deal = deal])

LookUp(r) ==
  Select(r, "row", "looked",
         [view[r] EXCEPT !.row = invitation[job[r].slot]])

(* MUTANT of Reissue: any row found is renewed, as pending.                *)
ReissueWhateverStatus(r) ==
  /\ pc[r] = "looked"
  /\ view[r].row.status # "NONE"
  /\ SlotFree(r)
  /\ FlushWithEvidence(r, "PARTY_INVITATION_REISSUED",
       [NoDraft EXCEPT !.deal = view[r].deal, !.fresh = TRUE,
                       !.row = [view[r].row EXCEPT !.status = "PENDING"]])

(* The row it loaded is pending: the UPDATE names the columns it renews,   *)
(* here expires_at, and not the status.                                    *)
Reissue(r) ==
  /\ pc[r] = "looked"
  /\ view[r].row.status = "PENDING"
  /\ SlotFree(r)
  /\ FlushWithEvidence(r, "PARTY_INVITATION_REISSUED",
       [NoDraft EXCEPT !.deal = view[r].deal, !.row = view[r].row,
                       !.fresh = TRUE])

Insertable(r) == invitation[job[r].slot].status = "NONE"

Insert(r) ==
  /\ pc[r] = "looked"
  /\ view[r].row.status # "PENDING"
  /\ SlotFree(r)
  /\ Insertable(r)
  /\ UNCHANGED <<clock, view>>
  /\ Flush(r, "inserted",
       [NoDraft EXCEPT !.deal = view[r].deal,
                       !.row = [NoRow EXCEPT !.status = "PENDING"]])

Announce(r) ==
  LET moved == AfterInvite(view[r].deal) IN
  /\ pc[r] = "inserted"
  /\ moved = view[r].deal \/ DealFree
  /\ FlushWithEvidence(r, "PARTY_INVITED", [draft[r] EXCEPT !.deal = moved])

---------------------------------------------------------------------------
(* accept_invitation, accept_invitation_by_id: _accept                     *)

BeginAccept(r) ==
  \E u \in Users, i \in Slots :
    Begin(r, "found", [kind |-> "Accept", slot |-> i, user |-> u],
          [NoView EXCEPT !.row = invitation[i]])

Open(r) == view[r].row.status = "PENDING" /\ ~view[r].row.overdue

Lapse(r) ==
  /\ pc[r] = "found"
  /\ view[r].row.status = "PENDING"
  /\ view[r].row.overdue
  /\ SlotFree(r)
  /\ UNCHANGED <<clock, view>>
  /\ Flush(r, "flushed",
       [NoDraft EXCEPT !.deal = view[r].deal,
                       !.row = [view[r].row EXCEPT !.status = "EXPIRED"]])

Invited(r) == <<job[r].user, job[r].slot>> \in Matches

Membership(r) == <<job[r].user, RoleOf[job[r].slot]>>

(* MUTANT of IsMember: the SELECT does not name the user.                  *)
SomebodyIsMember(r) == \E m \in members : m[2] = Membership(r)[2]

IsMember(r) == Membership(r) \in members

CheckMember(r) ==
  /\ Open(r)
  /\ Invited(r)
  /\ Select(r, "found", "checked", [view[r] EXCEPT !.member = IsMember(r)])

(* The UPDATE of the invitation waits for its lock and then writes over    *)
(* whatever was committed; the INSERT fails on a party committed since     *)
(* CheckMember.                                                            *)
Joinable(r) == view[r].member \/ Membership(r) \notin members

Join(r) ==
  /\ pc[r] = "checked"
  /\ SlotFree(r)
  /\ view[r].member \/ MembershipFree(r, Membership(r))
  /\ Joinable(r)
  /\ view' = [view EXCEPT ![r].deal = deal]
  /\ UNCHANGED clock
  /\ Flush(r, "joined",
       [NoDraft EXCEPT
          !.deal  = deal,
          !.row   = [view[r].row EXCEPT !.status = "ACCEPTED",
                                        !.by = job[r].user],
          !.joins = IF view[r].member THEN {} ELSE {Membership(r)}])

(* MUTANT of OthersPending: counted before the own answer is flushed.      *)
AnyPending(r) == \E i \in Slots : invitation[i].status = "PENDING"

(* Its own row it sees answered, those of others as committed.             *)
OthersPending(r) ==
  \E i \in Slots \ {job[r].slot} : invitation[i].status = "PENDING"

(* MUTANT of CountPending: SELECT ... FOR UPDATE of the pending rows, so   *)
(* that two last acceptances wait for each other.                          *)
CountPendingLocking(r) ==
  /\ \A q \in Workers \ {r} :
       pc[q] \in Flushing => invitation[job[q].slot].status # "PENDING"
  /\ Select(r, "joined", "counted",
            [view[r] EXCEPT !.last = ~OthersPending(r)])

CountPending(r) ==
  Select(r, "joined", "counted", [view[r] EXCEPT !.last = ~OthersPending(r)])

RecordJoin(r) ==
  /\ pc[r] = "counted"
  /\ view[r].last => DealFree
  /\ FlushWithEvidence(r, "PARTY_JOINED",
       [draft[r] EXCEPT !.deal = IF view[r].last THEN AfterLastJoin(view[r].deal)
                                                 ELSE view[r].deal])

---------------------------------------------------------------------------
(* The end of a request                                                    *)

EndSession(r) ==
  /\ pc' = [pc EXCEPT ![r] = "idle"]
  /\ job' = [job EXCEPT ![r] = None]
  /\ view' = [view EXCEPT ![r] = NoView]
  /\ draft' = [draft EXCEPT ![r] = NoDraft]

(* A new row and a reissued one, which are fresh, expire in seven days.    *)
Written(old, new, cur, fresh) ==
  [status  |-> Column(old.status, new.status, cur.status),
   overdue |-> cur.overdue /\ ~fresh,
   by      |-> Column(old.by, new.by, cur.by)]

Commit(r) ==
  LET old  == view[r]
      new  == draft[r]
      slot == job[r].slot
      made == old.row.status = "NONE"
  IN
  /\ pc[r] = "flushed"
  /\ deal' = [status  |-> Column(old.deal.status, new.deal.status, deal.status),
              version |-> Column(old.deal.version, new.deal.version,
                                 deal.version)]
  /\ invitation' = [invitation EXCEPT
       ![slot] = Written(old.row, new.row, @, new.fresh)]
  /\ members' = members \cup new.joins
  /\ notified' = notified \cup (IF made THEN {slot} \cap Registered ELSE {})
  /\ evidence' = evidence \cup new.items
  /\ EndSession(r)
  /\ UNCHANGED <<clock, requests>>

(* Not a manager, or not a role to invite; an invitation that is not       *)
(* pending, or another's; the unique constraints.                          *)
Refuse(r) ==
  /\ \/ pc[r] = "row"
     \/ /\ pc[r] = "found"
        /\ view[r].row.status # "PENDING" \/ (Open(r) /\ ~Invited(r))
     \/ pc[r] = "looked" /\ view[r].row.status # "PENDING" /\ ~Insertable(r)
     \/ pc[r] = "checked" /\ ~Joinable(r)
  /\ EndSession(r)
  /\ UNCHANGED <<committed, clock, requests>>

(* The process or the connection is lost.                                  *)
Abort(r) ==
  /\ pc[r] # "idle"
  /\ EndSession(r)
  /\ UNCHANGED <<committed, clock, requests>>

---------------------------------------------------------------------------
(* Meanwhile seven days pass, and managers move the deal by hand.          *)

Overdue(i) ==
  /\ invitation[i].status = "PENDING"
  /\ ~invitation[i].overdue
  /\ invitation' = [invitation EXCEPT ![i].overdue = TRUE]
  /\ UNCHANGED <<deal, members, notified, evidence, clock, sessions, requests>>

ChangeStatus ==
  \E target \in Targets :
    /\ requests < MaxRequests
    /\ requests' = requests + 1
    /\ DealFree
    /\ CanTransition(deal, target)
    /\ deal' = AfterTransition(deal, target)
    /\ UNCHANGED <<invitation, members, notified, evidence, clock, sessions>>

Step(r) ==
  \/ LookUp(r) \/ Reissue(r) \/ Insert(r) \/ Announce(r)
  \/ Lapse(r) \/ CheckMember(r) \/ Join(r) \/ CountPending(r) \/ RecordJoin(r)
  \/ Commit(r)

Next ==
  \/ \E r \in Workers :
       BeginInvite(r) \/ BeginAccept(r) \/ Step(r) \/ Refuse(r) \/ Abort(r)
  \/ \E i \in Slots : Overdue(i)
  \/ ChangeStatus

Spec == Init /\ [][Next]_vars

(* A session that can move does; PostgreSQL grants locks in the order in   *)
(* which they were asked for, hence strong fairness.                       *)
FairSpec ==
  Spec /\ \A r \in Workers : SF_vars(Step(r)) /\ WF_vars(Step(r) \/ Refuse(r))

---------------------------------------------------------------------------
(* Properties                                                              *)

(* Every variable keeps its type; the phases of a session are those above. *)
TypeOK ==
  /\ deal \in Row
  /\ invitation \in [Slots -> Invitation]
  /\ members \subseteq Users \X DealRole
  /\ notified \subseteq Registered
  /\ evidence \subseteq Item
  /\ clock \in Nat
  /\ pc \in [Workers -> Flushing \cup {"idle", "row", "looked", "found", "checked"}]
  /\ job \in [Workers -> InviteJob \cup AcceptJob \cup {None}]
  /\ view \in [Workers -> View]
  /\ draft \in [Workers -> Draft]
  /\ requests \in Nat

Joins == {x \in evidence : x.kind = "PARTY_JOINED"}

(* Parties, answered invitations and the PARTY_JOINED evidence agree,      *)
(* whatever sessions race or fail: a party joined by an answer on record,  *)
(* an answer on record made its user a party, and an invitation that       *)
(* reads ACCEPTED was accepted by a party.                                 *)
JoinsRecorded ==
  /\ \A m \in members :
       \E x \in Joins : m = <<x.user, RoleOf[x.slot]>>
  /\ \A x \in Joins :
       /\ <<x.user, RoleOf[x.slot]>> \in members
       /\ invitation[x.slot].status \in {"ACCEPTED", "EXPIRED"}
       /\ invitation[x.slot].by # None
  /\ \A i \in Slots :
       invitation[i].status = "ACCEPTED" =>
         <<invitation[i].by, RoleOf[i]>> \in members

(* A reissue that raced an answer does not reopen the invitation.          *)
AnsweredStaysAnswered ==
  [][\A i \in Slots :
       invitation[i].status \in {"ACCEPTED", "EXPIRED"} =>
         invitation'[i].status # "PENDING"]_vars

(* A request that began comes to an answer: acceptances that lock their    *)
(* invitations and then the deal do not wait for each other for ever.      *)
RequestsFinish == \A r \in Workers : pc[r] # "idle" ~> pc[r] = "idle"

SomePending == \E i \in Slots : invitation[i].status = "PENDING"

(* Nobody has changed the deal since the session loaded it, and what it    *)
(* counted it would count again.                                           *)
SnapshotCurrent(r) == deal = view[r].deal /\ view[r].last = ~OthersPending(r)

(* Whatever else races, an acceptance that commits on the rows it read and *)
(* leaves no invitation pending moves the deal to the signatures, and none *)
(* moves it there while one is pending.                                    *)
SigningFollowsLastJoin ==
  [][\A r \in Workers :
       Commit(r) /\ draft[r].row.status = "ACCEPTED" /\ SnapshotCurrent(r) =>
         /\ ~SomePending' => deal'.status = "AWAITING_SIGNATURES"
         /\ deal'.status # deal.status => ~SomePending']_vars

(* "Invitation is invalid or already used": one answer per invitation.     *)
UsedOnce == \A x, y \in Joins : x.slot = y.slot => x = y
==========================================================================
