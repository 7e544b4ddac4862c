------------------------- MODULE InvitationsProofs -------------------------
(***************************************************************************)
(* Theorems about Invitations, for every set of sessions, slots and users. *)
(*                                                                         *)
(* Parties, answers and PARTY_JOINED evidence agree because a session      *)
(* flushes them together, and because what it flushed still fits the rows  *)
(* that others committed meanwhile: nobody deletes a party, and nobody     *)
(* else writes the row of an invitation whose lock it holds.               *)
(***************************************************************************)
EXTENDS Invitations, TLAPS

---------------------------------------------------------------------------
(* The invariant                                                           *)

(* A session at work has the request its phase needs.                      *)
AtWork(r) ==
  /\ pc[r] \in {"row", "looked", "inserted"} => job[r] \in InviteJob
  /\ pc[r] \in {"found", "checked", "joined", "counted"} => job[r] \in AcceptJob
  /\ pc[r] = "flushed" => job[r] \in InviteJob \cup AcceptJob

(* An invitation nobody has answered names nobody.                         *)
Unanswered(row) == row.status \in {"NONE", "PENDING"} => row.by = None

(* An acceptance found its invitation pending; whom it found to be a party *)
(* is one.                                                                 *)
Viewed(r) ==
  /\ Unanswered(view[r].row)
  /\ pc[r] \in {"checked", "joined", "counted"} =>
       /\ view[r].row.status = "PENDING"
       /\ view[r].member => Membership(r) \in members

(* The rows of an acceptance.                                              *)
Accepting(r) ==
  LET d == draft[r] IN
  /\ job[r] \in AcceptJob
  /\ view[r].row.status = "PENDING"
  /\ d.row.status = "ACCEPTED" /\ d.row.by = job[r].user
  /\ d.joins \subseteq {Membership(r)}
  /\ Membership(r) \in members \cup d.joins

(* The rows of a new invitation: the slot is still free.                   *)
Inviting(r) ==
  LET d == draft[r] IN
  /\ job[r] \in InviteJob
  /\ view[r].row.status # "PENDING"
  /\ d.row.status = "PENDING" /\ d.row.by = None /\ d.joins = {}
  /\ invitation[job[r].slot].status = "NONE"

(* The rows of a reissue, or of an invitation found expired.               *)
Renewing(r) ==
  LET d == draft[r] IN
  /\ \/ d.row.status = view[r].row.status
     \/ d.row.status = "EXPIRED" /\ view[r].row.status = "PENDING"
  /\ d.row.by = view[r].row.by
  /\ d.joins = {}

(* What a session has flushed, with the evidence or still without.         *)
Flushed(r) ==
  LET d == draft[r] IN
  /\ pc[r] = "inserted" => Inviting(r) /\ d.items = {}
  /\ pc[r] \in {"joined", "counted"} => Accepting(r) /\ d.items = {}
  /\ pc[r] = "flushed" =>
       \/ /\ Accepting(r)
          /\ \E x \in d.items :
               /\ x.kind = "PARTY_JOINED"
               /\ x.slot = job[r].slot /\ x.user = job[r].user
               /\ d.items = {x}
       \/ /\ Inviting(r) \/ Renewing(r)
          /\ \A x \in d.items : x.kind # "PARTY_JOINED"

Local(r) == AtWork(r) /\ Viewed(r) /\ Flushed(r)

(* One session at a time holds the row of an invitation.                   *)
Exclusive(r, q) ==
  pc[r] \in Flushing /\ pc[q] \in Flushing => job[r].slot # job[q].slot

InvitationsInv ==
  /\ TypeOK
  /\ JoinsRecorded
  /\ \A i \in Slots : Unanswered(invitation[i])
  /\ \A r \in Workers : Local(r)
  /\ \A r, q \in Workers : r # q => Exclusive(r, q)

(* Empty rows, and the rows and views of the right types.                  *)
LEMMA EmptyRows ==
  /\ NewDeal \in Row /\ NoRow \in Invitation
  /\ NoView \in View /\ NoDraft \in Draft
  /\ Unanswered(NoRow) /\ NoView.row = NoRow
<1>1. NewDeal \in Row /\ NoRow \in Invitation
  BY DEF NewDeal, NoRow, Row, Invitation, DealStatus
<1>2. NoView \in View
  BY <1>1 DEF NoView, View
<1>3. NoDraft \in Draft
  BY <1>1 DEF NoDraft, Draft
<1>4. NoView.row = NoRow /\ Unanswered(NoRow)
  BY DEF NoView, NoRow, Unanswered
<1> QED BY <1>1, <1>2, <1>3, <1>4

LEMMA InitInvitationsInv == Init => InvitationsInv
<1> SUFFICES ASSUME Init
             PROVE  InvitationsInv
  OBVIOUS
<1>1. TypeOK
  BY EmptyRows DEF Init, TypeOK
<1>2. JoinsRecorded
  BY DEF Init, JoinsRecorded, Joins, NoRow
<1>3. \A i \in Slots : Unanswered(invitation[i])
  BY EmptyRows DEF Init
<1>4. \A r \in Workers : Local(r)
  BY EmptyRows DEF Init, Local, AtWork, Viewed, Flushed
<1>5. \A r, q \in Workers : Exclusive(r, q)
  BY DEF Init, Exclusive, Flushing
<1> QED BY <1>1, <1>2, <1>3, <1>4, <1>5 DEF InvitationsInv

---------------------------------------------------------------------------
(* Steps of one session                                                    *)

Phases == Flushing \cup {"idle", "row", "looked", "found", "checked"}

Requests == InviteJob \cup AcceptJob

(* What another session has read and flushed stays as it should be while   *)
(* nobody leaves the deal and nobody writes the row it holds.              *)
LEMMA OtherSession ==
  ASSUME NEW q, Local(q), members \subseteq members',
         pc'[q] = pc[q], job'[q] = job[q], view'[q] = view[q],
         draft'[q] = draft[q],
         pc[q] \in {"inserted", "flushed"} =>
           invitation'[job[q].slot].status = invitation[job[q].slot].status
  PROVE  Local(q)'
<1>1. AtWork(q)'
  BY DEF Local, AtWork
<1>2. Membership(q)' = Membership(q)
  BY DEF Membership
<1>3. Viewed(q)'
  BY <1>2 DEF Local, Viewed, Unanswered
<1>4. Accepting(q) => Accepting(q)'
  BY <1>2 DEF Accepting
<1>5. pc[q] \in {"inserted", "flushed"} /\ Inviting(q) => Inviting(q)'
  BY DEF Inviting
<1>6. Renewing(q) => Renewing(q)'
  BY DEF Renewing
<1>7. Flushed(q)'
  BY <1>4, <1>5, <1>6 DEF Local, Flushed
<1> QED BY <1>1, <1>3, <1>7 DEF Local

(* A step that commits nothing and leaves its session as it should be.     *)
LEMMA OwnStep ==
  ASSUME InvitationsInv, NEW r \in Workers, UNCHANGED committed,
         clock' \in Nat, requests' \in Nat,
         NEW phase \in Phases, pc' = [pc EXCEPT ![r] = phase],
         NEW j \in Requests \cup {None}, job' = [job EXCEPT ![r] = j],
         NEW w \in View, view' = [view EXCEPT ![r] = w],
         NEW d \in Draft, draft' = [draft EXCEPT ![r] = d],
         Local(r)',
         \A q \in Workers \ {r} : Exclusive(r, q)'
  PROVE  InvitationsInv'
<1>1. TypeOK'
  BY DEF InvitationsInv, TypeOK, committed, Phases, Requests
<1>2. JoinsRecorded' /\ \A i \in Slots : Unanswered(invitation[i])'
  BY DEF InvitationsInv, JoinsRecorded, Joins, Unanswered, committed
<1>3. \A q \in Workers : q # r =>
        pc'[q] = pc[q] /\ job'[q] = job[q] /\ view'[q] = view[q]
          /\ draft'[q] = draft[q]
  BY DEF InvitationsInv, TypeOK
<1>4. ASSUME NEW q \in Workers, q # r
      PROVE  Local(q)'
  BY <1>3, <1>4, OtherSession DEF InvitationsInv, committed
<1>5. ASSUME NEW p \in Workers, NEW q \in Workers, p # q
      PROVE  Exclusive(p, q)'
  <2>1. CASE p = r
    BY <1>5, <2>1
  <2>2. CASE q = r
    <3>1. Exclusive(r, p)'
      BY <1>5, <2>2
    <3> QED BY <2>2, <3>1 DEF Exclusive
  <2>3. CASE p # r /\ q # r
    BY <1>3, <1>5, <2>3 DEF InvitationsInv, Exclusive
  <2> QED BY <2>1, <2>2, <2>3
<1> QED BY <1>1, <1>2, <1>4, <1>5 DEF InvitationsInv

(* A session that reads on, before it writes.                              *)
LEMMA ReadStep ==
  ASSUME InvitationsInv, NEW r \in Workers,
         UNCHANGED <<committed, clock, draft>>, requests' \in Nat,
         NEW phase \in Phases \ Flushing, pc' = [pc EXCEPT ![r] = phase],
         NEW j \in Requests \cup {None}, job' = [job EXCEPT ![r] = j],
         NEW w \in View, view' = [view EXCEPT ![r] = w],
         AtWork(r)', Viewed(r)'
  PROVE  InvitationsInv'
<1>1. /\ pc'[r] = phase /\ draft[r] \in Draft /\ clock' \in Nat
      /\ draft' = [draft EXCEPT ![r] = draft[r]]
  BY DEF InvitationsInv, TypeOK
<1>2. Flushed(r)'
  BY <1>1 DEF Flushed, Flushing
<1>3. \A q \in Workers \ {r} : Exclusive(r, q)'
  BY <1>1 DEF Exclusive
<1> QED BY <1>1, <1>2, <1>3, OwnStep DEF Local

(* A session that writes rows it holds, or that nobody else holds.         *)
LEMMA FlushStep ==
  ASSUME InvitationsInv, NEW r \in Workers,
         NEW to \in Flushing, NEW d \in Draft, Flush(r, to, d),
         clock' \in Nat, job[r] \in Requests,
         NEW w \in View, view' = [view EXCEPT ![r] = w],
         pc[r] \in Flushing \/ SlotFree(r),
         Local(r)'
  PROVE  InvitationsInv'
<1>1. /\ pc' = [pc EXCEPT ![r] = to] /\ draft' = [draft EXCEPT ![r] = d]
      /\ UNCHANGED <<committed, job, requests>>
      /\ job' = [job EXCEPT ![r] = job[r]] /\ requests' \in Nat
  BY DEF Flush, InvitationsInv, TypeOK
<1>2. ASSUME NEW q \in Workers \ {r}
      PROVE  Exclusive(r, q)'
  <2>1. pc'[q] = pc[q] /\ job' = job
    BY <1>1, <1>2 DEF InvitationsInv, TypeOK
  <2>2. CASE pc[r] \in Flushing
    BY <2>1, <2>2 DEF InvitationsInv, Exclusive
  <2>3. CASE SlotFree(r)
    BY <2>1, <2>3 DEF SlotFree, Exclusive
  <2> QED BY <2>2, <2>3
<1> QED BY <1>1, <1>2, OwnStep DEF Phases

(* A session that ends without a commit.                                   *)
LEMMA EndStep ==
  ASSUME InvitationsInv, NEW r \in Workers, EndSession(r),
         UNCHANGED <<committed, clock, requests>>
  PROVE  InvitationsInv'
<1>1. /\ pc' = [pc EXCEPT ![r] = "idle"] /\ job' = [job EXCEPT ![r] = None]
      /\ view' = [view EXCEPT ![r] = NoView]
      /\ draft' = [draft EXCEPT ![r] = NoDraft]
      /\ clock' \in Nat /\ requests' \in Nat
  BY DEF EndSession, InvitationsInv, TypeOK
<1>2. pc'[r] = "idle" /\ view'[r] = NoView
  BY <1>1 DEF InvitationsInv, TypeOK
<1>3. Local(r)'
  BY <1>2, EmptyRows DEF Local, AtWork, Viewed, Flushed
<1>4. \A q \in Workers \ {r} : Exclusive(r, q)'
  BY <1>2 DEF Exclusive, Flushing
<1> QED BY <1>1, <1>3, <1>4, EmptyRows, OwnStep DEF Phases

---------------------------------------------------------------------------
(* create_invitation                                                       *)

LEMMA BeginStep ==
  ASSUME InvitationsInv, NEW r \in Workers, NEW phase \in {"row", "found"},
         NEW j \in Requests, NEW w \in View, Begin(r, phase, j, w),
         phase = "row" => j \in InviteJob,
         phase = "found" => j \in AcceptJob,
         Unanswered(w.row)
  PROVE  InvitationsInv'
<1>1. /\ pc' = [pc EXCEPT ![r] = phase] /\ job' = [job EXCEPT ![r] = j]
      /\ view' = [view EXCEPT ![r] = w]
      /\ UNCHANGED <<committed, clock, draft>> /\ requests' \in Nat
  BY DEF Begin, InvitationsInv, TypeOK
<1>2. pc'[r] = phase /\ job'[r] = j /\ view'[r] = w
  BY <1>1 DEF InvitationsInv, TypeOK
<1>3. AtWork(r)' /\ Viewed(r)'
  BY <1>2 DEF AtWork, Viewed, Unanswered
<1>4. phase \in Phases \ Flushing
  BY DEF Phases, Flushing
<1> QED BY <1>1, <1>3, <1>4, ReadStep

LEMMA BeginInviteStep ==
  ASSUME InvitationsInv, NEW r \in Workers, BeginInvite(r)
  PROVE  InvitationsInv'
<1>1. PICK i \in Slots :
        Begin(r, "row", [kind |-> "Invite", slot |-> i, user |-> None],
              [NoView EXCEPT !.deal = deal])
  BY DEF BeginInvite
<1>2. PICK j : j = [kind |-> "Invite", slot |-> i, user |-> None]
  OBVIOUS
<1>3. PICK w : w = [NoView EXCEPT !.deal = deal]
  OBVIOUS
<1>4. j \in InviteJob
  BY <1>2 DEF InviteJob
<1>5. w \in View /\ w.row = NoRow
  BY <1>3, EmptyRows DEF InvitationsInv, TypeOK, View
<1> QED BY <1>1, <1>2, <1>3, <1>4, <1>5, EmptyRows, BeginStep DEF Requests

LEMMA LookUpStep ==
  ASSUME InvitationsInv, NEW r \in Workers, LookUp(r)
  PROVE  InvitationsInv'
<1>1. PICK w : w = [view[r] EXCEPT !.row = invitation[job[r].slot]]
  OBVIOUS
<1>2. /\ pc[r] = "row" /\ pc' = [pc EXCEPT ![r] = "looked"]
      /\ view' = [view EXCEPT ![r] = w]
      /\ UNCHANGED <<committed, clock, job, draft, requests>>
  BY <1>1 DEF LookUp, Select
<1>3. /\ job[r] \in InviteJob /\ view[r] \in View
      /\ job' = [job EXCEPT ![r] = job[r]]
      /\ requests' \in Nat
  BY <1>2 DEF InvitationsInv, TypeOK, Local, AtWork
<1>4. job[r].slot \in Slots
  BY <1>3 DEF InviteJob
<1>5. w \in View /\ Unanswered(w.row)
  BY <1>1, <1>3, <1>4 DEF InvitationsInv, TypeOK, View
<1>6. pc'[r] = "looked" /\ job'[r] = job[r] /\ view'[r] = w
  BY <1>2, <1>3 DEF InvitationsInv, TypeOK
<1>7. AtWork(r)' /\ Viewed(r)'
  BY <1>3, <1>5, <1>6 DEF AtWork, Viewed, Unanswered
<1> QED BY <1>2, <1>3, <1>5, <1>7, ReadStep DEF Phases, Flushing, Requests

(* An item of the evidence, linked to one of the items stamped last.       *)
LEMMA LinkIsInstant ==
  ASSUME TypeOK, NEW latest \in LatestInstants(evidence)
  PROVE  latest \in Nat
BY DEF LatestInstants, Instants, TypeOK, Item

LEMMA EvidenceFlush ==
  ASSUME InvitationsInv, NEW r \in Workers, NEW kind \in EvidenceKind,
         NEW rows \in Draft, FlushWithEvidence(r, kind, rows),
         job[r] \in Requests, rows.items = {}
  PROVE  \E d \in Draft, x \in Item :
           /\ d.deal = rows.deal /\ d.row = rows.row /\ d.joins = rows.joins
           /\ d.items = {x}
           /\ x.kind = kind /\ x.slot = job[r].slot /\ x.user = job[r].user
           /\ Flush(r, "flushed", d)
           /\ clock' \in Nat
           /\ view' = [view EXCEPT ![r] = view[r]]
<1>1. PICK latest \in LatestInstants(evidence) :
        /\ clock' = clock + 1
        /\ UNCHANGED view
        /\ Flush(r, "flushed",
             [rows EXCEPT !.items =
                {[at |-> clock + 1, prev |-> latest, kind |-> kind,
                  slot |-> job[r].slot, user |-> job[r].user]}])
  BY DEF FlushWithEvidence
<1>2. clock \in Nat /\ latest \in Nat /\ view \in [Workers -> View]
  BY LinkIsInstant DEF InvitationsInv, TypeOK
<1>3. job[r].slot \in Slots /\ job[r].user \in Users \cup {None}
  BY DEF Requests, InviteJob, AcceptJob
<1>4. PICK x : x = [at |-> clock + 1, prev |-> latest, kind |-> kind,
                    slot |-> job[r].slot, user |-> job[r].user]
  OBVIOUS
<1>5. x \in Item /\ x.kind = kind /\ x.slot = job[r].slot /\ x.user = job[r].user
  BY <1>2, <1>3, <1>4 DEF Item
<1>6. PICK d : d = [rows EXCEPT !.items = {x}]
  OBVIOUS
<1>7. /\ d \in Draft
      /\ d.deal = rows.deal /\ d.row = rows.row /\ d.joins = rows.joins
      /\ d.items = {x}
  BY <1>5, <1>6 DEF Draft
<1>8. Flush(r, "flushed", d)
  BY <1>1, <1>4, <1>6
<1>9. clock' \in Nat /\ view' = [view EXCEPT ![r] = view[r]]
  BY <1>1, <1>2
<1> QED BY <1>5, <1>7, <1>8, <1>9

LEMMA ReissueStep ==
  ASSUME InvitationsInv, NEW r \in Workers, Reissue(r)
  PROVE  InvitationsInv'
<1>1. PICK w : w = view[r]
  OBVIOUS
<1>2. PICK rows : rows = [NoDraft EXCEPT !.deal = w.deal, !.row = w.row,
                                         !.fresh = TRUE]
  OBVIOUS
<1>3. /\ pc[r] = "looked" /\ SlotFree(r)
      /\ FlushWithEvidence(r, "PARTY_INVITATION_REISSUED", rows)
  BY <1>1, <1>2 DEF Reissue
<1>4. job[r] \in InviteJob /\ w \in View
  BY <1>1, <1>3 DEF InvitationsInv, TypeOK, Local, AtWork
<1>5. rows \in Draft /\ rows.items = {} /\ rows.joins = {} /\ rows.row = w.row
  <2>1. w.deal \in Row /\ w.row \in Invitation
    BY <1>4 DEF View
  <2>2. rows = [deal |-> w.deal, row |-> w.row, fresh |-> TRUE, joins |-> {},
                items |-> {}]
    BY <1>2 DEF NoDraft
  <2> QED BY <2>1, <2>2 DEF Draft
<1>6. PICK d \in Draft, x \in Item :
        /\ d.row = w.row /\ d.joins = {} /\ d.items = {x}
        /\ x.kind = "PARTY_INVITATION_REISSUED"
        /\ Flush(r, "flushed", d)
        /\ clock' \in Nat
        /\ view' = [view EXCEPT ![r] = w]
  <2>1. /\ "PARTY_INVITATION_REISSUED" \in EvidenceKind
        /\ job[r] \in Requests
    BY <1>4 DEF EvidenceKind, Requests
  <2> QED BY <1>1, <1>3, <1>5, <2>1, EvidenceFlush
<1>7. pc'[r] = "flushed" /\ job'[r] = job[r] /\ view'[r] = w /\ draft'[r] = d
  BY <1>6 DEF Flush, InvitationsInv, TypeOK
<1>8. Local(r)'
  <2>1. AtWork(r)' /\ Viewed(r)'
    BY <1>1, <1>4, <1>7 DEF InvitationsInv, Local, AtWork, Viewed, Unanswered
  <2>2. Renewing(r)'
    BY <1>6, <1>7 DEF Renewing
  <2>3. Flushed(r)'
    BY <1>6, <1>7, <2>2 DEF Flushed
  <2> QED BY <2>1, <2>3 DEF Local
<1> QED BY <1>3, <1>4, <1>6, <1>8, FlushStep DEF Flushing, Requests

LEMMA InsertStep ==
  ASSUME InvitationsInv, NEW r \in Workers, Insert(r)
  PROVE  InvitationsInv'
<1>1. PICK w, row : w = view[r] /\ row = [NoRow EXCEPT !.status = "PENDING"]
  OBVIOUS
<1>2. PICK d : d = [NoDraft EXCEPT !.deal = w.deal, !.row = row]
  OBVIOUS
<1>3. /\ pc[r] = "looked" /\ w.row.status # "PENDING" /\ SlotFree(r)
      /\ invitation[job[r].slot].status = "NONE"
      /\ UNCHANGED <<clock, view>> /\ Flush(r, "inserted", d)
  BY <1>1, <1>2 DEF Insert, Insertable
<1>4. job[r] \in InviteJob /\ w \in View
  BY <1>1, <1>3 DEF InvitationsInv, TypeOK, Local, AtWork
<1>5. row \in Invitation /\ row.status = "PENDING" /\ row.by = None
  BY <1>1 DEF NoRow, Invitation
<1>6. d \in Draft /\ d.row = row /\ d.joins = {} /\ d.items = {}
  BY <1>2, <1>4, <1>5, EmptyRows DEF NoDraft, Draft, View
<1>7. /\ pc'[r] = "inserted" /\ job'[r] = job[r] /\ view'[r] = w
      /\ draft'[r] = d /\ invitation' = invitation
      /\ clock' \in Nat /\ view' = [view EXCEPT ![r] = w]
  BY <1>1, <1>3 DEF Flush, InvitationsInv, TypeOK, committed
<1>8. Local(r)'
  <2>1. AtWork(r)' /\ Viewed(r)'
    BY <1>1, <1>4, <1>7 DEF InvitationsInv, Local, AtWork, Viewed, Unanswered
  <2>2. Inviting(r)'
    BY <1>3, <1>4, <1>5, <1>6, <1>7 DEF Inviting
  <2>3. Flushed(r)'
    BY <1>6, <1>7, <2>2 DEF Flushed
  <2> QED BY <2>1, <2>3 DEF Local
<1> QED BY <1>3, <1>4, <1>6, <1>7, <1>8, FlushStep DEF Flushing, Requests

(* What the handlers make of the deal they loaded is a row of deals.       *)
LEMMA EffectsAreRows ==
  ASSUME NEW d \in Row
  PROVE  /\ AfterInvite(d) \in Row
         /\ AfterLastJoin(d) \in Row
         /\ \A target \in DealStatus : AfterTransition(d, target) \in Row
<1>1. \A s \in DealStatus, v \in Nat :
        [d EXCEPT !.status = s, !.version = v] \in Row
  BY DEF Row
<1>2. d.version + 1 \in Nat
  BY DEF Row
<1>3. "AWAITING_PARTIES" \in DealStatus /\ "AWAITING_SIGNATURES" \in DealStatus
  BY DEF DealStatus
<1>4. AfterInvite(d) \in Row
  BY <1>1, <1>2, <1>3 DEF AfterInvite
<1>5. AfterLastJoin(d) \in Row
  BY <1>1, <1>2, <1>3 DEF AfterLastJoin
<1>6. \A target \in DealStatus : AfterTransition(d, target) \in Row
  BY <1>1, <1>2 DEF AfterTransition
<1> QED BY <1>4, <1>5, <1>6

(* A session that completes what it flushed with its evidence.             *)
LEMMA CompleteStep ==
  ASSUME InvitationsInv, NEW r \in Workers, NEW to \in {"inserted", "counted"},
         pc[r] = to, NEW kind \in EvidenceKind, NEW moved \in Row,
         FlushWithEvidence(r, kind, [draft[r] EXCEPT !.deal = moved]),
         (kind = "PARTY_JOINED") <=> (to = "counted")
  PROVE  InvitationsInv'
<1>1. PICK b, w : b = draft[r] /\ w = view[r]
  OBVIOUS
<1>2. PICK rows : rows = [b EXCEPT !.deal = moved]
  OBVIOUS
<1>3. /\ b \in Draft /\ w \in View /\ b.items = {} /\ job[r] \in Requests
      /\ to = "inserted" => job[r] \in InviteJob /\ Inviting(r)
      /\ to = "counted" => job[r] \in AcceptJob /\ Accepting(r)
  BY <1>1 DEF InvitationsInv, TypeOK, Local, AtWork, Flushed, Requests
<1>4. /\ rows \in Draft /\ rows.row = b.row /\ rows.joins = b.joins
      /\ rows.items = {}
  BY <1>2, <1>3 DEF Draft
<1>5. PICK d \in Draft, x \in Item :
        /\ d.row = b.row /\ d.joins = b.joins /\ d.items = {x}
        /\ x.kind = kind /\ x.slot = job[r].slot /\ x.user = job[r].user
        /\ Flush(r, "flushed", d)
        /\ clock' \in Nat
        /\ view' = [view EXCEPT ![r] = w]
  <2>1. FlushWithEvidence(r, kind, rows)
    BY <1>1, <1>2
  <2>2. \E d \in Draft, x \in Item :
          /\ d.deal = rows.deal /\ d.row = rows.row /\ d.joins = rows.joins
          /\ d.items = {x}
          /\ x.kind = kind /\ x.slot = job[r].slot /\ x.user = job[r].user
          /\ Flush(r, "flushed", d)
          /\ clock' \in Nat
          /\ view' = [view EXCEPT ![r] = view[r]]
    BY <1>3, <1>4, <2>1, EvidenceFlush
  <2> QED BY <1>1, <1>4, <2>2
<1>6. /\ pc'[r] = "flushed" /\ job'[r] = job[r] /\ view'[r] = w
      /\ draft'[r] = d /\ UNCHANGED <<invitation, members>>
  BY <1>5 DEF Flush, InvitationsInv, TypeOK, committed
<1>7. AtWork(r)' /\ Viewed(r)'
  <2>1. AtWork(r)'
    BY <1>3, <1>6 DEF AtWork, Requests
  <2>2. Unanswered(w.row)
    BY <1>1 DEF InvitationsInv, Local, Viewed
  <2>3. Viewed(r)'
    BY <1>6, <2>2 DEF Viewed, Unanswered
  <2> QED BY <2>1, <2>3
<1>8. to = "inserted" => Inviting(r)'
  BY <1>1, <1>3, <1>5, <1>6 DEF Inviting
<1>9. to = "counted" => Accepting(r)'
  BY <1>1, <1>3, <1>5, <1>6 DEF Accepting, Membership
<1>10. Flushed(r)'
  BY <1>5, <1>6, <1>8, <1>9 DEF Flushed
<1> QED BY <1>3, <1>5, <1>7, <1>10, FlushStep DEF Flushing, Local

LEMMA AnnounceStep ==
  ASSUME InvitationsInv, NEW r \in Workers, Announce(r)
  PROVE  InvitationsInv'
<1>1. PICK moved : moved = AfterInvite(view[r].deal)
  OBVIOUS
<1>2. /\ pc[r] = "inserted"
      /\ FlushWithEvidence(r, "PARTY_INVITED", [draft[r] EXCEPT !.deal = moved])
  BY <1>1 DEF Announce
<1>3. view[r].deal \in Row
  BY DEF InvitationsInv, TypeOK, View
<1>4. moved \in Row /\ "PARTY_INVITED" \in EvidenceKind
  BY <1>1, <1>3, EffectsAreRows DEF EvidenceKind
<1> QED BY <1>2, <1>4, CompleteStep

---------------------------------------------------------------------------
(* accept_invitation, accept_invitation_by_id                              *)

LEMMA BeginAcceptStep ==
  ASSUME InvitationsInv, NEW r \in Workers, BeginAccept(r)
  PROVE  InvitationsInv'
<1>1. PICK u \in Users, i \in Slots :
        Begin(r, "found", [kind |-> "Accept", slot |-> i, user |-> u],
              [NoView EXCEPT !.row = invitation[i]])
  BY DEF BeginAccept
<1>2. PICK j : j = [kind |-> "Accept", slot |-> i, user |-> u]
  OBVIOUS
<1>3. PICK w : w = [NoView EXCEPT !.row = invitation[i]]
  OBVIOUS
<1>4. j \in AcceptJob
  BY <1>2 DEF AcceptJob
<1>5. w \in View /\ w.row = invitation[i] /\ Unanswered(w.row)
  BY <1>3, EmptyRows DEF InvitationsInv, TypeOK, View
<1> QED BY <1>1, <1>2, <1>3, <1>4, <1>5, BeginStep DEF Requests

LEMMA LapseStep ==
  ASSUME InvitationsInv, NEW r \in Workers, Lapse(r)
  PROVE  InvitationsInv'
<1>1. PICK w : w = view[r]
  OBVIOUS
<1>2. PICK row : row = [w.row EXCEPT !.status = "EXPIRED"]
  OBVIOUS
<1>3. PICK d : d = [NoDraft EXCEPT !.deal = w.deal, !.row = row]
  OBVIOUS
<1>4. /\ pc[r] = "found" /\ w.row.status = "PENDING" /\ SlotFree(r)
      /\ UNCHANGED <<clock, view>> /\ Flush(r, "flushed", d)
  BY <1>1, <1>2, <1>3 DEF Lapse
<1>5. job[r] \in AcceptJob /\ w \in View
  BY <1>1, <1>4 DEF InvitationsInv, TypeOK, Local, AtWork
<1>6. row \in Invitation /\ row.status = "EXPIRED" /\ row.by = w.row.by
  BY <1>2, <1>5 DEF View, Invitation
<1>7. d \in Draft /\ d.row = row /\ d.joins = {} /\ d.items = {}
  BY <1>3, <1>5, <1>6, EmptyRows DEF NoDraft, Draft, View
<1>8. /\ pc'[r] = "flushed" /\ job'[r] = job[r] /\ view'[r] = w
      /\ draft'[r] = d /\ clock' \in Nat /\ view' = [view EXCEPT ![r] = w]
  BY <1>1, <1>4 DEF Flush, InvitationsInv, TypeOK
<1>9. Local(r)'
  <2>1. AtWork(r)' /\ Viewed(r)'
    BY <1>1, <1>5, <1>8 DEF InvitationsInv, Local, AtWork, Viewed, Unanswered
  <2>2. Renewing(r)'
    BY <1>4, <1>6, <1>7, <1>8 DEF Renewing
  <2>3. Flushed(r)'
    BY <1>7, <1>8, <2>2 DEF Flushed
  <2> QED BY <2>1, <2>3 DEF Local
<1> QED BY <1>4, <1>5, <1>7, <1>8, <1>9, FlushStep DEF Flushing, Requests

LEMMA CheckMemberStep ==
  ASSUME InvitationsInv, NEW r \in Workers, CheckMember(r)
  PROVE  InvitationsInv'
<1>1. PICK w : w = [view[r] EXCEPT !.member = IsMember(r)]
  OBVIOUS
<1>2. /\ pc[r] = "found" /\ pc' = [pc EXCEPT ![r] = "checked"]
      /\ view' = [view EXCEPT ![r] = w] /\ view[r].row.status = "PENDING"
      /\ UNCHANGED <<committed, clock, job, draft, requests>>
  BY <1>1 DEF CheckMember, Select, Open
<1>3. /\ job[r] \in AcceptJob /\ view[r] \in View /\ Unanswered(view[r].row)
      /\ job' = [job EXCEPT ![r] = job[r]]
      /\ requests' \in Nat
  BY <1>2 DEF InvitationsInv, TypeOK, Local, AtWork, Viewed
<1>4. IsMember(r) \in BOOLEAN
  BY DEF IsMember
<1>5. w \in View /\ w.row = view[r].row /\ (w.member <=> IsMember(r))
  BY <1>1, <1>3, <1>4 DEF View
<1>6. /\ pc'[r] = "checked" /\ job'[r] = job[r] /\ view'[r] = w
      /\ members' = members
  BY <1>2, <1>3 DEF InvitationsInv, TypeOK, committed
<1>7. AtWork(r)'
  BY <1>3, <1>6 DEF AtWork
<1>8. Viewed(r)'
  BY <1>2, <1>3, <1>5, <1>6 DEF Viewed, Unanswered, IsMember, Membership
<1> QED BY <1>2, <1>3, <1>5, <1>7, <1>8, ReadStep DEF Phases, Flushing, Requests

(* Who accepts becomes a party in the role of the invitation.              *)
LEMMA MembershipTyped ==
  ASSUME NEW r, job[r] \in AcceptJob
  PROVE  Membership(r) \in Users \X DealRole /\ job[r].user \in Users
<1>1. job[r].user \in Users /\ job[r].slot \in Slots
  BY DEF AcceptJob
<1>2. RoleOf[job[r].slot] \in DealRole
  BY <1>1, InvitationAssumption DEF DealRole
<1> QED BY <1>1, <1>2 DEF Membership

LEMMA JoinStep ==
  ASSUME InvitationsInv, NEW r \in Workers, Join(r)
  PROVE  InvitationsInv'
<1>1. PICK v, w : v = view[r] /\ w = [v EXCEPT !.deal = deal]
  OBVIOUS
<1>2. PICK row : row = [v.row EXCEPT !.status = "ACCEPTED", !.by = job[r].user]
  OBVIOUS
<1>3. PICK joins : joins = IF v.member THEN {} ELSE {Membership(r)}
  OBVIOUS
<1>4. PICK d : d = [NoDraft EXCEPT !.deal = deal, !.row = row, !.joins = joins]
  OBVIOUS
<1>5. /\ pc[r] = "checked" /\ SlotFree(r)
      /\ view' = [view EXCEPT ![r] = w]
      /\ UNCHANGED clock /\ Flush(r, "joined", d)
  BY <1>1, <1>2, <1>3, <1>4 DEF Join
<1>6. /\ job[r] \in AcceptJob /\ v \in View /\ deal \in Row
      /\ v.row.status = "PENDING" /\ Unanswered(v.row)
      /\ v.member => Membership(r) \in members
  BY <1>1, <1>5 DEF InvitationsInv, TypeOK, Local, AtWork, Viewed
<1>7. Membership(r) \in Users \X DealRole /\ job[r].user \in Users
  BY <1>6, MembershipTyped
<1>8. row \in Invitation /\ row.status = "ACCEPTED" /\ row.by = job[r].user
  <2>1. v.row \in Invitation
    BY <1>6 DEF View
  <2> QED BY <1>2, <1>7, <2>1 DEF Invitation
<1>9. w \in View /\ w.row = v.row /\ w.member = v.member
  BY <1>1, <1>6 DEF View
<1>10. joins \subseteq {Membership(r)} /\ Membership(r) \in members \cup joins
  BY <1>3, <1>6
<1>11. d \in Draft /\ d.row = row /\ d.joins = joins /\ d.items = {}
  <2>1. d = [deal |-> deal, row |-> row, fresh |-> FALSE, joins |-> joins,
             items |-> {}]
    BY <1>4 DEF NoDraft
  <2>2. joins \in SUBSET (Users \X DealRole)
    BY <1>7, <1>10
  <2> QED BY <1>6, <1>8, <2>1, <2>2 DEF Draft
<1>12. /\ pc'[r] = "joined" /\ job'[r] = job[r] /\ view'[r] = w
       /\ draft'[r] = d /\ clock' \in Nat /\ members' = members
  BY <1>5 DEF Flush, InvitationsInv, TypeOK, committed
<1>13. AtWork(r)' /\ Viewed(r)'
  BY <1>6, <1>9, <1>12 DEF AtWork, Viewed, Unanswered, Membership
<1>14. Accepting(r)'
  BY <1>6, <1>8, <1>9, <1>10, <1>11, <1>12 DEF Accepting, Membership
<1>15. Flushed(r)'
  BY <1>11, <1>12, <1>14 DEF Flushed
<1> QED BY <1>5, <1>6, <1>9, <1>11, <1>12, <1>13, <1>15, FlushStep
        DEF Flushing, Requests, Local

LEMMA CountPendingStep ==
  ASSUME InvitationsInv, NEW r \in Workers, CountPending(r)
  PROVE  InvitationsInv'
<1>1. PICK v, w : v = view[r] /\ w = [v EXCEPT !.last = ~OthersPending(r)]
  OBVIOUS
<1>2. /\ pc[r] = "joined" /\ pc' = [pc EXCEPT ![r] = "counted"]
      /\ view' = [view EXCEPT ![r] = w]
      /\ UNCHANGED <<committed, clock, job, draft, requests>>
  BY <1>1 DEF CountPending, Select
<1>3. /\ job[r] \in AcceptJob /\ v \in View /\ draft[r] \in Draft
      /\ v.row.status = "PENDING" /\ Unanswered(v.row)
      /\ v.member => Membership(r) \in members
      /\ Accepting(r) /\ draft[r].items = {}
  BY <1>1, <1>2 DEF InvitationsInv, TypeOK, Local, AtWork, Viewed, Flushed
<1>4. OthersPending(r) \in BOOLEAN
  BY DEF OthersPending
<1>5. w \in View /\ w.row = v.row /\ w.member = v.member
  BY <1>1, <1>3, <1>4 DEF View
<1>6. /\ pc'[r] = "counted" /\ job'[r] = job[r] /\ view'[r] = w
      /\ draft'[r] = draft[r] /\ clock' \in Nat /\ members' = members
  BY <1>2 DEF InvitationsInv, TypeOK, committed
<1>7. AtWork(r)' /\ Viewed(r)'
  BY <1>3, <1>5, <1>6 DEF AtWork, Viewed, Unanswered, Membership
<1>8. Accepting(r)'
  BY <1>1, <1>3, <1>5, <1>6 DEF Accepting, Membership
<1>9. Flushed(r)'
  BY <1>3, <1>6, <1>8 DEF Flushed
<1>10. Flush(r, "counted", draft[r])
  BY <1>2 DEF Flush, InvitationsInv, TypeOK
<1> QED BY <1>2, <1>3, <1>5, <1>6, <1>7, <1>9, <1>10, FlushStep
        DEF Flushing, Requests, Local

LEMMA RecordJoinStep ==
  ASSUME InvitationsInv, NEW r \in Workers, RecordJoin(r)
  PROVE  InvitationsInv'
<1>1. PICK moved : moved = IF view[r].last THEN AfterLastJoin(view[r].deal)
                                           ELSE view[r].deal
  OBVIOUS
<1>2. /\ pc[r] = "counted"
      /\ FlushWithEvidence(r, "PARTY_JOINED", [draft[r] EXCEPT !.deal = moved])
  BY <1>1 DEF RecordJoin
<1>3. view[r].deal \in Row
  BY DEF InvitationsInv, TypeOK, View
<1>4. moved \in Row /\ "PARTY_JOINED" \in EvidenceKind
  BY <1>1, <1>3, EffectsAreRows DEF EvidenceKind
<1> QED BY <1>2, <1>4, CompleteStep

---------------------------------------------------------------------------
(* The commit                                                              *)

(* The UPDATE of the invitation, whatever was committed meanwhile: only    *)
(* what an acceptance flushed makes it accepted, and only a row that was   *)
(* not there becomes pending.                                              *)
LEMMA CommittedRow ==
  ASSUME InvitationsInv, NEW r \in Workers, Commit(r)
  PROVE  /\ job[r] \in Requests
         /\ \E row \in Invitation :
              /\ invitation' = [invitation EXCEPT ![job[r].slot] = row]
              /\ Unanswered(row)
              /\ \/ Accepting(r) /\ row.status = "ACCEPTED"
                                 /\ row.by = job[r].user
                 \/ Inviting(r) /\ row.status = "PENDING"
                 \/ /\ Renewing(r)
                    /\ row.by = invitation[job[r].slot].by
                    /\ row.status \in {invitation[job[r].slot].status, "EXPIRED"}
<1>1. PICK slot, cur, old, new :
        /\ slot = job[r].slot /\ cur = invitation[slot]
        /\ old = view[r].row /\ new = draft[r].row
  OBVIOUS
<1>2. pc[r] = "flushed"
  BY DEF Commit
<1>3. /\ job[r] \in Requests /\ Unanswered(old)
      /\ Accepting(r) \/ Inviting(r) \/ Renewing(r)
  BY <1>1, <1>2 DEF InvitationsInv, Local, AtWork, Viewed, Flushed, Requests
<1>4. slot \in Slots
  BY <1>1, <1>3 DEF Requests, InviteJob, AcceptJob
<1>5. /\ cur \in Invitation /\ Unanswered(cur)
      /\ old \in Invitation /\ new \in Invitation
  BY <1>1, <1>4 DEF InvitationsInv, TypeOK, View, Draft
<1>6. PICK row : row = Written(old, new, cur, draft[r].fresh)
  OBVIOUS
<1>7. invitation' = [invitation EXCEPT ![slot] = row]
  BY <1>1, <1>6 DEF Commit
<1>8. draft[r].fresh \in BOOLEAN
  BY DEF InvitationsInv, TypeOK, Draft
<1>9. /\ row.status = Column(old.status, new.status, cur.status)
      /\ row.by = Column(old.by, new.by, cur.by)
      /\ row \in Invitation
  BY <1>5, <1>6, <1>8 DEF Written, Column, Invitation
<1>10. CASE Accepting(r)
  <2>1. /\ old.status = "PENDING" /\ new.status = "ACCEPTED"
        /\ new.by = job[r].user /\ new.by # None
    BY <1>1, <1>10, InvitationAssumption DEF Accepting, AcceptJob
  <2>2. old.by = None
    BY <1>3, <2>1 DEF Unanswered
  <2>3. row.status = "ACCEPTED" /\ row.by = job[r].user
    BY <1>9, <2>1, <2>2 DEF Column
  <2> QED BY <1>1, <1>3, <1>7, <1>9, <1>10, <2>3 DEF Unanswered
<1>11. CASE Inviting(r)
  <2>1. cur.status = "NONE" /\ new.by = None /\ cur.by = None
    BY <1>1, <1>5, <1>11 DEF Inviting, Unanswered
  <2>2. new.status = "PENDING" /\ old.status # "PENDING"
    BY <1>1, <1>11 DEF Inviting
  <2>3. row.by = None /\ row.status = "PENDING"
    BY <1>9, <2>1, <2>2 DEF Column
  <2> QED BY <1>1, <1>3, <1>7, <1>9, <1>11, <2>3 DEF Unanswered
<1>12. CASE Renewing(r)
  <2>1. /\ new.by = old.by
        /\ new.status = old.status \/ new.status = "EXPIRED"
    BY <1>1, <1>12 DEF Renewing
  <2>2. row.by = cur.by /\ row.status \in {cur.status, "EXPIRED"}
    BY <1>9, <2>1 DEF Column
  <2>3. Unanswered(row)
    BY <1>5, <2>2 DEF Unanswered
  <2> QED BY <1>1, <1>3, <1>7, <1>9, <1>12, <2>2, <2>3
<1> QED BY <1>3, <1>10, <1>11, <1>12

(* The rest of what a commit writes.                                       *)
LEMMA CommittedRows ==
  ASSUME InvitationsInv, NEW r \in Workers, Commit(r)
  PROVE  /\ deal' \in Row
         /\ members' = members \cup draft[r].joins
         /\ notified' \subseteq Registered
         /\ evidence' = evidence \cup draft[r].items
         /\ draft[r] \in Draft
         /\ EndSession(r)
         /\ UNCHANGED <<clock, requests>>
<1>1. PICK old, new : old = view[r].deal /\ new = draft[r].deal
  OBVIOUS
<1>2. /\ members' = members \cup draft[r].joins
      /\ evidence' = evidence \cup draft[r].items
      /\ EndSession(r) /\ UNCHANGED <<clock, requests>>
      /\ deal' = [status  |-> Column(old.status, new.status, deal.status),
                  version |-> Column(old.version, new.version, deal.version)]
  BY <1>1 DEF Commit
<1>3. old \in Row /\ new \in Row /\ deal \in Row /\ draft[r] \in Draft
  BY <1>1 DEF InvitationsInv, TypeOK, View, Draft
<1>4. deal' \in Row
  BY <1>2, <1>3 DEF Column, Row
<1>5. notified' \subseteq Registered
  BY DEF Commit, InvitationsInv, TypeOK
<1> QED BY <1>2, <1>3, <1>4, <1>5

(* The evidence of joins grows by the acceptance that is committed.        *)
LEMMA CommittedJoins ==
  ASSUME InvitationsInv, NEW r \in Workers, Commit(r)
  PROVE  \A x \in Joins' :
           x \in Joins \/ /\ Accepting(r)
                          /\ x.slot = job[r].slot /\ x.user = job[r].user
<1>1. evidence' = evidence \cup draft[r].items /\ pc[r] = "flushed"
  BY CommittedRows DEF Commit
<1>2. Flushed(r)
  BY DEF InvitationsInv, Local
<1> QED BY <1>1, <1>2 DEF Flushed, Joins

LEMMA CommitJoinsRecorded ==
  ASSUME InvitationsInv, NEW r \in Workers, Commit(r)
  PROVE  JoinsRecorded'
<1>1. PICK slot, d : slot = job[r].slot /\ d = draft[r]
  OBVIOUS
<1>2. /\ members' = members \cup d.joins
      /\ evidence' = evidence \cup d.items
      /\ pc[r] = "flushed" /\ d \in Draft /\ TypeOK /\ JoinsRecorded
  BY <1>1, CommittedRows DEF Commit, InvitationsInv
<1>3. PICK row \in Invitation :
        /\ slot \in Slots
        /\ invitation' = [invitation EXCEPT ![slot] = row]
        /\ \/ Accepting(r) /\ row.status = "ACCEPTED" /\ row.by = job[r].user
           \/ Inviting(r) /\ row.status = "PENDING"
           \/ /\ Renewing(r)
              /\ row.by = invitation[slot].by
              /\ row.status \in {invitation[slot].status, "EXPIRED"}
  BY <1>1, CommittedRow DEF Requests, InviteJob, AcceptJob
<1>4. /\ invitation'[slot] = row
      /\ \A i \in Slots : i # slot => invitation'[i] = invitation[i]
  BY <1>2, <1>3 DEF TypeOK
<1>5. Joins \subseteq Joins' /\ members \subseteq members'
  BY <1>2 DEF Joins
<1>6. Accepting(r) =>
        /\ <<job[r].user, RoleOf[slot]>> \in members'
        /\ job[r].user # None
        /\ d.joins \subseteq {<<job[r].user, RoleOf[slot]>>}
  BY <1>1, <1>2, InvitationAssumption DEF Accepting, Membership, AcceptJob
<1>7. ASSUME NEW m \in members'
      PROVE  \E x \in Joins' : m = <<x.user, RoleOf[x.slot]>>
  <2>1. CASE m \in members
    <3>1. PICK x \in Joins : m = <<x.user, RoleOf[x.slot]>>
      BY <1>2, <2>1 DEF JoinsRecorded
    <3> QED BY <1>5, <3>1
  <2>2. CASE m \in d.joins
    <3>1. Accepting(r)
      BY <1>1, <1>2, <2>2 DEF InvitationsInv, Local, Flushed, Inviting, Renewing
    <3>2. \E x \in d.items :
            x.kind = "PARTY_JOINED" /\ x.slot = slot /\ x.user = job[r].user
      BY <1>1, <1>2, <2>2
      DEF InvitationsInv, Local, Flushed, Inviting, Renewing
    <3>3. PICK x \in Joins' : x.slot = slot /\ x.user = job[r].user
      BY <1>2, <3>2 DEF Joins
    <3> QED BY <1>6, <2>2, <3>1, <3>3
  <2> QED BY <1>2, <2>1, <2>2
<1>8. ASSUME NEW x \in Joins'
      PROVE  /\ <<x.user, RoleOf[x.slot]>> \in members'
             /\ invitation'[x.slot].status \in {"ACCEPTED", "EXPIRED"}
             /\ invitation'[x.slot].by # None
  <2>1. CASE x \in Joins
    <3>1. /\ <<x.user, RoleOf[x.slot]>> \in members
          /\ invitation[x.slot].status \in {"ACCEPTED", "EXPIRED"}
          /\ invitation[x.slot].by # None
      BY <1>2, <2>1 DEF JoinsRecorded
    <3>2. x.slot \in Slots
      BY <1>2, <2>1 DEF TypeOK, Joins, Item
    <3>3. CASE x.slot # slot
      BY <1>4, <1>5, <3>1, <3>2, <3>3
    <3>4. CASE x.slot = slot
      <4>1. ~Inviting(r)
        BY <1>1, <3>1, <3>4 DEF Inviting
      <4> QED BY <1>3, <1>4, <1>5, <1>6, <3>1, <3>4, <4>1
    <3> QED BY <3>3, <3>4
  <2>2. CASE x \notin Joins
    <3>1. Accepting(r) /\ x.slot = slot /\ x.user = job[r].user
      BY <1>1, <1>8, <2>2, CommittedJoins
    <3>2. ~Inviting(r) /\ ~Renewing(r)
      BY <3>1 DEF Accepting, Inviting, Renewing, AcceptJob, InviteJob
    <3> QED BY <1>3, <1>4, <1>6, <3>1, <3>2
  <2> QED BY <2>1, <2>2
<1>9. ASSUME NEW i \in Slots, invitation'[i].status = "ACCEPTED"
      PROVE  <<invitation'[i].by, RoleOf[i]>> \in members'
  <2>1. CASE i # slot
    BY <1>2, <1>4, <1>5, <1>9, <2>1 DEF JoinsRecorded
  <2>2. CASE i = slot
    BY <1>2, <1>3, <1>4, <1>5, <1>6, <1>9, <2>2 DEF JoinsRecorded
  <2> QED BY <2>1, <2>2
<1> QED BY <1>7, <1>8, <1>9 DEF JoinsRecorded

(* Another session's rows fit what this one has committed.                 *)
LEMMA CommitOthers ==
  ASSUME InvitationsInv, NEW r \in Workers, Commit(r),
         NEW q \in Workers, q # r
  PROVE  Local(q)' /\ pc'[q] = pc[q] /\ job'[q] = job[q]
<1>1. /\ pc'[q] = pc[q] /\ job'[q] = job[q] /\ view'[q] = view[q]
      /\ draft'[q] = draft[q]
  BY CommittedRows DEF EndSession, InvitationsInv, TypeOK
<1>2. members \subseteq members'
  BY CommittedRows
<1>3. ASSUME pc[q] \in {"inserted", "flushed"}
      PROVE  invitation'[job[q].slot] = invitation[job[q].slot]
  <2>1. job[q] \in Requests
    BY <1>3 DEF InvitationsInv, Local, AtWork, Requests
  <2>2. job[q].slot \in Slots
    BY <2>1 DEF Requests, InviteJob, AcceptJob
  <2>3. job[q].slot # job[r].slot
    BY <1>3 DEF Commit, InvitationsInv, Exclusive, Flushing
  <2>4. PICK row : invitation' = [invitation EXCEPT ![job[r].slot] = row]
    BY CommittedRow
  <2> QED BY <2>2, <2>3, <2>4 DEF InvitationsInv, TypeOK
<1>4. Local(q)'
  BY <1>1, <1>2, <1>3, OtherSession DEF InvitationsInv
<1> QED BY <1>1, <1>4

LEMMA CommitStep ==
  ASSUME InvitationsInv, NEW r \in Workers, Commit(r)
  PROVE  InvitationsInv'
<1>1. /\ pc' = [pc EXCEPT ![r] = "idle"] /\ job' = [job EXCEPT ![r] = None]
      /\ view' = [view EXCEPT ![r] = NoView]
      /\ draft' = [draft EXCEPT ![r] = NoDraft]
      /\ UNCHANGED <<clock, requests>>
  BY CommittedRows DEF EndSession
<1>2. pc'[r] = "idle" /\ view'[r] = NoView /\ TypeOK
  BY <1>1 DEF InvitationsInv, TypeOK
<1>3. PICK row \in Invitation :
        /\ invitation' = [invitation EXCEPT ![job[r].slot] = row]
        /\ Unanswered(row)
  BY CommittedRow
<1>4. TypeOK'
  <2>1. invitation' \in [Slots -> Invitation]
    BY <1>2, <1>3 DEF TypeOK
  <2>2. members' \subseteq Users \X DealRole /\ evidence' \subseteq Item
    BY <1>2, CommittedRows DEF TypeOK, Draft
  <2>3. deal' \in Row /\ notified' \subseteq Registered
    BY CommittedRows
  <2>4. /\ pc' \in [Workers -> Flushing \cup
                                 {"idle", "row", "looked", "found", "checked"}]
        /\ job' \in [Workers -> InviteJob \cup AcceptJob \cup {None}]
        /\ view' \in [Workers -> View] /\ draft' \in [Workers -> Draft]
        /\ clock' \in Nat /\ requests' \in Nat
    BY <1>1, <1>2, EmptyRows DEF TypeOK
  <2> QED BY <2>1, <2>2, <2>3, <2>4 DEF TypeOK
<1>5. JoinsRecorded'
  BY CommitJoinsRecorded
<1>6. \A i \in Slots : Unanswered(invitation'[i])
  BY <1>2, <1>3 DEF InvitationsInv, TypeOK
<1>7. ASSUME NEW q \in Workers
      PROVE  Local(q)'
  <2>1. CASE q = r
    BY <1>2, <2>1, EmptyRows DEF Local, AtWork, Viewed, Flushed
  <2> QED BY <2>1, CommitOthers
<1>8. ASSUME NEW p \in Workers, NEW q \in Workers, p # q
      PROVE  Exclusive(p, q)'
  <2>1. CASE p = r \/ q = r
    BY <1>2, <2>1 DEF Exclusive, Flushing
  <2>2. CASE p # r /\ q # r
    BY <1>8, <2>2, CommitOthers DEF InvitationsInv, Exclusive
  <2> QED BY <2>1, <2>2
<1>9. \A i \in Slots : Unanswered(invitation[i])'
  BY <1>6 DEF Unanswered
<1> QED BY <1>4, <1>5, <1>7, <1>8, <1>9 DEF InvitationsInv

---------------------------------------------------------------------------
(* Time, and managers                                                      *)

LEMMA OverdueStep ==
  ASSUME InvitationsInv, NEW i \in Slots, Overdue(i)
  PROVE  InvitationsInv'
<1>1. /\ invitation' = [invitation EXCEPT ![i].overdue = TRUE]
      /\ UNCHANGED <<deal, members, notified, evidence, clock, pc, job, view,
                     draft, requests>>
  BY DEF Overdue, sessions
<1>2. PICK row : row = [invitation[i] EXCEPT !.overdue = TRUE]
  OBVIOUS
<1>3. /\ invitation' = [invitation EXCEPT ![i] = row]
      /\ row \in Invitation /\ row.status = invitation[i].status
      /\ row.by = invitation[i].by
  BY <1>1, <1>2 DEF InvitationsInv, TypeOK, Invitation
<1>4. \A k \in Slots : /\ invitation'[k].status = invitation[k].status
                       /\ invitation'[k].by = invitation[k].by
  BY <1>3 DEF InvitationsInv, TypeOK
<1>5. TypeOK'
  BY <1>1, <1>3 DEF InvitationsInv, TypeOK
<1>6. JoinsRecorded'
  <2>1. \A x \in Joins : x.slot \in Slots
    BY DEF InvitationsInv, TypeOK, Joins, Item
  <2>2. UNCHANGED <<members, Joins>>
    BY <1>1 DEF Joins
  <2> QED BY <1>4, <2>1, <2>2 DEF InvitationsInv, JoinsRecorded
<1>7. \A k \in Slots : Unanswered(invitation[k])'
  BY <1>4 DEF InvitationsInv, Unanswered
<1>8. ASSUME NEW q \in Workers
      PROVE  Local(q)'
  <2>1. ASSUME pc[q] \in {"inserted", "flushed"}
        PROVE  job[q].slot \in Slots
    <3>1. job[q] \in Requests
      BY <2>1 DEF InvitationsInv, Local, AtWork, Requests
    <3> QED BY <3>1 DEF Requests, InviteJob, AcceptJob
  <2> QED BY <1>1, <1>4, <2>1, OtherSession DEF InvitationsInv
<1>9. \A p, q \in Workers : p # q => Exclusive(p, q)'
  BY <1>1 DEF InvitationsInv, Exclusive
<1> QED BY <1>5, <1>6, <1>7, <1>8, <1>9 DEF InvitationsInv

LEMMA QuietStep ==
  ASSUME InvitationsInv, deal' \in Row, requests' \in Nat,
         UNCHANGED <<invitation, members, notified, evidence, clock, sessions>>
  PROVE  InvitationsInv'
<1>1. TypeOK'
  BY DEF InvitationsInv, TypeOK, sessions
<1>2. JoinsRecorded' /\ \A i \in Slots : Unanswered(invitation[i])'
  BY DEF InvitationsInv, JoinsRecorded, Joins, Unanswered
<1>3. \A q \in Workers : Local(q)'
  BY OtherSession DEF InvitationsInv, sessions
<1>4. \A p, q \in Workers : p # q => Exclusive(p, q)'
  BY DEF InvitationsInv, Exclusive, sessions
<1> QED BY <1>1, <1>2, <1>3, <1>4 DEF InvitationsInv

LEMMA ChangeStatusStep ==
  ASSUME InvitationsInv, ChangeStatus
  PROVE  InvitationsInv'
<1>1. PICK target \in Targets :
        /\ requests' = requests + 1
        /\ deal' = AfterTransition(deal, target)
        /\ UNCHANGED <<invitation, members, notified, evidence, clock, sessions>>
  BY DEF ChangeStatus
<1>2. target \in DealStatus
  BY InvitationAssumption
<1>3. deal' \in Row /\ requests' \in Nat
  BY <1>1, <1>2, EffectsAreRows DEF InvitationsInv, TypeOK
<1> QED BY <1>1, <1>3, QuietStep

LEMMA InvitationsStep == InvitationsInv /\ [Next]_vars => InvitationsInv'
<1> SUFFICES ASSUME InvitationsInv, [Next]_vars
             PROVE  InvitationsInv'
  OBVIOUS
<1>1. ASSUME NEW r \in Workers, BeginInvite(r) \/ BeginAccept(r)
      PROVE  InvitationsInv'
  BY <1>1, BeginInviteStep, BeginAcceptStep
<1>2. ASSUME NEW r \in Workers,
             LookUp(r) \/ Reissue(r) \/ Insert(r) \/ Announce(r)
      PROVE  InvitationsInv'
  BY <1>2, LookUpStep, ReissueStep, InsertStep, AnnounceStep
<1>3. ASSUME NEW r \in Workers,
             Lapse(r) \/ CheckMember(r) \/ Join(r) \/ CountPending(r)
               \/ RecordJoin(r)
      PROVE  InvitationsInv'
  BY <1>3, LapseStep, CheckMemberStep, JoinStep, CountPendingStep,
     RecordJoinStep
<1>4. ASSUME NEW r \in Workers, Commit(r)
      PROVE  InvitationsInv'
  BY <1>4, CommitStep
<1>5. ASSUME NEW r \in Workers, Refuse(r) \/ Abort(r)
      PROVE  InvitationsInv'
  BY <1>5, EndStep DEF Refuse, Abort
<1>6. ASSUME NEW i \in Slots, Overdue(i)
      PROVE  InvitationsInv'
  BY <1>6, OverdueStep
<1>7. CASE ChangeStatus
  BY <1>7, ChangeStatusStep
<1>8. CASE UNCHANGED vars
  <2>1. deal' \in Row /\ requests' \in Nat
    BY <1>8 DEF vars, committed, InvitationsInv, TypeOK
  <2> QED BY <1>8, <2>1, QuietStep DEF vars, committed
<1> QED BY <1>1, <1>2, <1>3, <1>4, <1>5, <1>6, <1>7, <1>8 DEF Next, Step

---------------------------------------------------------------------------
(* The theorems                                                            *)

(* Every variable of the invitations keeps its type.                       *)
THEOREM InvitationsTypeCorrect == Spec => []TypeOK
<1>1. InvitationsInv => TypeOK
  BY DEF InvitationsInv
<1> QED BY <1>1, InitInvitationsInv, InvitationsStep, PTL DEF Spec

(* However many sessions race or fail, a party has its answer on record    *)
(* and an answer its party.                                                *)
THEOREM JoinsStayRecorded == Spec => []JoinsRecorded
<1>1. InvitationsInv => JoinsRecorded
  BY DEF InvitationsInv
<1> QED BY <1>1, InitInvitationsInv, InvitationsStep, PTL DEF Spec

(* What a step does to an invitation that is answered.                     *)
LEMMA AnswersStay ==
  ASSUME InvitationsInv, [Next]_vars, NEW i \in Slots,
         invitation[i].status \in {"ACCEPTED", "EXPIRED"}
  PROVE  invitation'[i].status # "PENDING"
<1>1. ASSUME NEW r \in Workers, Commit(r)
      PROVE  invitation'[i].status # "PENDING"
  <2>1. PICK row \in Invitation :
          /\ invitation' = [invitation EXCEPT ![job[r].slot] = row]
          /\ \/ row.status = "ACCEPTED"
             \/ Inviting(r)
             \/ row.status \in {invitation[job[r].slot].status, "EXPIRED"}
    BY <1>1, CommittedRow
  <2>2. Inviting(r) => job[r].slot # i
    BY DEF Inviting
  <2> QED BY <2>1, <2>2 DEF InvitationsInv, TypeOK
<1>2. ASSUME NEW k \in Slots, Overdue(k)
      PROVE  invitation'[i].status # "PENDING"
  <2>1. invitation' = [invitation EXCEPT ![k].overdue = TRUE]
    BY <1>2 DEF Overdue
  <2>2. invitation[k] \in Invitation
    BY DEF InvitationsInv, TypeOK
  <2>3. k # i
    BY <1>2 DEF Overdue
  <2> QED BY <2>1, <2>3 DEF InvitationsInv, TypeOK
<1>3. CASE UNCHANGED invitation
  BY <1>3
<1>4. ASSUME NEW r \in Workers,
             BeginInvite(r) \/ BeginAccept(r) \/ Refuse(r) \/ Abort(r)
      PROVE  UNCHANGED invitation
  BY <1>4 DEF BeginInvite, BeginAccept, Begin, Refuse, Abort, committed
<1>5. ASSUME NEW r \in Workers,
             LookUp(r) \/ Reissue(r) \/ Insert(r) \/ Announce(r)
      PROVE  UNCHANGED invitation
  BY <1>5
  DEF LookUp, Select, Reissue, Insert, Announce, FlushWithEvidence, Flush,
      committed
<1>6. ASSUME NEW r \in Workers,
             Lapse(r) \/ CheckMember(r) \/ Join(r) \/ CountPending(r)
               \/ RecordJoin(r)
      PROVE  UNCHANGED invitation
  BY <1>6
  DEF Lapse, CheckMember, Join, CountPending, RecordJoin, Select,
      FlushWithEvidence, Flush, committed
<1>7. ChangeStatus \/ UNCHANGED vars => UNCHANGED invitation
  BY DEF ChangeStatus, vars, committed
<1> QED BY <1>1, <1>2, <1>3, <1>4, <1>5, <1>6, <1>7 DEF Next, Step

(* No reissue, however it races the answer, reopens an invitation.         *)
THEOREM AnswersAreFinal == Spec => AnsweredStaysAnswered
<1>1. InvitationsInv /\ [Next]_vars =>
        [\A i \in Slots :
           invitation[i].status \in {"ACCEPTED", "EXPIRED"} =>
             invitation'[i].status # "PENDING"]_vars
  BY AnswersStay
<1> QED
  BY <1>1, InitInvitationsInv, InvitationsStep, PTL
  DEF Spec, AnsweredStaysAnswered

---------------------------------------------------------------------------
(* The last acceptance                                                     *)

(* An acceptance that is ready to commit writes to the deal what it has    *)
(* counted.                                                                *)
Signing(r) ==
  pc[r] = "flushed" /\ draft[r].row.status = "ACCEPTED" =>
    /\ view[r].row.status = "PENDING"
    /\ draft[r].deal = IF view[r].last THEN AfterLastJoin(view[r].deal)
                                       ELSE view[r].deal

(* The phases before the evidence is flushed.                              *)
LEMMA EarlySigning ==
  ASSUME NEW r \in Workers, TypeOK,
         \/ BeginInvite(r) \/ BeginAccept(r) \/ LookUp(r) \/ Insert(r)
         \/ CheckMember(r) \/ Join(r) \/ CountPending(r)
         \/ Commit(r) \/ Refuse(r) \/ Abort(r)
  PROVE  Signing(r)'
<1>1. pc'[r] # "flushed"
  BY DEF BeginInvite, BeginAccept, Begin, LookUp, Insert, CheckMember, Join,
         CountPending, Select, Flush, Commit, Refuse, Abort, EndSession, TypeOK
<1> QED BY <1>1 DEF Signing

LEMMA EvidenceFlushRow ==
  ASSUME NEW r \in Workers, TypeOK, NEW kind, NEW rows \in Draft,
         FlushWithEvidence(r, kind, rows)
  PROVE  /\ pc'[r] = "flushed" /\ job' = job /\ view' = view
         /\ invitation' = invitation /\ deal' = deal
         /\ draft'[r].row = rows.row /\ draft'[r].deal = rows.deal
<1>1. PICK items : Flush(r, "flushed", [rows EXCEPT !.items = items])
                     /\ UNCHANGED view
  BY DEF FlushWithEvidence
<1>2. [rows EXCEPT !.items = items].row = rows.row
        /\ [rows EXCEPT !.items = items].deal = rows.deal
  BY DEF Draft
<1> QED BY <1>1, <1>2 DEF Flush, committed, TypeOK

LEMMA OtherSigning ==
  ASSUME NEW r \in Workers, InvitationsInv,
         Reissue(r) \/ Lapse(r) \/ Announce(r)
  PROVE  Signing(r)'
<1>1. TypeOK /\ view[r] \in View /\ draft[r] \in Draft
  BY DEF InvitationsInv, TypeOK
<1>2. pc'[r] = "flushed" /\ draft'[r].row.status # "ACCEPTED"
  <2>1. CASE Reissue(r)
    <3>1. PICK rows : rows = [NoDraft EXCEPT !.deal = view[r].deal,
                                             !.row = view[r].row,
                                             !.fresh = TRUE]
      OBVIOUS
    <3>2. rows = [deal |-> view[r].deal, row |-> view[r].row, fresh |-> TRUE,
                  joins |-> {}, items |-> {}]
      BY <3>1 DEF NoDraft
    <3>3. rows \in Draft /\ rows.row.status = "PENDING"
      BY <1>1, <2>1, <3>2 DEF Reissue, Draft, View
    <3>4. FlushWithEvidence(r, "PARTY_INVITATION_REISSUED", rows)
      BY <2>1, <3>1 DEF Reissue
    <3> QED BY <1>1, <3>3, <3>4, EvidenceFlushRow
  <2>2. CASE Lapse(r)
    BY <1>1, <2>2 DEF Lapse, Flush, NoDraft, TypeOK, View, Invitation
  <2>3. CASE Announce(r)
    <3>1. PICK rows : rows = [draft[r] EXCEPT !.deal = AfterInvite(view[r].deal)]
      OBVIOUS
    <3>2. AfterInvite(view[r].deal) \in Row
      BY <1>1, EffectsAreRows DEF View
    <3>3. rows \in Draft /\ rows.row = draft[r].row
      BY <1>1, <3>1, <3>2 DEF Draft
    <3>4. draft[r].row.status = "PENDING"
      BY <2>3 DEF Announce, InvitationsInv, Local, Flushed, Inviting
    <3>5. FlushWithEvidence(r, "PARTY_INVITED", rows)
      BY <2>3, <3>1 DEF Announce
    <3> QED BY <1>1, <3>3, <3>4, <3>5, EvidenceFlushRow
  <2> QED BY <2>1, <2>2, <2>3
<1> QED BY <1>2 DEF Signing

LEMMA RecordSigning ==
  ASSUME NEW r \in Workers, InvitationsInv, RecordJoin(r)
  PROVE  Signing(r)'
<1>1. TypeOK /\ view[r] \in View /\ draft[r] \in Draft
  BY DEF InvitationsInv, TypeOK
<1>2. PICK moved : moved = IF view[r].last THEN AfterLastJoin(view[r].deal)
                                           ELSE view[r].deal
  OBVIOUS
<1>3. moved \in Row
  BY <1>1, <1>2, EffectsAreRows DEF View
<1>4. PICK rows : rows = [draft[r] EXCEPT !.deal = moved]
  OBVIOUS
<1>5. rows \in Draft /\ rows.deal = moved
  BY <1>1, <1>3, <1>4 DEF Draft
<1>6. FlushWithEvidence(r, "PARTY_JOINED", rows) /\ pc[r] = "counted"
  BY <1>2, <1>4 DEF RecordJoin
<1>7. pc'[r] = "flushed" /\ view' = view /\ draft'[r].deal = moved
  BY <1>1, <1>5, <1>6, EvidenceFlushRow
<1>8. view[r].row.status = "PENDING"
  BY <1>6 DEF InvitationsInv, Local, Viewed
<1> QED BY <1>2, <1>7, <1>8 DEF Signing

(* No session changes what another has read and flushed.                   *)
LEMMA OthersUntouched ==
  ASSUME NEW r \in Workers, NEW q \in Workers, q # r, TypeOK,
         \/ BeginInvite(r) \/ BeginAccept(r) \/ Step(r) \/ Refuse(r) \/ Abort(r)
  PROVE  pc'[q] = pc[q] /\ view'[q] = view[q] /\ draft'[q] = draft[q]
<1>1. CASE \/ BeginInvite(r) \/ BeginAccept(r) \/ LookUp(r) \/ CheckMember(r)
           \/ CountPending(r)
  BY <1>1 DEF BeginInvite, BeginAccept, Begin, LookUp, CheckMember, CountPending,
              Select, TypeOK
<1>2. CASE Commit(r) \/ Refuse(r) \/ Abort(r)
  BY <1>2 DEF Commit, Refuse, Abort, EndSession, TypeOK
<1>3. CASE Insert(r) \/ Lapse(r)
  BY <1>3 DEF Insert, Lapse, Flush, TypeOK
<1>4. CASE Join(r)
  BY <1>4 DEF Join, Flush, TypeOK
<1>5. CASE Reissue(r) \/ Announce(r) \/ RecordJoin(r)
  BY <1>5 DEF Reissue, Announce, RecordJoin, FlushWithEvidence, Flush, TypeOK
<1> QED BY <1>1, <1>2, <1>3, <1>4, <1>5 DEF Step

(* What the commit of an acceptance does to the deal.                      *)
LEMMA CommitSigns ==
  ASSUME NEW r \in Workers, InvitationsInv, Signing(r), Commit(r),
         draft[r].row.status = "ACCEPTED", SnapshotCurrent(r)
  PROVE  /\ ~SomePending' => deal'.status = "AWAITING_SIGNATURES"
         /\ deal'.status # deal.status => ~SomePending'
<1>1. /\ pc[r] = "flushed"
      /\ deal'.status =
           Column(view[r].deal.status, draft[r].deal.status, deal.status)
  BY DEF Commit
<1>2. /\ view[r].row.status = "PENDING"
      /\ view[r].deal = deal
      /\ view[r].last <=> ~OthersPending(r)
      /\ draft[r].deal = IF view[r].last THEN AfterLastJoin(view[r].deal)
                                         ELSE view[r].deal
  BY <1>1 DEF Signing, SnapshotCurrent
<1>3. PICK row : /\ job[r] \in Requests
                 /\ invitation' = [invitation EXCEPT ![job[r].slot] = row]
                 /\ \/ row.status = "ACCEPTED"
                    \/ Inviting(r) \/ Renewing(r)
  BY CommittedRow
<1>4. row.status = "ACCEPTED" /\ job[r].slot \in Slots
  BY <1>2, <1>3 DEF Inviting, Renewing, Requests, InviteJob, AcceptJob
<1>5. SomePending' <=> OthersPending(r)
  BY <1>3, <1>4 DEF SomePending, OthersPending, InvitationsInv, TypeOK
<1>6. deal \in Row
  BY DEF InvitationsInv, TypeOK
<1>7. CASE view[r].last
  <2>1. draft[r].deal.status = "AWAITING_SIGNATURES"
    BY <1>2, <1>6, <1>7 DEF AfterLastJoin, Row
  <2>2. deal'.status = "AWAITING_SIGNATURES"
    BY <1>1, <1>2, <2>1 DEF Column
  <2> QED BY <1>2, <1>5, <1>7, <2>2
<1>8. CASE ~view[r].last
  <2>1. deal'.status = deal.status
    BY <1>1, <1>2, <1>8 DEF Column
  <2> QED BY <1>2, <1>5, <1>8, <2>1
<1> QED BY <1>7, <1>8

(* Whatever sessions race, fail or move the deal, an acceptance that       *)
(* commits on the rows it read and leaves no invitation pending moves the  *)
(* deal to the signatures, and none moves it there while one is pending.   *)
THEOREM LastJoinsSign == Spec => SigningFollowsLastJoin
<1> DEFINE Inv == InvitationsInv /\ \A r \in Workers : Signing(r)
<1>1. Init => Inv
  BY InitInvitationsInv DEF Init, Signing
<1>2. Inv /\ [Next]_vars => Inv'
  <2> SUFFICES ASSUME Inv, [Next]_vars, NEW q \in Workers
               PROVE  Signing(q)'
    BY InvitationsStep
  <2>1. TypeOK /\ Signing(q)
    BY DEF InvitationsInv
  <2>2. ASSUME NEW r \in Workers, q # r,
               \/ BeginInvite(r) \/ BeginAccept(r) \/ Step(r)
               \/ Refuse(r) \/ Abort(r)
        PROVE  Signing(q)'
    BY <2>1, <2>2, OthersUntouched DEF Signing
  <2>3. CASE \/ BeginInvite(q) \/ BeginAccept(q) \/ LookUp(q) \/ Insert(q)
             \/ CheckMember(q) \/ Join(q) \/ CountPending(q)
             \/ Commit(q) \/ Refuse(q) \/ Abort(q)
    BY <2>1, <2>3, EarlySigning
  <2>4. CASE Reissue(q) \/ Lapse(q) \/ Announce(q)
    BY <2>4, OtherSigning
  <2>5. CASE RecordJoin(q)
    BY <2>5, RecordSigning
  <2>6. CASE (\E i \in Slots : Overdue(i)) \/ ChangeStatus \/ UNCHANGED vars
    <3>1. UNCHANGED <<pc, view, draft>>
      BY <2>6 DEF Overdue, ChangeStatus, vars, sessions
    <3> QED BY <2>1, <3>1 DEF Signing
  <2> QED BY <2>2, <2>3, <2>4, <2>5, <2>6 DEF Next, Step
<1>3. Inv /\ [Next]_vars =>
        [\A r \in Workers :
           Commit(r) /\ draft[r].row.status = "ACCEPTED" /\ SnapshotCurrent(r) =>
             /\ ~SomePending' => deal'.status = "AWAITING_SIGNATURES"
             /\ deal'.status # deal.status => ~SomePending']_vars
  BY CommitSigns
<1> QED BY <1>1, <1>2, <1>3, PTL DEF Spec, SigningFollowsLastJoin
==========================================================================
