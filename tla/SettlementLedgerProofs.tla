---------------------- MODULE SettlementLedgerProofs ----------------------
(***************************************************************************)
(* Theorems about the money columns, for every set of parties, milestones  *)
(* and events: a settlement whose requests run one after the other         *)
(* implements the abstract ledger and its columns are exact; however they  *)
(* interleave, no column is ahead of the evidence.                         *)
(*                                                                         *)
(* The refinement needs more than the types: the one session holds no      *)
(* stale row, so what a commit writes column by column is the row its      *)
(* handler computed, and that handler's rule is the ledger's.  The log of  *)
(* the ledger is the evidence in the order of its instants, which grows at *)
(* its end because the pending item is later than every committed one.     *)
(***************************************************************************)
EXTENDS SettlementLedger, SettlementProofs, FiniteSums, SequenceTheorems

LEMMA EqualRanges == \A a, b \in Nat : 1..a = 1..b => a = b
<1> SUFFICES ASSUME NEW a \in Nat, NEW b \in Nat, 1..a = 1..b
             PROVE  a = b
  OBVIOUS
<1>1. \A i \in Int : i \in 1..a <=> i \in 1..b
  OBVIOUS
<1>2. /\ a \in 1..a <=> a \in 1..b
      /\ b \in 1..a <=> b \in 1..b
  BY <1>1
<1> QED BY <1>2

(* The rank of an item is the number of items up to it.                    *)
LEMMA RankType ==
  ASSUME NEW E, IsFiniteSet(E), NEW x
  PROVE  Rank(x, E) \in Nat /\ Rank(x, E) <= Cardinality(E)
<1>1. {y \in E : y.at <= x.at} \in SUBSET E
  OBVIOUS
<1> QED BY <1>1, FS_Subset, FS_CardinalityType DEF Rank

(* An item stamped after all the others has the next rank, and they keep   *)
(* theirs.                                                                 *)
LEMMA LaterRanks ==
  ASSUME NEW E \in SUBSET EvidenceItem, IsFiniteSet(E),
         NEW x \in EvidenceItem, \A y \in E : y.at < x.at
  PROVE  /\ \A y \in E : Rank(y, E \cup {x}) = Rank(y, E)
         /\ Rank(x, E \cup {x}) = Cardinality(E \cup {x})
<1>1. x.at \in Nat /\ \A y \in E : y.at \in Nat
  BY DEF EvidenceItem
<1>2. ASSUME NEW y \in E
      PROVE  {z \in E \cup {x} : z.at <= y.at} = {z \in E : z.at <= y.at}
  BY <1>1
<1>3. {z \in E \cup {x} : z.at <= x.at} = E \cup {x}
  BY <1>1
<1> QED BY <1>2, <1>3 DEF Rank

(* It is appended to their log.                                            *)
LogEntry == Chain \cup InvitationJob

LEMMA LaterItemIsAppended ==
  ASSUME NEW E \in SUBSET EvidenceItem, IsFiniteSet(E),
         LogOf(E) \in Seq(LogEntry), NEW x \in EvidenceItem, \A y \in E : y.at < x.at
  PROVE  /\ IsFiniteSet(E \cup {x})
         /\ LogOf(E \cup {x}) = Append(LogOf(E), x.event)
         /\ LogOf(E \cup {x}) \in Seq(LogEntry)
<1>1. PICK F : F = E \cup {x}
  OBVIOUS
<1>2. PICK n : n = Cardinality(E)
  OBVIOUS
<1>3. x.event \in LogEntry /\ x \notin E
  BY DEF EvidenceItem, LogEntry
<1>4. /\ IsFiniteSet(F)
      /\ n \in Nat
      /\ Cardinality(F) = n + 1
  BY <1>1, <1>2, <1>3, FS_AddElement, FS_CardinalityType
<1>5. /\ \A y \in E : /\ Rank(y, F) = Rank(y, E)
                      /\ Rank(y, E) \in Nat
                      /\ Rank(y, E) <= n
      /\ Rank(x, F) = n + 1
  BY <1>1, <1>2, <1>4, RankType, LaterRanks
<1>6. ASSUME NEW k \in 1..n
      PROVE  {y \in F : Rank(y, F) = k} = {y \in E : Rank(y, E) = k}
  <2>1. \A y \in F : y \in E \/ y = x
    BY <1>1
  <2>2. Rank(x, F) # k /\ k # n + 1
    BY <1>4, <1>5
  <2>3. \A y \in F : Rank(y, F) = k => y \in E
    BY <2>1, <2>2
  <2> QED BY <1>1, <1>5, <2>3
<1>7. {y \in F : Rank(y, F) = n + 1} = {x}
  <2>1. \A y \in F : y \in E \/ y = x
    BY <1>1
  <2>2. \A y \in E : Rank(y, F) # n + 1
    BY <1>4, <1>5
  <2>3. x \in F /\ Rank(x, F) = n + 1
    BY <1>1, <1>5
  <2> QED BY <2>1, <2>2, <2>3
<1>8. TheItem({x}) = x
  BY DEF TheItem
<1>9. /\ LogOf(F) = [k \in 1..(n + 1) |->
                       TheItem({y \in F : Rank(y, F) = k}).event]
      /\ LogOf(E) = [k \in 1..n |-> TheItem({y \in E : Rank(y, E) = k}).event]
  BY <1>2, <1>4 DEF LogOf
<1>10. ASSUME NEW k \in 1..n
       PROVE  LogOf(F)[k] = LogOf(E)[k]
  <2>1. k \in 1..(n + 1)
    BY <1>4
  <2>2. LogOf(F)[k] = TheItem({y \in F : Rank(y, F) = k}).event
    BY <1>9, <2>1
  <2>3. LogOf(E)[k] = TheItem({y \in E : Rank(y, E) = k}).event
    BY <1>9
  <2> QED BY <1>6, <2>2, <2>3
<1>11. LogOf(F)[n + 1] = x.event
  <2>1. LogOf(F)[n + 1] = TheItem({y \in F : Rank(y, F) = n + 1}).event
    BY <1>4, <1>9
  <2> QED BY <1>7, <1>8, <2>1
<1>12. /\ LogOf(E) \in [1..n -> LogEntry]
       /\ Len(LogOf(E)) = n
  <2>1. /\ Len(LogOf(E)) \in Nat
        /\ LogOf(E) \in [1..Len(LogOf(E)) -> LogEntry]
        /\ DOMAIN LogOf(E) = 1..Len(LogOf(E))
    BY LenProperties
  <2>2. DOMAIN LogOf(E) = 1..n
    BY <1>9
  <2>3. Len(LogOf(E)) = n
    BY <1>4, <2>1, <2>2, EqualRanges
  <2> QED BY <2>1, <2>3
<1>13. LogOf(F) \in [1..(n + 1) -> LogEntry]
  <2>1. \A k \in 1..(n + 1) : LogOf(F)[k] \in LogEntry
    <3>1. \A k \in 1..(n + 1) : k \in 1..n \/ k = n + 1
      BY <1>4
    <3> QED BY <1>3, <1>10, <1>11, <1>12, <3>1
  <2> QED BY <1>9, <2>1
<1>14. LogOf(F) \in Seq(LogEntry)
  BY <1>4, <1>13
<1>15. LogOf(F) = Append(LogOf(E), x.event)
  <2>1. /\ Append(LogOf(E), x.event) \in Seq(LogEntry)
        /\ Len(Append(LogOf(E), x.event)) = n + 1
        /\ \A k \in 1..n : Append(LogOf(E), x.event)[k] = LogOf(E)[k]
        /\ Append(LogOf(E), x.event)[n + 1] = x.event
    BY <1>3, <1>12, AppendProperties
  <2>2. Len(LogOf(F)) = n + 1
    <3>1. /\ Len(LogOf(F)) \in Nat
          /\ DOMAIN LogOf(F) = 1..Len(LogOf(F))
      BY <1>14, LenProperties
    <3>2. DOMAIN LogOf(F) = 1..(n + 1)
      BY <1>13
    <3>3. n + 1 \in Nat
      BY <1>4
    <3> QED BY <3>1, <3>2, <3>3, EqualRanges
  <2>3. ASSUME NEW k \in 1..(n + 1)
        PROVE  LogOf(F)[k] = Append(LogOf(E), x.event)[k]
    <3>1. k \in 1..n \/ k = n + 1
      BY <1>4
    <3> QED BY <1>10, <1>11, <2>1, <3>1
  <2> QED BY <1>14, <2>1, <2>2, <2>3, SeqEqual
<1> QED BY <1>1, <1>4, <1>14, <1>15

---------------------------------------------------------------------------
(* What the one session knows                                              *)

(* The draft of r as it lies there, evidence included: the item of its     *)
(* event, later than every committed one.                                  *)
Flushed(r, row, signed, rows, disputed) ==
  /\ draft[r].deal = row
  /\ draft[r].joins = {}
  /\ draft[r].accepted = signed
  /\ draft[r].milestone = rows
  /\ draft[r].disputed = disputed

ItsItem(r) ==
  \E x \in EvidenceItem : /\ draft[r].items = {x}
                          /\ x.event = job[r]
                          /\ \A y \in evidence : y.at < x.at

NoItem(r) == draft[r].items = {}

MarkedNow(m, status, released) ==
  [milestone EXCEPT ![m] = [status |-> status, released |-> released]]

(* What each handler has flushed, in terms of the committed rows, with the *)
(* conditions under which it did.                                          *)
Registers(r) ==
  /\ job[r].name = "DealRegistered"
  /\ Flushed(r, AfterRegister(deal), {}, milestone, {})
  /\ ItsItem(r)

Accepts(r) ==
  /\ job[r].name = "PartyAccepted"
  /\ \E p \in parties :
       /\ SentBy(p, job[r])
       /\ Flushed(r,
            AfterAccept(deal, \A q \in parties :
              Role[q] = "OBSERVER" \/ q \in accepted \cup {p}),
            {p}, milestone, {})
  /\ ItsItem(r)

Funds(r) ==
  /\ job[r].name = "DealFunded"
  /\ CanFund(deal, Total, job[r].credited)
  /\ Flushed(r, AfterFunding(deal, Total, Bps, job[r].credited), {},
             milestone, {})
  /\ ItsItem(r)

Submits(r) ==
  LET m == job[r].milestone IN
  /\ job[r].name = "MilestoneSubmitted"
  /\ Flushed(r, AfterSubmit(deal), {},
             MarkedNow(m, "SUBMITTED", milestone[m].released), {})
  /\ ItsItem(r)

Approves(r) ==
  LET m == job[r].milestone IN
  /\ job[r].name = "MilestoneApproved"
  /\ Flushed(r, AfterApprove(deal), {},
             MarkedNow(m, "APPROVED", milestone[m].released), {})
  /\ NoItem(r)

Releases(r) ==
  LET m == job[r].milestone IN
  /\ job[r].name = "MilestoneReleased"
  /\ Flushed(r, AfterRelease(deal, Total, Amount[m]), {},
             MarkedNow(m, "RELEASED", Amount[m]), {})
  /\ ItsItem(r)

Disputes(r) ==
  LET m == job[r].milestone IN
  /\ job[r].name = "DisputeOpened"
  /\ Flushed(r, AfterDispute(deal, Amount[m]), {},
             MarkedNow(m, "DISPUTED", milestone[m].released), {m})
  /\ NoItem(r)

Moves(r) ==
  /\ job[r] \in TransitionJob
  /\ CanTransition(deal, job[r].target)
  /\ Flushed(r, AfterTransition(deal, job[r].target), {}, milestone, {})
  /\ NoItem(r)

ReportsFlushed(r) ==
  \/ Registers(r) \/ Accepts(r) \/ Funds(r) \/ Submits(r)
  \/ Approves(r) \/ Releases(r) \/ Disputes(r)

(* An invitation or a join flushes its item, and may move the deal.        *)
Beside(r) ==
  /\ draft[r].accepted = {}
  /\ draft[r].disputed = {}
  /\ draft[r].milestone = view[r].milestone
  /\ ItsItem(r)

Invites(r) ==
  /\ job[r] \in InvitationJob
  /\ job[r].name = "Invite"
  /\ draft[r].deal \in {deal, AfterInvite(deal)}
  /\ draft[r].joins = {}
  /\ Beside(r)

JoinsItsParty(r) == parties \cup draft[r].joins = parties \cup {job[r].party}

Joins(r) ==
  /\ job[r] \in InvitationJob
  /\ job[r].name = "Join"
  /\ draft[r].deal \in {deal, AfterLastJoin(deal)}
  /\ JoinsItsParty(r)
  /\ Beside(r)

(* The other rows it has loaded are the committed ones.                    *)
Current(r) ==
  /\ view[r].parties = parties
  /\ view[r].accepted = accepted
  /\ view[r].milestone = milestone

FlushedStep(r) ==
  \/ job[r] \in Chain /\ ReportsFlushed(r) /\ Current(r)
  \/ Moves(r) /\ Current(r)
  \/ Invites(r)
  \/ Joins(r)

(* The only session holds no stale row, reports nothing that is stored,    *)
(* and what it has flushed is a step of the ledger.                        *)
SerialInv(r) ==
  /\ job[r] \in Chain => job[r] \notin events
  /\ pc[r] \in {"checked", "joined"} => job[r].name = "Join"
  /\ pc[r] = "checked" /\ view[r].known => job[r].party \in parties
  /\ pc[r] = "joined" => /\ JoinsItsParty(r)
                         /\ draft[r].accepted = {}
                         /\ draft[r].disputed = {}
  /\ pc[r] \notin {"idle", "checked"} => view[r].deal = deal
  /\ pc[r] \in {"loaded", "verified"} => Current(r)
  /\ pc[r] = "flushed" => FlushedStep(r)
  /\ IsFiniteSet(evidence)
  /\ EvidenceLog \in Seq(LogEntry)

LEMMA InitSerial ==
  ASSUME NEW r, Workers = {r}, Init
  PROVE  SerialInv(r)
<1>1. IsFiniteSet({}) /\ Cardinality({}) = 0
  BY FS_EmptySet
<1>2. LogOf({}) = << >>
  <2>1. LogOf({}) = [n \in {} |-> TheItem({x \in {} : Rank(x, {}) = n}).event]
    BY <1>1 DEF LogOf
  <2> QED BY <2>1
<1>3. << >> \in Seq(LogEntry)
  BY EmptySeq
<1>4. /\ evidence = {}
      /\ pc[r] = "idle"
      /\ job[r] = None
      /\ None \notin Chain
  BY EnvironmentAssumption DEF Init
<1> QED BY <1>1, <1>2, <1>3, <1>4 DEF SerialInv, EvidenceLog

LEMMA BeginSerial ==
  ASSUME Typed, NEW r, Workers = {r}, SerialInv(r),
         NEW phase \in {"row", "checked"}, NEW j, NEW rows,
         Begin(r, phase, j, rows),
         j \in Chain => j \notin events,
         phase = "row" => rows.deal = deal,
         phase = "checked" =>
           j.name = "Join" /\ (rows.known => j.party \in parties)
  PROVE  SerialInv(r)'
<1>1. /\ pc'[r] = phase
      /\ job'[r] = j
      /\ view'[r] = rows
      /\ UNCHANGED <<deal, parties, events, evidence>>
  BY DEF Begin, committed, Typed, TypeOK
<1> QED BY <1>1 DEF SerialInv, EvidenceLog

LEMMA LoadSerial ==
  ASSUME Typed, NEW r, Workers = {r}, Retries = FALSE, SerialInv(r), Loads(r)
  PROVE  SerialInv(r)'
<1>1. CASE Report(r)
  <2>1. PICK e \in Chain : e \notin events /\ BeginWithDeal(r, e)
    BY <1>1 DEF Report
  <2>2. /\ Begin(r, "row", e, [NoView EXCEPT !.deal = deal])
        /\ [NoView EXCEPT !.deal = deal].deal = deal
    BY <2>1, BeginWithDealStep
  <2> QED BY <2>1, <2>2, BeginSerial
<1>2. CASE RequestTransition(r) \/ RequestInvite(r)
  <2>1. PICK j : j \notin Chain /\ BeginWithDeal(r, j)
    <3>1. CASE RequestTransition(r)
      <4>1. PICK target, expected :
              BeginWithDeal(r, [name |-> "Transition", target |-> target,
                                expected |-> expected])
        BY <3>1 DEF RequestTransition
      <4> QED BY <4>1, ChainTypes
    <3>2. CASE RequestInvite(r)
      <4>1. PICK p : BeginWithDeal(r, [name |-> "Invite", party |-> p])
        BY <3>2 DEF RequestInvite
      <4> QED BY <4>1, ChainTypes
    <3> QED BY <1>2, <3>1, <3>2
  <2>2. /\ Begin(r, "row", j, [NoView EXCEPT !.deal = deal])
        /\ [NoView EXCEPT !.deal = deal].deal = deal
    BY <2>1, BeginWithDealStep
  <2> QED BY <2>1, <2>2, BeginSerial
<1>3. CASE RequestJoin(r)
  <2>1. PICK p \in Late :
          Begin(r, "checked", [name |-> "Join", party |-> p],
                [NoView EXCEPT !.known = p \in parties])
    BY <1>3 DEF RequestJoin
  <2>2. PICK j : j = [name |-> "Join", party |-> p]
    OBVIOUS
  <2>3. j \notin Chain /\ j.name = "Join" /\ j.party = p
    BY <2>2, ChainTypes
  <2>4. [NoView EXCEPT !.known = p \in parties].known => p \in parties
    BY DEF NoView
  <2> QED BY <2>1, <2>2, <2>3, <2>4, BeginSerial
<1>4. CASE LoadChildren(r)
  <2>1. view'[r] = [view[r] EXCEPT !.parties = parties, !.accepted = accepted,
                                   !.milestone = milestone]
    BY <1>4 DEF LoadChildren, Typed, TypeOK
  <2>2. /\ view'[r].deal = view[r].deal
        /\ view'[r].parties = parties
        /\ view'[r].accepted = accepted
        /\ view'[r].milestone = milestone
    BY <2>1 DEF Typed, TypeOK, View
  <2>3. /\ UNCHANGED <<deal, parties, accepted, milestone, events, evidence, job>>
        /\ pc[r] = "row" /\ pc'[r] = "loaded"
    BY <1>4 DEF LoadChildren, committed, Typed, TypeOK
  <2> QED BY <2>2, <2>3 DEF SerialInv, EvidenceLog, Current
<1>5. CASE Verify(r)
  <2>1. view'[r] = [view[r] EXCEPT !.known = job[r] \in events]
    BY <1>5 DEF Verify, Typed, TypeOK
  <2>2. /\ view'[r].deal = view[r].deal
        /\ view'[r].parties = view[r].parties
        /\ view'[r].accepted = view[r].accepted
        /\ view'[r].milestone = view[r].milestone
    BY <2>1 DEF Typed, TypeOK, View
  <2>3. /\ UNCHANGED <<deal, parties, accepted, milestone, events, evidence, job>>
        /\ pc[r] = "loaded" /\ pc'[r] = "verified"
    BY <1>5 DEF Verify, committed, Typed, TypeOK
  <2> QED BY <2>2, <2>3 DEF SerialInv, EvidenceLog, Current
<1> QED BY <1>1, <1>2, <1>3, <1>4, <1>5 DEF Loads

(* The item a session links to the latest one lies after all of them.      *)
LEMMA LinkedComesLast ==
  ASSUME Typed, EvidenceInv, NEW r \in Workers, NEW locked \in BOOLEAN,
         LinkedWith(r, locked), job[r] \in LogEntry,
         evidence' = evidence, job' = job
  PROVE  ItsItem(r)'
<1>1. PICK latest \in LatestInstants(evidence) :
        draft'[r].items =
          {[at |-> clock + 1, prev |-> latest, event |-> job[r],
            locked |-> locked]}
  BY DEF LinkedWith
<1>2. PICK x : x = [at |-> clock + 1, prev |-> latest, event |-> job[r],
                    locked |-> locked]
  OBVIOUS
<1>3. latest \in Nat /\ clock \in Nat
  BY DEF LatestInstants, Instants, Typed, TypeOK, EvidenceItem
<1>4. x \in EvidenceItem /\ x.event = job[r] /\ x.at = clock + 1
  BY <1>2, <1>3 DEF EvidenceItem, LogEntry
<1>5. \A y \in evidence : y.at \in Nat /\ y.at <= clock
  BY DEF Typed, TypeOK, EvidenceItem, EvidenceInv, ChainInv, Linked
<1>6. \A y \in evidence : y.at < x.at
  BY <1>3, <1>4, <1>5
<1> QED BY <1>1, <1>2, <1>4, <1>6 DEF ItsItem

LEMMA LinkedIsItsItem ==
  ASSUME Typed, EvidenceInv, NEW r \in Workers, Handle(r), LinkedItem(r),
         job[r] \in Chain
  PROVE  ItsItem(r)'
<1>1. evidence' = evidence /\ job' = job
  BY HandlerFrame DEF committed
<1>2. PICK locked \in BOOLEAN : LinkedWith(r, locked)
  BY DEF LinkedItem
<1>3. job[r] \in LogEntry
  BY DEF LogEntry
<1> QED BY <1>1, <1>2, <1>3, LinkedComesLast

(* A handler computes from rows that are the committed ones.               *)
LEMMA HandlersFlush ==
  ASSUME Typed, EvidenceInv, NEW r \in Workers, SerialInv(r), Handle(r)
  PROVE  ((job[r] \in Chain /\ ReportsFlushed(r)) \/ Moves(r))' /\ Current(r)'
<1>1. /\ UNCHANGED <<deal, parties, accepted, milestone, evidence, job, view>>
      /\ pc[r] \in {"loaded", "verified"}
  BY HandlerFrame DEF committed
<1>2. /\ view[r].deal = deal
      /\ view[r].parties = parties
      /\ view[r].accepted = accepted
      /\ view[r].milestone = milestone
  BY <1>1 DEF SerialInv, Current
<1> SUFFICES ((job[r] \in Chain /\ ReportsFlushed(r)) \/ Moves(r))'
  BY <1>1, <1>2 DEF Current
<1>3. \A status, released :
        WithMilestone(r, status, released) =
          MarkedNow(job[r].milestone, status, released)
  BY <1>2 DEF WithMilestone, MarkedNow
<1>4. LoadedReleased(r) = milestone[job[r].milestone].released
  BY <1>2 DEF LoadedReleased
<1>5. ASSUME ~ChangeStatus(r)
      PROVE  job[r] \in Chain
  <2>1. job[r].name \in ChainNames
    BY <1>5 DEF Handle, RegisterOnchain, AcceptAgreement, RecordFunding,
         SubmitMilestone, ApproveMilestone, ReleaseMilestone, OpenDispute,
         Verified, ChainNames
  <2>2. job[r] \in Job
    BY <1>1 DEF Typed, AtWork
  <2> QED BY <2>1, <2>2, ChainTypes
<1>6. CASE RegisterOnchain(r)
  <2>1. /\ Drafted(r, AfterRegister(deal), {}, milestone, {})
        /\ LinkedItem(r)
    BY <1>2, <1>6, HandlerDrafts
  <2>2. job[r].name = "DealRegistered"
    BY <1>6 DEF RegisterOnchain, Verified
  <2>3. job[r] \in Chain
    BY <2>2, <1>5 DEF ChangeStatus, TransitionJob
  <2>4. ItsItem(r)'
    BY <2>1, <2>3, LinkedIsItsItem
  <2>5. Registers(r)'
    BY <1>1, <2>1, <2>2, <2>4 DEF Registers, Flushed, Drafted
  <2> QED BY <1>1, <2>3, <2>5 DEF ReportsFlushed
<1>7. CASE AcceptAgreement(r)
  <2>1. PICK p \in parties :
          /\ SentBy(p, job[r])
          /\ Drafted(r, AfterAccept(deal, EveryoneAccepted(r, p)), {p},
                     milestone, {})
    BY <1>2, <1>7, HandlerDrafts
  <2>2. LinkedItem(r) /\ job[r].name = "PartyAccepted"
    BY <1>7, HandlerDrafts DEF AcceptAgreement, Verified
  <2>3. job[r] \in Chain
    BY <2>2, <1>5 DEF ChangeStatus, TransitionJob
  <2>4. ItsItem(r)'
    BY <2>2, <2>3, LinkedIsItsItem
  <2>5. EveryoneAccepted(r, p) <=>
          \A q \in parties : Role[q] = "OBSERVER" \/ q \in accepted \cup {p}
    BY <1>2 DEF EveryoneAccepted
  <2>6. AfterAccept(deal, EveryoneAccepted(r, p)) =
          AfterAccept(deal, \A q \in parties :
            Role[q] = "OBSERVER" \/ q \in accepted \cup {p})
    BY <2>5 DEF AfterAccept
  <2>7. Flushed(r,
          AfterAccept(deal, \A q \in parties :
            Role[q] = "OBSERVER" \/ q \in accepted \cup {p}),
          {p}, milestone, {})'
    BY <1>1, <2>1, <2>6 DEF Flushed, Drafted
  <2>8. SentBy(p, job[r])'
    BY <1>1, <2>1 DEF SentBy
  <2>9. Accepts(r)'
    BY <1>1, <2>2, <2>4, <2>7, <2>8 DEF Accepts
  <2> QED BY <1>1, <2>3, <2>9 DEF ReportsFlushed
<1>8. CASE RecordFunding(r)
  <2>1. /\ Drafted(r, AfterFunding(deal, Total, Bps, job[r].credited), {},
                   milestone, {})
        /\ LinkedItem(r)
    BY <1>2, <1>8, HandlerDrafts
  <2>2. /\ job[r].name = "DealFunded"
        /\ CanFund(deal, Total, job[r].credited)
    BY <1>2, <1>8 DEF RecordFunding, Verified
  <2>3. job[r] \in Chain
    BY <2>2, <1>5 DEF ChangeStatus, TransitionJob
  <2>4. ItsItem(r)'
    BY <2>1, <2>3, LinkedIsItsItem
  <2>5. Funds(r)'
    BY <1>1, <2>1, <2>2, <2>4 DEF Funds, Flushed, Drafted
  <2> QED BY <1>1, <2>3, <2>5 DEF ReportsFlushed
<1>9. CASE SubmitMilestone(r)
  <2>1. /\ Drafted(r, AfterSubmit(deal), {},
                   WithMilestone(r, "SUBMITTED", LoadedReleased(r)), {})
        /\ LinkedItem(r)
    BY <1>2, <1>9, HandlerDrafts
  <2>2. job[r].name = "MilestoneSubmitted"
    BY <1>9 DEF SubmitMilestone, Verified
  <2>3. job[r] \in Chain
    BY <2>2, <1>5 DEF ChangeStatus, TransitionJob
  <2>4. ItsItem(r)'
    BY <2>1, <2>3, LinkedIsItsItem
  <2>5. Submits(r)'
    BY <1>1, <1>3, <1>4, <2>1, <2>2, <2>4
    DEF Submits, Flushed, Drafted, MarkedNow
  <2> QED BY <1>1, <2>3, <2>5 DEF ReportsFlushed
<1>10. CASE ApproveMilestone(r)
  <2>1. /\ Drafted(r, AfterApprove(deal), {},
                   WithMilestone(r, "APPROVED", LoadedReleased(r)), {})
        /\ draft'[r].items = {}
    BY <1>2, <1>10, HandlerDrafts
  <2>2. job[r].name = "MilestoneApproved"
    BY <1>10 DEF ApproveMilestone, Verified
  <2>3. job[r] \in Chain
    BY <2>2, <1>5 DEF ChangeStatus, TransitionJob
  <2>4. Approves(r)'
    BY <1>1, <1>3, <1>4, <2>1, <2>2
    DEF Approves, Flushed, Drafted, MarkedNow, NoItem
  <2> QED BY <1>1, <2>3, <2>4 DEF ReportsFlushed
<1>11. CASE ReleaseMilestone(r)
  <2> DEFINE amount == Amount[job[r].milestone]
  <2>1. /\ Drafted(r, AfterRelease(deal, Total, amount), {},
                   WithMilestone(r, "RELEASED", amount), {})
        /\ LinkedItem(r)
    BY <1>2, <1>11, HandlerDrafts
  <2>2. job[r].name = "MilestoneReleased"
    BY <1>11 DEF ReleaseMilestone, Verified
  <2>3. job[r] \in Chain
    BY <2>2, <1>5 DEF ChangeStatus, TransitionJob
  <2>4. ItsItem(r)'
    BY <2>1, <2>3, LinkedIsItsItem
  <2>5. Releases(r)'
    BY <1>1, <1>3, <2>1, <2>2, <2>4 DEF Releases, Flushed, Drafted, MarkedNow
  <2> QED BY <1>1, <2>3, <2>5 DEF ReportsFlushed
<1>12. CASE OpenDispute(r)
  <2> DEFINE m == job[r].milestone
  <2>1. /\ Drafted(r, AfterDispute(deal, Amount[m]), {},
                   WithMilestone(r, "DISPUTED", LoadedReleased(r)), {m})
        /\ draft'[r].items = {}
    BY <1>2, <1>12, HandlerDrafts
  <2>2. job[r].name = "DisputeOpened"
    BY <1>12 DEF OpenDispute, Verified
  <2>3. job[r] \in Chain
    BY <2>2, <1>5 DEF ChangeStatus, TransitionJob
  <2>4. Disputes(r)'
    BY <1>1, <1>3, <1>4, <2>1, <2>2
    DEF Disputes, Flushed, Drafted, MarkedNow, NoItem
  <2> QED BY <1>1, <2>3, <2>4 DEF ReportsFlushed
<1>13. CASE ChangeStatus(r)
  <2>1. /\ Drafted(r, AfterTransition(deal, job[r].target), {}, milestone, {})
        /\ draft'[r].items = {}
    BY <1>2, <1>13, HandlerDrafts
  <2>2. /\ job[r] \in TransitionJob
        /\ CanTransition(deal, job[r].target)
    BY <1>2, <1>13 DEF ChangeStatus
  <2> QED BY <1>1, <2>1, <2>2 DEF Moves, Flushed, Drafted, NoItem
<1> QED BY <1>6, <1>7, <1>8, <1>9, <1>10, <1>11, <1>12, <1>13 DEF Handle

(* So do an invitation and a join.                                         *)
LEMMA InvitationsFlush ==
  ASSUME Typed, IdleInv, EvidenceInv, NEW r \in Workers, SerialInv(r),
         Invite(r) \/ Join(r)
  PROVE  (Invites(r) \/ Joins(r))'
<1>1. PICK row : /\ Appended(r, row)
                 /\ \/ Invite(r) /\ row \in {deal, AfterInvite(deal)}
                    \/ Join(r) /\ row \in {deal, AfterLastJoin(deal)}
  <2>1. CASE Invite(r)
    <3>1. PICK row \in {view[r].deal, AfterInvite(view[r].deal)} :
            AppendInvitationItem(r, row)
      BY <2>1 DEF Invite
    <3>2. view[r].deal = deal
      BY <2>1 DEF Invite, SerialInv
    <3> QED BY <2>1, <3>1, <3>2, AppendStep
  <2>2. CASE Join(r)
    <3>1. PICK row \in {view[r].deal, AfterLastJoin(view[r].deal)} :
            AppendInvitationItem(r, row)
      BY <2>2 DEF Join
    <3>2. view[r].deal = deal
      BY <2>2 DEF Join, SerialInv
    <3> QED BY <2>2, <3>1, <3>2, AppendStep
  <2> QED BY <2>1, <2>2
<1>2. /\ UNCHANGED <<deal, parties, evidence, job, view>>
      /\ draft'[r].deal = row
      /\ draft'[r].joins = draft[r].joins
      /\ draft'[r].accepted = draft[r].accepted
      /\ draft'[r].disputed = draft[r].disputed
      /\ draft'[r].milestone = view[r].milestone
  BY <1>1 DEF Appended, committed
<1>3. job[r] \in InvitationJob
  BY InvitationStep
<1>4. ItsItem(r)'
  <2> DEFINE locked == lock' = r
  <2>1. LinkedWith(r, locked) /\ locked \in BOOLEAN
    BY <1>1 DEF Appended
  <2>2. job[r] \in LogEntry
    BY <1>3 DEF LogEntry
  <2> HIDE DEF locked
  <2> QED BY <1>2, <2>1, <2>2, LinkedComesLast
<1>5. CASE Invite(r) /\ row \in {deal, AfterInvite(deal)}
  <2>1. /\ job[r].name = "Invite"
        /\ draft[r] = NoDraft
    BY <1>5 DEF Invite, IdleInv
  <2> QED BY <1>2, <1>3, <1>4, <1>5, <2>1 DEF Invites, Beside, NoDraft
<1>6. CASE Join(r) /\ row \in {deal, AfterLastJoin(deal)}
  <2>1. /\ job[r].name = "Join"
        /\ JoinsItsParty(r)
        /\ draft[r].accepted = {}
        /\ draft[r].disputed = {}
    BY <1>6 DEF Join, SerialInv
  <2> QED BY <1>2, <1>3, <1>4, <1>6, <2>1 DEF Joins, Beside, JoinsItsParty
<1> QED BY <1>1, <1>5, <1>6

LEMMA LoadDealSerial ==
  ASSUME Typed, NEW r, Workers = {r}, SerialInv(r), LoadDeal(r)
  PROVE  SerialInv(r)'
<1>1. /\ UNCHANGED <<deal, parties, events, evidence, job>>
      /\ pc[r] = "checked" /\ pc'[r] = "joined"
      /\ view'[r].deal = deal
      /\ draft'[r].accepted = {}
      /\ draft'[r].disputed = {}
  BY LoadDealStep DEF committed, Typed, TypeOK
<1>2. draft'[r].joins = IF view[r].known THEN {} ELSE {job[r].party}
  BY DEF LoadDeal, Typed, TypeOK, NoDraft
<1>3. parties \cup draft'[r].joins = parties \cup {job[r].party}
  BY <1>1, <1>2 DEF SerialInv
<1> QED BY <1>1, <1>3 DEF SerialInv, EvidenceLog, JoinsItsParty

---------------------------------------------------------------------------
(* The refinement                                                          *)

(* Nobody else has committed, so the columns of an UPDATE are its row.     *)
LEMMA CommitsDraft ==
  ASSUME Typed, NEW r \in Workers, SerialInv(r), Commit(r)
  PROVE  /\ deal' = draft[r].deal
         /\ parties' = parties \cup draft[r].joins
         /\ accepted' = accepted \cup draft[r].accepted
         /\ Current(r) => milestone' = draft[r].milestone
         /\ draft[r].milestone = view[r].milestone => milestone' = milestone
         /\ disputes' = [m \in Milestones |->
              disputes[m] + (IF m \in draft[r].disputed THEN 1 ELSE 0)]
         /\ events' = events \cup ({job[r]} \cap Chain)
         /\ evidence' = evidence \cup draft[r].items
<1>1. view[r].deal = deal
  BY DEF Commit, SerialInv
<1>2. /\ deal \in DealRow /\ draft[r].deal \in DealRow
      /\ milestone \in [Milestones -> MilestoneRow]
      /\ view[r].milestone \in [Milestones -> MilestoneRow]
      /\ draft[r].milestone \in [Milestones -> MilestoneRow]
  BY DEF Typed, TypeOK, View, Draft
<1>3. \A d, n \in DealRow : WrittenDeal(d, n, d) = n
  BY DEF WrittenDeal, Column, DealRow
<1>4. \A c, n \in MilestoneRow : /\ WrittenMilestone(c, n, c) = n
                                 /\ WrittenMilestone(n, n, c) = c
  BY DEF WrittenMilestone, Column, MilestoneRow
<1>5. deal' = draft[r].deal
  BY <1>1, <1>2, <1>3 DEF Commit
<1>6. milestone' = [m \in Milestones |->
        WrittenMilestone(view[r].milestone[m], draft[r].milestone[m],
                         milestone[m])]
  BY DEF Commit
<1>7. Current(r) => milestone' = draft[r].milestone
  <2>1. Current(r) => milestone' = [m \in Milestones |-> draft[r].milestone[m]]
    BY <1>2, <1>4, <1>6 DEF Current
  <2> QED BY <1>2, <2>1
<1>8. draft[r].milestone = view[r].milestone => milestone' = milestone
  <2>1. draft[r].milestone = view[r].milestone =>
          milestone' = [m \in Milestones |-> milestone[m]]
    BY <1>2, <1>4, <1>6
  <2> QED BY <1>2, <2>1
<1> QED BY <1>5, <1>7, <1>8 DEF Commit

(* A dispute row for the one milestone of a dispute, and none otherwise.   *)
LEMMA DisputeRows ==
  ASSUME Typed
  PROVE  /\ [m \in Milestones |-> disputes[m] + (IF m \in {} THEN 1 ELSE 0)]
              = disputes
         /\ \A k \in Milestones :
              [m \in Milestones |-> disputes[m] + (IF m \in {k} THEN 1 ELSE 0)]
                = [disputes EXCEPT ![k] = @ + 1]
<1>1. disputes \in [Milestones -> Nat]
  BY DEF Typed, TypeOK
<1>2. \A m \in Milestones :
        disputes[m] + (IF m \in {} THEN 1 ELSE 0) = disputes[m]
  BY <1>1
<1>3. ASSUME NEW k \in Milestones
      PROVE  [m \in Milestones |-> disputes[m] + (IF m \in {k} THEN 1 ELSE 0)]
               = [disputes EXCEPT ![k] = @ + 1]
  <2>1. PICK f : f = [disputes EXCEPT ![k] = @ + 1]
    OBVIOUS
  <2>2. f = [m \in Milestones |-> f[m]]
    BY <1>1, <2>1
  <2>3. \A m \in Milestones :
          disputes[m] + (IF m \in {k} THEN 1 ELSE 0) = f[m]
    BY <1>1, <2>1
  <2> QED BY <2>1, <2>2, <2>3
<1> QED BY <1>1, <1>2, <1>3

LEMMA CommitSerial ==
  ASSUME Typed, NEW r, Workers = {r}, SerialInv(r), Commit(r)
  PROVE  /\ SerialInv(r)'
         /\ ItsItem(r) => EvidenceLog' = Append(EvidenceLog, job[r])
         /\ NoItem(r) => EvidenceLog' = EvidenceLog
<1>1. evidence' = evidence \cup draft[r].items
  BY DEF Commit
<1>2. /\ pc'[r] = "idle"
      /\ job'[r] \notin Chain
  BY EnvironmentAssumption DEF Commit, EndSession, Typed, TypeOK
<1>3. evidence \in SUBSET EvidenceItem
  BY DEF Typed, TypeOK
<1>4. IsFiniteSet(evidence) /\ LogOf(evidence) \in Seq(LogEntry)
  BY DEF SerialInv, EvidenceLog
<1>5. ASSUME ItsItem(r)
      PROVE  /\ IsFiniteSet(evidence')
             /\ EvidenceLog' = Append(EvidenceLog, job[r])
             /\ EvidenceLog' \in Seq(LogEntry)
  <2>1. PICK x \in EvidenceItem : /\ draft[r].items = {x}
                                  /\ x.event = job[r]
                                  /\ \A y \in evidence : y.at < x.at
    BY <1>5 DEF ItsItem
  <2>2. evidence' = evidence \cup {x}
    BY <1>1, <2>1
  <2>3. /\ IsFiniteSet(evidence \cup {x})
        /\ LogOf(evidence \cup {x}) = Append(LogOf(evidence), x.event)
        /\ LogOf(evidence \cup {x}) \in Seq(LogEntry)
    BY <1>3, <1>4, <2>1, LaterItemIsAppended
  <2>4. EvidenceLog' = LogOf(evidence \cup {x})
    BY <2>2 DEF EvidenceLog
  <2> QED BY <2>1, <2>2, <2>3, <2>4 DEF EvidenceLog
<1>6. ASSUME NoItem(r)
      PROVE  /\ IsFiniteSet(evidence')
             /\ EvidenceLog' = EvidenceLog
             /\ EvidenceLog' \in Seq(LogEntry)
  <2>1. evidence' = evidence
    BY <1>1, <1>6 DEF NoItem
  <2> QED BY <1>4, <2>1 DEF EvidenceLog
<1>7. ItsItem(r) \/ NoItem(r)
  BY DEF Commit, SerialInv, FlushedStep, ReportsFlushed, Registers, Accepts,
         Funds, Submits, Approves, Releases, Disputes, Moves, Invites, Joins,
         Beside
<1> QED BY <1>2, <1>5, <1>6, <1>7 DEF SerialInv

(* The ledger's rules are those of the handlers.                           *)
LEMMA SameRules ==
  ASSUME NEW d
  PROVE  /\ Ledger!AfterRegister(d) = AfterRegister(d)
         /\ \A everyone : Ledger!AfterAccept(d, everyone) = AfterAccept(d, everyone)
         /\ \A t, b, n : Ledger!AfterFunding(d, t, b, n) = AfterFunding(d, t, b, n)
         /\ \A t, n : Ledger!CanFund(d, t, n) <=> CanFund(d, t, n)
         /\ Ledger!AfterSubmit(d) = AfterSubmit(d)
         /\ Ledger!AfterApprove(d) = AfterApprove(d)
         /\ \A t, n : Ledger!AfterRelease(d, t, n) = AfterRelease(d, t, n)
         /\ \A n : Ledger!AfterDispute(d, n) = AfterDispute(d, n)
         /\ \A s : Ledger!CanTransition(d, s) <=> CanTransition(d, s)
         /\ \A s : Ledger!AfterTransition(d, s) = AfterTransition(d, s)
         /\ Ledger!AfterInvite(d) = AfterInvite(d)
         /\ Ledger!AfterLastJoin(d) = AfterLastJoin(d)
<1>1. Ledger!AfterRegister(d) = AfterRegister(d)
  BY DEF Ledger!AfterRegister, AfterRegister
<1>2. \A everyone : Ledger!AfterAccept(d, everyone) = AfterAccept(d, everyone)
  BY DEF Ledger!AfterAccept, AfterAccept
<1>3. \A t, b, n : Ledger!AfterFunding(d, t, b, n) = AfterFunding(d, t, b, n)
  BY DEF Ledger!AfterFunding, AfterFunding, Ledger!ThresholdReached,
         ThresholdReached
<1>4. \A t, n : Ledger!CanFund(d, t, n) <=> CanFund(d, t, n)
  BY DEF Ledger!CanFund, CanFund
<1>5. Ledger!AfterSubmit(d) = AfterSubmit(d)
  BY DEF Ledger!AfterSubmit, AfterSubmit
<1>6. Ledger!AfterApprove(d) = AfterApprove(d)
  BY DEF Ledger!AfterApprove, AfterApprove
<1>7. \A t, n : Ledger!AfterRelease(d, t, n) = AfterRelease(d, t, n)
  BY DEF Ledger!AfterRelease, AfterRelease
<1>8. \A n : Ledger!AfterDispute(d, n) = AfterDispute(d, n)
  BY DEF Ledger!AfterDispute, AfterDispute
<1>9. \A s : Ledger!CanTransition(d, s) <=> CanTransition(d, s)
  BY DEF Ledger!CanTransition, CanTransition, Ledger!TRANSITIONS, TRANSITIONS
<1>10. \A s : Ledger!AfterTransition(d, s) = AfterTransition(d, s)
  BY DEF Ledger!AfterTransition, AfterTransition
<1>11. /\ Ledger!AfterInvite(d) = AfterInvite(d)
       /\ Ledger!AfterLastJoin(d) = AfterLastJoin(d)
  BY DEF Ledger!AfterInvite, AfterInvite, Ledger!AfterLastJoin, AfterLastJoin
<1> QED BY <1>1, <1>2, <1>3, <1>4, <1>5, <1>6, <1>7, <1>8, <1>9, <1>10, <1>11

(* What is committed is the step of the ledger that was flushed.           *)
LEMMA CommitIsLedgerStep ==
  ASSUME Typed, NEW r, Workers = {r}, SerialInv(r), Commit(r)
  PROVE  Ledger!Next
<1> DEFINE e == job[r]
           m == e.milestone
<1>1. /\ deal' = draft[r].deal
      /\ parties' = parties \cup draft[r].joins
      /\ accepted' = accepted \cup draft[r].accepted
      /\ Current(r) => milestone' = draft[r].milestone
      /\ draft[r].milestone = view[r].milestone => milestone' = milestone
      /\ disputes' = [k \in Milestones |->
           disputes[k] + (IF k \in draft[r].disputed THEN 1 ELSE 0)]
      /\ events' = events \cup ({e} \cap Chain)
  BY CommitsDraft
<1>2. /\ ItsItem(r) => EvidenceLog' = Append(EvidenceLog, e)
      /\ NoItem(r) => EvidenceLog' = EvidenceLog
  BY CommitSerial
<1>3. /\ draft[r].accepted = {} => accepted' = accepted
      /\ draft[r].disputed = {} => disputes' = disputes
      /\ draft[r].joins = {} => parties' = parties
  BY <1>1, DisputeRows
<1>4. CASE e \in Chain /\ ReportsFlushed(r) /\ Current(r)
  <2> USE <1>4
  <2>1. e \in Chain \ events /\ events' = events \cup {e}
    BY <1>1 DEF SerialInv
  <2>2. \A name : e.name = name => Ledger!New(e, name)
    <3>1. draft[r].joins = {}
      BY DEF ReportsFlushed, Registers, Accepts, Funds, Submits, Approves,
             Releases, Disputes, Flushed
    <3> QED BY <1>3, <2>1, <3>1 DEF Ledger!New
  <2>3. ItsItem(r) => Ledger!Logged(e)
    BY <1>2 DEF Ledger!Logged
  <2>4. ASSUME NEW status, m \in Milestones,
               milestone' = MarkedNow(m, status, milestone[m].released)
        PROVE  Ledger!Marked(e, status)
    <3>1. milestone[m] \in MilestoneRow
      BY <2>4 DEF Typed, TypeOK
    <3>2. [milestone[m] EXCEPT !.status = status]
            = [status |-> status, released |-> milestone[m].released]
      BY <3>1 DEF MilestoneRow
    <3>3. [milestone EXCEPT ![m].status = status]
            = [milestone EXCEPT ![m] = [milestone[m] EXCEPT !.status = status]]
      OBVIOUS
    <3> QED BY <2>4, <3>2, <3>3 DEF Ledger!Marked, MarkedNow
  <2>5. CASE Registers(r)
    <3>1. Ledger!Registered(e)
      BY <1>1, <1>3, <2>2, <2>3, <2>5, SameRules
      DEF Registers, Flushed, Ledger!Registered
    <3> QED BY <3>1 DEF Ledger!Next
  <2>6. CASE Accepts(r)
    <3>1. PICK p \in parties :
            /\ SentBy(p, e)
            /\ Flushed(r,
                 AfterAccept(deal, \A q \in parties :
                   Role[q] = "OBSERVER" \/ q \in accepted \cup {p}),
                 {p}, milestone, {})
      BY <2>6 DEF Accepts
    <3>2. accepted' = accepted \cup {p}
      BY <1>1, <3>1 DEF Flushed
    <3>3. deal' = Ledger!AfterAccept(deal, \A q \in parties :
                    Role[q] = "OBSERVER" \/ q \in accepted')
      BY <1>1, <3>1, <3>2, SameRules DEF Flushed
    <3>4. UNCHANGED <<milestone, disputes>>
      BY <1>1, <1>3, <3>1 DEF Flushed
    <3>5. Ledger!New(e, "PartyAccepted") /\ Ledger!Logged(e)
      BY <2>2, <2>3, <2>6 DEF Accepts
    <3>6. Wallet[p] # None /\ Wallet[p] = e.sender
      BY <3>1 DEF SentBy
    <3>7. Ledger!Accepted(e)
      BY <3>2, <3>3, <3>4, <3>5, <3>6 DEF Ledger!Accepted
    <3> QED BY <3>7 DEF Ledger!Next
  <2>7. CASE Funds(r)
    <3>1. Ledger!Funded(e)
      BY <1>1, <1>3, <2>2, <2>3, <2>7, SameRules
      DEF Funds, Flushed, Ledger!Funded
    <3> QED BY <3>1 DEF Ledger!Next
  <2>8. CASE Submits(r)
    <3>1. m \in Milestones
      BY <2>8, ChainTypes DEF Submits, MilestoneNames
    <3>2. Ledger!Marked(e, "SUBMITTED")
      BY <1>1, <2>4, <2>8, <3>1 DEF Submits, Flushed
    <3>3. Ledger!Submitted(e)
      BY <1>1, <1>3, <2>2, <2>3, <2>8, <3>2, SameRules
      DEF Submits, Flushed, Ledger!Submitted
    <3> QED BY <3>3 DEF Ledger!Next
  <2>9. CASE Approves(r)
    <3>1. m \in Milestones
      BY <2>9, ChainTypes DEF Approves, MilestoneNames
    <3>2. Ledger!Marked(e, "APPROVED")
      BY <1>1, <2>4, <2>9, <3>1 DEF Approves, Flushed
    <3>3. Ledger!Approved(e)
      BY <1>1, <1>2, <1>3, <2>2, <2>9, <3>2, SameRules
      DEF Approves, Flushed, Ledger!Approved
    <3> QED BY <3>3 DEF Ledger!Next
  <2>10. CASE Releases(r)
    <3>1. Ledger!Released(e)
      BY <1>1, <1>3, <2>2, <2>3, <2>10, SameRules
      DEF Releases, Flushed, MarkedNow, Ledger!Released
    <3> QED BY <3>1 DEF Ledger!Next
  <2>11. CASE Disputes(r)
    <3>1. m \in Milestones
      BY <2>11, ChainTypes DEF Disputes, MilestoneNames
    <3>2. Ledger!Marked(e, "DISPUTED")
      BY <1>1, <2>4, <2>11, <3>1 DEF Disputes, Flushed
    <3>3. disputes' = [disputes EXCEPT ![m] = @ + 1]
      BY <1>1, <2>11, <3>1, DisputeRows DEF Disputes, Flushed
    <3>4. Ledger!Disputed(e)
      BY <1>1, <1>2, <1>3, <2>2, <2>11, <3>2, <3>3, SameRules
      DEF Disputes, Flushed, Ledger!Disputed
    <3> QED BY <3>4 DEF Ledger!Next
  <2> QED BY <2>5, <2>6, <2>7, <2>8, <2>9, <2>10, <2>11
          DEF ReportsFlushed
<1>5. CASE Moves(r) /\ Current(r)
  <2>1. e \notin Chain /\ e.target \in Targets
    BY <1>5, ChainTypes DEF Moves, TransitionJob
  <2>2. events' = events
    BY <1>1, <2>1
  <2>3. Ledger!Transition(e.target)
    BY <1>1, <1>2, <1>3, <1>5, <2>2, SameRules
    DEF Moves, Flushed, Ledger!Transition
  <2> QED BY <2>1, <2>3 DEF Ledger!Next
<1>6. ASSUME Beside(r), e \in InvitationJob
      PROVE  /\ Ledger!Logged([name |-> e.name, party |-> e.party])
             /\ e.party \in Late
             /\ UNCHANGED <<accepted, milestone, disputes, events>>
  <2>1. e \notin Chain /\ e = [name |-> e.name, party |-> e.party]
    BY <1>6, ChainTypes DEF InvitationJob
  <2>2. Ledger!Logged([name |-> e.name, party |-> e.party])
    BY <1>2, <1>6, <2>1 DEF Beside, Ledger!Logged
  <2>3. UNCHANGED <<accepted, milestone, disputes, events>>
    BY <1>1, <1>3, <1>6, <2>1 DEF Beside
  <2> QED BY <1>6, <2>2, <2>3, ChainTypes
<1>7. CASE Invites(r)
  <2>1. Ledger!Invited(e.party)
    BY <1>1, <1>3, <1>6, <1>7, SameRules DEF Invites, Ledger!Invited
  <2> QED BY <1>6, <1>7, <2>1 DEF Invites, Ledger!Next
<1>8. CASE Joins(r)
  <2>1. Ledger!Joined(e.party)
    BY <1>1, <1>6, <1>8, SameRules DEF Joins, JoinsItsParty, Ledger!Joined
  <2> QED BY <1>6, <1>8, <2>1 DEF Joins, Ledger!Next
<1> QED BY <1>4, <1>5, <1>7, <1>8 DEF Commit, SerialInv, FlushedStep

(* Every other step of the session leaves the ledger alone.                *)
LEMMA SerialStep ==
  ASSUME Typed, IdleInv, EvidenceInv, NEW r, Workers = {r}, Retries = FALSE,
         SerialInv(r), [Next]_vars
  PROVE  SerialInv(r)' /\ [Ledger!Next]_(Ledger!ledger)
<1>1. \A q \in Workers : q = r
  OBVIOUS
<1>2. UNCHANGED committed => UNCHANGED Ledger!ledger
  BY DEF committed, Ledger!ledger, EvidenceLog
<1>3. CASE UNCHANGED vars
  BY <1>2, <1>3 DEF vars, committed, sessions, SerialInv, EvidenceLog, Current,
     FlushedStep, ReportsFlushed, Registers, Accepts, Funds, Submits, Approves,
     Releases, Disputes, Moves, Invites, Joins, JoinsItsParty, Beside, Flushed,
     ItsItem, NoItem, MarkedNow
<1>4. CASE Loads(r)
  BY <1>2, <1>4, LoadSerial, LoadFrame
<1>5. CASE LoadDeal(r)
  BY <1>2, <1>5, LoadDealSerial, LoadDealStep
<1>6. CASE Handle(r)
  <2>1. /\ UNCHANGED <<committed, job, view>>
        /\ pc[r] \in {"loaded", "verified"}
        /\ pc'[r] = "flushed"
    BY <1>6, HandlerFrame DEF Typed, TypeOK
  <2>2. FlushedStep(r)'
    BY <1>6, HandlersFlush DEF FlushedStep
  <2>3. SerialInv(r)'
    BY <2>1, <2>2 DEF SerialInv, EvidenceLog, committed
  <2> QED BY <1>2, <2>1, <2>3
<1>7. CASE Invite(r) \/ Join(r)
  <2>1. /\ UNCHANGED <<committed, job, view>>
        /\ pc[r] \in {"loaded", "joined"}
        /\ pc'[r] = "flushed"
    BY <1>7, InvitationStep DEF Appended, Typed, TypeOK
  <2>2. FlushedStep(r)'
    BY <1>7, InvitationsFlush DEF FlushedStep
  <2>3. SerialInv(r)'
    BY <2>1, <2>2 DEF SerialInv, EvidenceLog, committed
  <2> QED BY <1>2, <2>1, <2>3
<1>8. CASE Commit(r)
  BY <1>8, CommitSerial, CommitIsLedgerStep
<1>9. CASE Refuse(r) \/ Abort(r)
  <2>1. EndSession(r) /\ UNCHANGED committed
    BY <1>9 DEF Refuse, Abort
  <2>2. pc'[r] = "idle" /\ job'[r] \notin Chain
    BY <2>1, EnvironmentAssumption DEF EndSession, Typed, TypeOK
  <2>3. SerialInv(r)'
    BY <2>1, <2>2 DEF SerialInv, EvidenceLog, committed
  <2> QED BY <1>2, <2>1, <2>3
<1> QED BY <1>1, <1>3, <1>4, <1>5, <1>6, <1>7, <1>8, <1>9 DEF Next, Loads

LEMMA InitLedger == Init => Ledger!Init
<1> SUFFICES ASSUME Init PROVE Ledger!Init
  OBVIOUS
<1>1. Cardinality({}) = 0
  BY FS_EmptySet
<1>2. EvidenceLog = << >>
  <2>1. EvidenceLog =
          [n \in {} |-> TheItem({x \in {} : Rank(x, {}) = n}).event]
    BY <1>1 DEF EvidenceLog, LogOf, Init
  <2> QED BY <2>1
<1> QED BY <1>2 DEF Init, Ledger!Init, NewDeal, NewMilestones

(* Requests that run one after the other, each event reported once, keep   *)
(* the ledger: every step of theirs is one of its steps or none, for every *)
(* set of parties, milestones and events and every order of the reports.   *)
THEOREM SerialRequestsKeepTheLedger ==
  ASSUME NEW r, Workers = {r}, Retries = FALSE
  PROVE  Spec => LedgerSpec
<1>1. Init => Typed /\ IdleInv /\ EvidenceInv /\ SerialInv(r) /\ Ledger!Init
  BY InitTyped, InitEvidence, InitSerial, InitLedger DEF Init, IdleInv
<1>2. Typed /\ IdleInv /\ EvidenceInv /\ SerialInv(r) /\ [Next]_vars =>
        /\ (Typed /\ IdleInv /\ EvidenceInv /\ SerialInv(r))'
        /\ [Ledger!Next]_(Ledger!ledger)
  BY NextTyped, NextIdle, NextEvidence, SerialStep
<1> QED BY <1>1, <1>2, PTL DEF Spec, LedgerSpec, Ledger!Spec

---------------------------------------------------------------------------
(* No column is ahead of the evidence.                                     *)
(*                                                                         *)
(* A commit may write a sum computed from rows another session has changed *)
(* since.  The invariant therefore speaks of every copy: what is committed *)
(* or loaded is covered by the committed evidence and disputes, which only *)
(* grow, and what is flushed by those together with the item or the        *)
(* dispute of its own request, which the same commit stores.               *)

(* The sums of the property, over any evidence E and dispute rows n.       *)
Items(name, E) == {i \in E : i.event.name = name}

Credits == [i \in EvidenceItem |-> i.event.credited]

Payouts == [i \in EvidenceItem |-> Amount[i.event.milestone]]

Worths(n) == [m \in Milestones |-> n[m] * Amount[m]]

FundingOf(E) == SumOver(Credits, Items("DealFunded", E))

ReleasesOf(E) == SumOver(Payouts, Items("MilestoneReleased", E))

DisputesOf(n) == SumOver(Worths(n), Milestones)

(* What the row shows is covered by them.                                  *)
Covered(row, E, n) ==
  /\ row.funded <= FundingOf(E)
  /\ row.released <= ReleasesOf(E)
  /\ row.disputed <= DisputesOf(n)

(* The dispute rows once those of S are added.                             *)
OneMore(n, S) == [m \in Milestones |-> n[m] + (IF m \in S THEN 1 ELSE 0)]

CoveredInv ==
  /\ IsFiniteSet(evidence)
  /\ Covered(deal, evidence, disputes)
  /\ \A r \in Workers :
       /\ IsFiniteSet(draft[r].items)
       /\ Covered(view[r].deal, evidence, disputes)
       /\ Covered(draft[r].deal, evidence \cup draft[r].items,
                  OneMore(disputes, draft[r].disputed))

---------------------------------------------------------------------------
LEMMA Products ==
  \A a, b, c \in Nat : /\ a * b \in Nat
                       /\ (a + 1) * b = a * b + b
                       /\ a <= c => a * b <= c * b
<1> SUFFICES ASSUME NEW a \in Nat, NEW b \in Nat, NEW c \in Nat
             PROVE  /\ a * b \in Nat
                    /\ (a + 1) * b = a * b + b
                    /\ a <= c => a * b <= c * b
  OBVIOUS
<1>1. a * b \in Nat
  OBVIOUS
<1>2. (a + 1) * b = a * b + b
  OBVIOUS
<1>3. a <= c => a * b <= c * b
  OBVIOUS
<1> QED BY <1>1, <1>2, <1>3

LEMMA AmountType == Amount \in [Milestones -> Nat] /\ IsFiniteSet(Milestones)
BY DealAssumption

(* The summands are natural numbers.                                       *)
LEMMA SummandTypes ==
  ASSUME NEW E \in SUBSET EvidenceItem, IsFiniteSet(E)
  PROVE  /\ IsFiniteSet(Items("DealFunded", E))
         /\ IsFiniteSet(Items("MilestoneReleased", E))
         /\ \A i \in Items("DealFunded", E) : Credits[i] \in Nat
         /\ \A i \in Items("MilestoneReleased", E) : Payouts[i] \in Nat
         /\ FundingOf(E) \in Nat
         /\ ReleasesOf(E) \in Nat
<1>1. \A name : Items(name, E) \in SUBSET E
  BY DEF Items
<1>2. \A name : IsFiniteSet(Items(name, E))
  BY <1>1, FS_Subset
<1>3. \A name \in ChainNames :
        \A i \in Items(name, E) : i \in EvidenceItem /\ i.event \in Chain
  <2>1. \A i \in EvidenceItem : i.event \in Job
    BY DEF EvidenceItem, Job
  <2> QED BY <2>1, ChainTypes DEF Items
<1>4. ASSUME NEW i \in Items("DealFunded", E)
      PROVE  Credits[i] \in Nat
  <2>1. i \in EvidenceItem /\ i.event \in Chain
    BY <1>3 DEF ChainNames
  <2> QED BY <2>1, ChainTypes DEF Credits
<1>5. ASSUME NEW i \in Items("MilestoneReleased", E)
      PROVE  Payouts[i] \in Nat
  <2>1. i \in EvidenceItem /\ i.event \in Chain
    BY <1>3 DEF ChainNames
  <2>2. i.event.name \in MilestoneNames
    BY DEF Items, MilestoneNames
  <2> QED BY <2>1, <2>2, ChainTypes DEF Payouts
<1>6. FundingOf(E) \in Nat
  BY <1>2, <1>4, SumType DEF FundingOf
<1>7. ReleasesOf(E) \in Nat
  BY <1>2, <1>5, SumType DEF ReleasesOf
<1> QED BY <1>2, <1>4, <1>5, <1>6, <1>7

LEMMA DisputeTypes ==
  ASSUME NEW n \in [Milestones -> Nat]
  PROVE  /\ \A m \in Milestones : Worths(n)[m] = n[m] * Amount[m]
         /\ \A m \in Milestones : Worths(n)[m] \in Nat
         /\ DisputesOf(n) \in Nat
         /\ \A S : OneMore(n, S) \in [Milestones -> Nat]
<1>1. \A m \in Milestones : Worths(n)[m] = n[m] * Amount[m]
  BY DEF Worths
<1>2. \A m \in Milestones : Worths(n)[m] \in Nat
  BY <1>1, AmountType, Products
<1>3. DisputesOf(n) \in Nat
  BY <1>2, AmountType, SumType DEF DisputesOf
<1>4. \A S : OneMore(n, S) \in [Milestones -> Nat]
  BY DEF OneMore
<1> QED BY <1>1, <1>2, <1>3, <1>4

(* The property speaks of these sums.                                      *)
LEMMA RecordedFunding ==
  ASSUME evidence \in SUBSET EvidenceItem, IsFiniteSet(evidence)
  PROVE  Recorded("DealFunded", LAMBDA e : e.credited) = FundingOf(evidence)
<1> DEFINE S == Items("DealFunded", evidence)
           P(g) == g = [s \in SUBSET S |->
                          IF s = {} THEN 0
                          ELSE One(s).event.credited + g[s \ {One(s)}]]
<1>1. Recorded("DealFunded", LAMBDA e : e.credited) = (CHOOSE g : P(g))[S]
  BY DEF Recorded, MapThenSumSet, MapThenFoldSet, Items, One
<1>2. S \subseteq EvidenceItem /\ IsFiniteSet(S)
  BY SummandTypes DEF Items
<1>3. ASSUME NEW s \in SUBSET S, s # {}
      PROVE  Credits[One(s)] = One(s).event.credited
  BY <1>2, <1>3, OneIsElement DEF Credits
<1> HIDE DEF S
<1>4. \A g : P(g) <=> Sums(g, Credits, S)
  BY <1>3 DEF Sums
<1>5. \E g : P(g)
  BY <1>2, <1>4, SumsExist
<1>6. Sums(CHOOSE g : P(g), Credits, S)
  BY <1>4, <1>5
<1>7. S \in SUBSET S
  OBVIOUS
<1>8. (CHOOSE g : P(g))[S] = SumOver(Credits, S)
  BY <1>2, <1>6, <1>7, SumOfSubset
<1> QED BY <1>1, <1>8 DEF FundingOf, S

LEMMA RecordedReleases ==
  ASSUME evidence \in SUBSET EvidenceItem, IsFiniteSet(evidence)
  PROVE  Recorded("MilestoneReleased", LAMBDA e : Amount[e.milestone])
           = ReleasesOf(evidence)
<1> DEFINE S == Items("MilestoneReleased", evidence)
           P(g) == g = [s \in SUBSET S |->
                          IF s = {} THEN 0
                          ELSE Amount[One(s).event.milestone] + g[s \ {One(s)}]]
<1>1. Recorded("MilestoneReleased", LAMBDA e : Amount[e.milestone])
        = (CHOOSE g : P(g))[S]
  BY DEF Recorded, MapThenSumSet, MapThenFoldSet, Items, One
<1>2. S \subseteq EvidenceItem /\ IsFiniteSet(S)
  BY SummandTypes DEF Items
<1>3. ASSUME NEW s \in SUBSET S, s # {}
      PROVE  Payouts[One(s)] = Amount[One(s).event.milestone]
  BY <1>2, <1>3, OneIsElement DEF Payouts
<1> HIDE DEF S
<1>4. \A g : P(g) <=> Sums(g, Payouts, S)
  BY <1>3 DEF Sums
<1>5. \E g : P(g)
  BY <1>2, <1>4, SumsExist
<1>6. Sums(CHOOSE g : P(g), Payouts, S)
  BY <1>4, <1>5
<1>7. S \in SUBSET S
  OBVIOUS
<1>8. (CHOOSE g : P(g))[S] = SumOver(Payouts, S)
  BY <1>2, <1>6, <1>7, SumOfSubset
<1> QED BY <1>1, <1>8 DEF ReleasesOf, S

LEMMA DisputedWorth ==
  MilestonesDisputed = DisputesOf(disputes)
<1> DEFINE P(g) == g = [s \in SUBSET Milestones |->
                          IF s = {} THEN 0
                          ELSE disputes[One(s)] * Amount[One(s)]
                                 + g[s \ {One(s)}]]
<1>1. MilestonesDisputed = (CHOOSE g : P(g))[Milestones]
  BY DEF MilestonesDisputed, MapThenSumSet, MapThenFoldSet, One
<1>2. IsFiniteSet(Milestones)
  BY AmountType
<1>3. ASSUME NEW s \in SUBSET Milestones, s # {}
      PROVE  Worths(disputes)[One(s)] = disputes[One(s)] * Amount[One(s)]
  BY <1>3, OneIsElement DEF Worths
<1>4. \A g : P(g) <=> Sums(g, Worths(disputes), Milestones)
  BY <1>3 DEF Sums
<1>5. \E g : P(g)
  BY <1>2, <1>4, SumsExist
<1>6. Sums(CHOOSE g : P(g), Worths(disputes), Milestones)
  BY <1>4, <1>5
<1>7. Milestones \in SUBSET Milestones
  OBVIOUS
<1>8. (CHOOSE g : P(g))[Milestones] = SumOver(Worths(disputes), Milestones)
  BY <1>2, <1>6, <1>7, SumOfSubset
<1> QED BY <1>1, <1>8 DEF DisputesOf

---------------------------------------------------------------------------
(* More evidence and more disputes cover what less of them covered.        *)
LEMMA MoreCovers ==
  ASSUME NEW F \in SUBSET EvidenceItem, IsFiniteSet(F), NEW E \in SUBSET F,
         NEW n \in [Milestones -> Nat], NEW k \in [Milestones -> Nat],
         \A m \in Milestones : n[m] <= k[m],
         NEW row \in DealRow, Covered(row, E, n)
  PROVE  Covered(row, F, k)
<1>1. E \in SUBSET EvidenceItem /\ IsFiniteSet(E)
  BY FS_Subset
<1>2. \A name : Items(name, E) \in SUBSET Items(name, F)
  BY DEF Items
<1>3. FundingOf(E) <= FundingOf(F)
  BY <1>2, SummandTypes, SumMonotone DEF FundingOf
<1>4. ReleasesOf(E) <= ReleasesOf(F)
  BY <1>2, SummandTypes, SumMonotone DEF ReleasesOf
<1>5. \A m \in Milestones : Worths(n)[m] <= Worths(k)[m]
  <2>1. \A m \in Milestones : /\ n[m] \in Nat /\ k[m] \in Nat
                              /\ Amount[m] \in Nat /\ n[m] <= k[m]
    BY AmountType
  <2> QED BY <2>1, Products, DisputeTypes
<1>6. DisputesOf(n) <= DisputesOf(k)
  BY <1>5, DisputeTypes, AmountType, SumAtMost DEF DisputesOf
<1>7. /\ row.funded \in Nat /\ row.released \in Nat /\ row.disputed \in Nat
      /\ FundingOf(E) \in Nat /\ ReleasesOf(E) \in Nat /\ DisputesOf(n) \in Nat
      /\ FundingOf(F) \in Nat /\ ReleasesOf(F) \in Nat /\ DisputesOf(k) \in Nat
  BY <1>1, SummandTypes, DisputeTypes DEF DealRow
<1> QED BY <1>3, <1>4, <1>6, <1>7 DEF Covered

(* One item more, or one dispute.                                          *)
LEMMA ItemAdds ==
  ASSUME NEW E \in SUBSET EvidenceItem, IsFiniteSet(E),
         NEW x \in EvidenceItem, x \notin E
  PROVE  /\ x.event.name = "DealFunded" =>
              FundingOf(E \cup {x}) = FundingOf(E) + x.event.credited
         /\ x.event.name = "MilestoneReleased" =>
              ReleasesOf(E \cup {x}) =
                ReleasesOf(E) + Amount[x.event.milestone]
<1>1. E \cup {x} \in SUBSET EvidenceItem /\ IsFiniteSet(E \cup {x})
  BY FS_AddElement
<1>2. \A name : /\ x \notin Items(name, E)
                /\ x.event.name = name =>
                     Items(name, E \cup {x}) = Items(name, E) \cup {x}
  BY DEF Items
<1>3. Credits[x] = x.event.credited /\ Payouts[x] = Amount[x.event.milestone]
  BY DEF Credits, Payouts
<1>4. ASSUME x.event.name = "DealFunded"
      PROVE  FundingOf(E \cup {x}) = FundingOf(E) + x.event.credited
  <2>1. PICK S : S = Items("DealFunded", E)
    OBVIOUS
  <2>2. /\ IsFiniteSet(S)
        /\ Items("DealFunded", E \cup {x}) = S \cup {x}
        /\ x \notin S
        /\ \A i \in S \cup {x} : Credits[i] \in Nat
    BY <1>1, <1>2, <1>4, <2>1, SummandTypes
  <2>3. /\ SumOver(Credits, S \cup {x}) = Credits[x] + SumOver(Credits, S)
        /\ SumOver(Credits, S) \in Nat
    BY <2>2, SumAdd
  <2>4. Credits[x] \in Nat
    BY <2>2
  <2>5. /\ FundingOf(E \cup {x}) = SumOver(Credits, S \cup {x})
        /\ FundingOf(E) = SumOver(Credits, S)
    BY <2>1, <2>2, Zenon DEF FundingOf
  <2> QED BY <1>3, <2>3, <2>4, <2>5
<1>5. ASSUME x.event.name = "MilestoneReleased"
      PROVE  ReleasesOf(E \cup {x}) = ReleasesOf(E) + Amount[x.event.milestone]
  <2>1. PICK S : S = Items("MilestoneReleased", E)
    OBVIOUS
  <2>2. /\ IsFiniteSet(S)
        /\ Items("MilestoneReleased", E \cup {x}) = S \cup {x}
        /\ x \notin S
        /\ \A i \in S \cup {x} : Payouts[i] \in Nat
    BY <1>1, <1>2, <1>5, <2>1, SummandTypes
  <2>3. /\ SumOver(Payouts, S \cup {x}) = Payouts[x] + SumOver(Payouts, S)
        /\ SumOver(Payouts, S) \in Nat
    BY <2>2, SumAdd
  <2>4. Payouts[x] \in Nat
    BY <2>2
  <2>5. /\ ReleasesOf(E \cup {x}) = SumOver(Payouts, S \cup {x})
        /\ ReleasesOf(E) = SumOver(Payouts, S)
    BY <2>1, <2>2, Zenon DEF ReleasesOf
  <2> QED BY <1>3, <2>3, <2>4, <2>5
<1> QED BY <1>4, <1>5

LEMMA DisputeAdds ==
  ASSUME NEW n \in [Milestones -> Nat], NEW m \in Milestones
  PROVE  DisputesOf(OneMore(n, {m})) = DisputesOf(n) + Amount[m]
<1> DEFINE k == OneMore(n, {m})
<1>1. k \in [Milestones -> Nat]
  BY DisputeTypes
<1>2. k[m] = n[m] + 1 /\ \A o \in Milestones \ {m} : k[o] = n[o]
  BY DEF OneMore
<1>3. /\ Worths(k)[m] = Worths(n)[m] + Amount[m]
      /\ \A o \in Milestones \ {m} : Worths(k)[o] = Worths(n)[o]
  <2>1. /\ Worths(k)[m] = (n[m] + 1) * Amount[m]
        /\ Worths(n)[m] = n[m] * Amount[m]
    BY <1>1, <1>2, DisputeTypes
  <2>2. (n[m] + 1) * Amount[m] = n[m] * Amount[m] + Amount[m]
    BY AmountType, Products
  <2>3. \A o \in Milestones \ {m} : Worths(k)[o] = Worths(n)[o]
    BY <1>2 DEF Worths
  <2> QED BY <2>1, <2>2, <2>3
<1>4. \A o \in Milestones : Worths(n)[o] \in Nat /\ Worths(k)[o] \in Nat
  BY <1>1, DisputeTypes
<1>5. PICK f, e : f = Worths(n) /\ e = Worths(k)
  OBVIOUS
<1>6. PICK rest \in Nat : /\ SumOver(f, Milestones) = f[m] + rest
                         /\ SumOver(e, Milestones) = e[m] + rest
  <2>1. /\ \A o \in Milestones : f[o] \in Nat /\ e[o] \in Nat
        /\ \A o \in Milestones \ {m} : e[o] = f[o]
        /\ IsFiniteSet(Milestones)
    BY <1>3, <1>4, <1>5, AmountType
  <2>2. /\ SumOver(f, Milestones) = f[m] + SumOver(f, Milestones \ {m})
        /\ SumOver(e, Milestones) = e[m] + SumOver(f, Milestones \ {m})
        /\ SumOver(f, Milestones \ {m}) \in Nat
    BY <2>1, SumUpdate
  <2> QED BY <2>2
<1>7. f[m] \in Nat /\ e[m] = f[m] + Amount[m] /\ Amount[m] \in Nat
  BY <1>3, <1>4, <1>5, AmountType
<1>8. SumOver(e, Milestones) = SumOver(f, Milestones) + Amount[m]
  BY <1>6, <1>7
<1> QED BY <1>5, <1>8 DEF DisputesOf

---------------------------------------------------------------------------
(* The steps                                                               *)

LEMMA NewRowIsCovered ==
  ASSUME NEW E \in SUBSET EvidenceItem, IsFiniteSet(E),
         NEW n \in [Milestones -> Nat]
  PROVE  Covered(NewDeal, E, n)
<1>1. FundingOf(E) \in Nat /\ ReleasesOf(E) \in Nat /\ DisputesOf(n) \in Nat
  BY SummandTypes, DisputeTypes
<1> QED BY <1>1 DEF Covered, NewDeal

LEMMA InitCovered == Init => CoveredInv
<1> SUFFICES ASSUME Init PROVE CoveredInv
  OBVIOUS
<1>1. PICK n : n = [m \in Milestones |-> 0]
  OBVIOUS
<1>2. n \in [Milestones -> Nat]
  BY <1>1
<1>3. IsFiniteSet({}) /\ {} \in SUBSET EvidenceItem /\ {} \cup {} = {}
  BY FS_EmptySet
<1>4. OneMore(n, {}) \in [Milestones -> Nat]
  BY <1>2, DisputeTypes
<1>5. Covered(NewDeal, {}, n) /\ Covered(NewDeal, {}, OneMore(n, {}))
  BY <1>2, <1>3, <1>4, NewRowIsCovered
<1>6. /\ evidence = {} /\ disputes = n /\ deal = NewDeal
      /\ \A r \in Workers : /\ view[r].deal = NewDeal
                            /\ draft[r].deal = NewDeal
                            /\ draft[r].items = {}
                            /\ draft[r].disputed = {}
  BY <1>1 DEF Init, NoView, NoDraft
<1>7. \A r \in Workers : evidence \cup draft[r].items = {}
  BY <1>6
<1> QED BY <1>3, <1>5, <1>6, <1>7 DEF CoveredInv

(* What a handler adds to a column, its item or its dispute accounts for.  *)
LEMMA HandlersCovered ==
  ASSUME Typed, EvidenceInv, CoveredInv, NEW r \in Workers, Handle(r)
  PROVE  /\ IsFiniteSet(draft'[r].items)
         /\ Covered(draft'[r].deal, evidence \cup draft'[r].items,
                    OneMore(disputes, draft'[r].disputed))
<1> DEFINE d == view[r].deal
           m == job[r].milestone
<1>1. /\ d \in DealRow
      /\ evidence \in SUBSET EvidenceItem /\ IsFiniteSet(evidence)
      /\ disputes \in [Milestones -> Nat]
      /\ Covered(d, evidence, disputes)
  BY DEF Typed, TypeOK, View, CoveredInv
<1>2. /\ evidence' = evidence /\ job' = job
      /\ pc[r] \in {"loaded", "verified"}
  BY HandlerFrame DEF committed
<1>3. ASSUME NEW row \in DealRow, NEW items \in SUBSET EvidenceItem,
             IsFiniteSet(items), NEW S, Covered(row, evidence, disputes)
      PROVE  Covered(row, evidence \cup items, OneMore(disputes, S))
  <2>1. /\ evidence \cup items \in SUBSET EvidenceItem
        /\ IsFiniteSet(evidence \cup items)
        /\ evidence \in SUBSET (evidence \cup items)
    BY <1>1, <1>3, FS_Union
  <2>2. /\ OneMore(disputes, S) \in [Milestones -> Nat]
        /\ \A o \in Milestones : disputes[o] <= OneMore(disputes, S)[o]
    BY <1>1 DEF OneMore
  <2> QED BY <1>1, <1>3, <2>1, <2>2, MoreCovers
<1>4. ASSUME LinkedItem(r), job[r].name \in ChainNames
      PROVE  /\ job[r] \in Chain
             /\ \E x \in EvidenceItem : /\ draft'[r].items = {x}
                                        /\ x.event = job[r]
                                        /\ x \notin evidence
  <2>1. job[r] \in Chain
    BY <1>2, <1>4, ChainTypes DEF Typed, AtWork
  <2>2. ItsItem(r)'
    BY <1>4, <2>1, LinkedIsItsItem
  <2>3. PICK x \in EvidenceItem : /\ draft'[r].items = {x}
                                  /\ x.event = job[r]
                                  /\ \A y \in evidence : y.at < x.at
    BY <1>2, <2>2 DEF ItsItem
  <2>4. x.at \in Nat /\ x \notin evidence
    BY <2>3 DEF EvidenceItem
  <2> QED BY <2>1, <2>3, <2>4
<1>5. draft'[r].deal \in DealRow
  <2>1. TypeOK'
    BY NextTyped DEF Typed, Next
  <2> QED BY <2>1 DEF TypeOK, Draft
<1>6. CASE RecordFunding(r)
  <2>1. /\ draft'[r].deal = AfterFunding(d, Total, Bps, job[r].credited)
        /\ draft'[r].disputed = {}
        /\ LinkedItem(r)
        /\ job[r].name = "DealFunded"
    BY <1>6, HandlerDrafts DEF Drafted, RecordFunding, Verified
  <2>2. PICK x \in EvidenceItem : /\ draft'[r].items = {x}
                                  /\ x.event = job[r]
                                  /\ x \notin evidence
    BY <1>4, <2>1 DEF ChainNames
  <2>3. IsFiniteSet({x}) /\ x.event \in Chain
    BY <1>4, <2>1, <2>2, FS_Singleton DEF ChainNames
  <2>4. Covered(d, evidence \cup {x}, OneMore(disputes, {}))
    BY <1>1, <1>3, <2>3
  <2>5. FundingOf(evidence \cup {x}) = FundingOf(evidence) + job[r].credited
    BY <1>1, <2>1, <2>2, ItemAdds
  <2>6. /\ draft'[r].deal.funded = d.funded + job[r].credited
        /\ draft'[r].deal.released = d.released
        /\ draft'[r].deal.disputed = d.disputed
    BY <1>1, <2>1, EffectsOnFunded, EffectsOnReleased, EffectsOnDisputed
  <2>7. /\ job[r].credited \in Nat /\ d.funded \in Nat
        /\ FundingOf(evidence) \in Nat
        /\ d.funded <= FundingOf(evidence)
    BY <1>1, <2>2, <2>3, ChainTypes, SummandTypes DEF DealRow, Covered
  <2>8. Covered(draft'[r].deal, evidence \cup {x}, OneMore(disputes, {}))
    BY <2>4, <2>5, <2>6, <2>7 DEF Covered
  <2> QED BY <2>1, <2>2, <2>3, <2>8
<1>7. CASE ReleaseMilestone(r)
  <2>1. /\ draft'[r].deal = AfterRelease(d, Total, Amount[m])
        /\ draft'[r].disputed = {}
        /\ LinkedItem(r)
        /\ job[r].name = "MilestoneReleased"
    BY <1>7, HandlerDrafts DEF Drafted, ReleaseMilestone, Verified
  <2>2. PICK x \in EvidenceItem : /\ draft'[r].items = {x}
                                  /\ x.event = job[r]
                                  /\ x \notin evidence
    BY <1>4, <2>1 DEF ChainNames
  <2>3. IsFiniteSet({x}) /\ x.event \in Chain
    BY <1>4, <2>1, <2>2, FS_Singleton DEF ChainNames
  <2>4. Covered(d, evidence \cup {x}, OneMore(disputes, {}))
    BY <1>1, <1>3, <2>3
  <2>5. ReleasesOf(evidence \cup {x}) = ReleasesOf(evidence) + Amount[m]
    BY <1>1, <2>1, <2>2, ItemAdds
  <2>6. /\ draft'[r].deal.released = d.released + Amount[m]
        /\ draft'[r].deal.funded = d.funded
        /\ draft'[r].deal.disputed = d.disputed
    BY <1>1, <2>1, EffectsOnFunded, EffectsOnDisputed DEF AfterRelease, DealRow
  <2>7. /\ Amount[m] \in Nat /\ d.released \in Nat
        /\ ReleasesOf(evidence) \in Nat
        /\ d.released <= ReleasesOf(evidence)
    BY <1>1, <2>1, <2>2, <2>3, ChainTypes, SummandTypes
    DEF DealRow, Covered, MilestoneNames
  <2>8. Covered(draft'[r].deal, evidence \cup {x}, OneMore(disputes, {}))
    BY <2>4, <2>5, <2>6, <2>7 DEF Covered
  <2> QED BY <2>1, <2>2, <2>3, <2>8
<1>8. CASE OpenDispute(r)
  <2>1. /\ draft'[r].deal = AfterDispute(d, Amount[m])
        /\ draft'[r].disputed = {m}
        /\ draft'[r].items = {}
        /\ job[r].name = "DisputeOpened"
    BY <1>8, HandlerDrafts DEF Drafted, OpenDispute, Verified
  <2>2. job[r] \in Chain
    BY <1>2, <2>1, ChainTypes DEF ChainNames, Typed, AtWork
  <2>3. m \in Milestones /\ Amount[m] \in Nat
    BY <2>1, <2>2, ChainTypes DEF MilestoneNames
  <2>4. DisputesOf(OneMore(disputes, {m})) = DisputesOf(disputes) + Amount[m]
    BY <1>1, <2>3, DisputeAdds
  <2>5. /\ draft'[r].deal.disputed = d.disputed + Amount[m]
        /\ draft'[r].deal.funded = d.funded
        /\ draft'[r].deal.released = d.released
    BY <1>1, <2>1, EffectsOnFunded, EffectsOnReleased DEF AfterDispute, DealRow
  <2>6. /\ d.disputed \in Nat /\ DisputesOf(disputes) \in Nat
        /\ d.disputed <= DisputesOf(disputes)
        /\ d.funded <= FundingOf(evidence)
        /\ d.released <= ReleasesOf(evidence)
    BY <1>1, DisputeTypes DEF DealRow, Covered
  <2>7. Covered(draft'[r].deal, evidence, OneMore(disputes, {m}))
    BY <2>3, <2>4, <2>5, <2>6 DEF Covered
  <2>8. evidence \cup draft'[r].items = evidence /\ IsFiniteSet(draft'[r].items)
    BY <2>1, FS_EmptySet
  <2> QED BY <2>1, <2>7, <2>8
<1>9. CASE ~(RecordFunding(r) \/ ReleaseMilestone(r) \/ OpenDispute(r))
  <2>1. /\ draft'[r].deal.funded = d.funded
        /\ draft'[r].deal.released = d.released
        /\ draft'[r].deal.disputed = d.disputed
    BY <1>1, <1>9, HandlerDrafts, EffectsOnFunded, EffectsOnReleased,
       EffectsOnDisputed
    DEF Drafted, Handle
  <2>2. Covered(draft'[r].deal, evidence, disputes)
    BY <1>1, <2>1 DEF Covered
  <2>3. LinkedItem(r) \/ draft'[r].items = {}
    BY HandlerDrafts DEF Handle
  <2>4. IsFiniteSet(draft'[r].items)
    <3>1. \A x : IsFiniteSet({x})
      BY FS_Singleton
    <3>2. IsFiniteSet({})
      BY FS_EmptySet
    <3>3. draft'[r].items = {} \/ \E x : draft'[r].items = {x}
      BY <2>3 DEF LinkedItem, LinkedWith
    <3> QED BY <3>1, <3>2, <3>3
  <2>5. draft'[r].items \in SUBSET EvidenceItem
    <3>1. TypeOK'
      BY NextTyped DEF Typed, Next
    <3> QED BY <3>1 DEF TypeOK, Draft
  <2> QED BY <1>3, <1>5, <2>2, <2>4, <2>5
<1> QED BY <1>6, <1>7, <1>8, <1>9

(* An invitation or a join adds an item and no money.                      *)
LEMMA InvitationsCovered ==
  ASSUME Typed, CoveredInv, NEW r \in Workers, Invite(r) \/ Join(r)
  PROVE  CoveredInv'
<1>1. PICK row \in InvitationRows(view[r].deal) : Appended(r, row)
  BY InvitationStep
<1>2. /\ UNCHANGED <<deal, evidence, disputes, view>>
      /\ draft'[r].deal = row
      /\ \A q \in Workers : q # r => draft'[q] = draft[q]
  BY <1>1 DEF Appended, committed
<1>3. PICK items, S : items = draft'[r].items /\ S = draft'[r].disputed
  OBVIOUS
<1>4. items \in SUBSET EvidenceItem /\ S \in SUBSET Milestones
  <2>1. Typed'
    BY InvitationTyped
  <2> QED BY <1>3, <2>1 DEF Typed, TypeOK, Draft
<1>5. IsFiniteSet(items)
  <2>1. \E x : items = {x}
    BY <1>1, <1>3 DEF Appended, LinkedWith
  <2> QED BY <2>1, FS_Singleton
<1>6. /\ view[r].deal \in DealRow
      /\ evidence \in SUBSET EvidenceItem /\ IsFiniteSet(evidence)
      /\ disputes \in [Milestones -> Nat]
      /\ Covered(view[r].deal, evidence, disputes)
  BY DEF Typed, TypeOK, View, CoveredInv
<1>7. row \in DealRow /\ Covered(row, evidence, disputes)
  BY <1>6, EffectsOfInvitations DEF Covered
<1>8. /\ evidence \cup items \in SUBSET EvidenceItem
      /\ IsFiniteSet(evidence \cup items)
      /\ evidence \in SUBSET (evidence \cup items)
  BY <1>4, <1>5, <1>6, FS_Union
<1>9. /\ OneMore(disputes, S) \in [Milestones -> Nat]
      /\ \A m \in Milestones : disputes[m] <= OneMore(disputes, S)[m]
  BY <1>6 DEF OneMore
<1>10. Covered(row, evidence \cup items, OneMore(disputes, S))
  BY <1>6, <1>7, <1>8, <1>9, MoreCovers
<1> QED BY <1>2, <1>3, <1>5, <1>10 DEF CoveredInv

(* A rollback takes what is not committed with it.                         *)
LEMMA EndCovered ==
  ASSUME Typed, CoveredInv, NEW r \in Workers, EndSession(r),
         UNCHANGED <<deal, evidence, disputes>>
  PROVE  CoveredInv'
<1>1. /\ evidence \in SUBSET EvidenceItem /\ IsFiniteSet(evidence)
      /\ disputes \in [Milestones -> Nat]
  BY DEF Typed, TypeOK, CoveredInv
<1>2. /\ view'[r].deal = NewDeal
      /\ draft'[r].deal = NewDeal
      /\ draft'[r].items = {}
      /\ draft'[r].disputed = {}
      /\ \A q \in Workers \ {r} : view'[q] = view[q] /\ draft'[q] = draft[q]
  BY DEF EndSession, Typed, TypeOK, NoView, NoDraft
<1>3. evidence \cup draft'[r].items = evidence
  BY <1>2
<1>4. OneMore(disputes, {}) \in [Milestones -> Nat]
  BY <1>1, DisputeTypes
<1>5. /\ Covered(NewDeal, evidence, disputes)
      /\ Covered(NewDeal, evidence, OneMore(disputes, {}))
  BY <1>1, <1>4, NewRowIsCovered
<1>6. IsFiniteSet({})
  BY FS_EmptySet
<1> QED BY <1>2, <1>3, <1>5, <1>6 DEF CoveredInv

(* The commit adds to the evidence and the disputes what covers its row.   *)
LEMMA CommitCovered ==
  ASSUME Typed, CoveredInv, NEW r \in Workers, Commit(r)
  PROVE  CoveredInv'
<1>1. /\ deal' = WrittenDeal(view[r].deal, draft[r].deal, deal)
      /\ evidence' = evidence \cup draft[r].items
      /\ disputes' = OneMore(disputes, draft[r].disputed)
      /\ EndSession(r)
  BY DEF Commit, OneMore
<1>2. PICK E, n, F, k : /\ E = evidence /\ n = disputes
                        /\ F = evidence' /\ k = disputes'
  OBVIOUS
<1>3. /\ \A q \in Workers : draft[q].items \in SUBSET EvidenceItem
      /\ \A q \in Workers : IsFiniteSet(draft[q].items)
      /\ \A q \in Workers : view[q].deal \in DealRow /\ draft[q].deal \in DealRow
      /\ deal \in DealRow
      /\ E \in SUBSET EvidenceItem /\ IsFiniteSet(E)
      /\ n \in [Milestones -> Nat]
  BY <1>2 DEF Typed, TypeOK, View, Draft, CoveredInv
<1>4. /\ F \in SUBSET EvidenceItem /\ IsFiniteSet(F)
      /\ E \in SUBSET F
      /\ k \in [Milestones -> Nat]
      /\ \A m \in Milestones : n[m] <= k[m]
  <2>1. F = E \cup draft[r].items /\ k = OneMore(n, draft[r].disputed)
    BY <1>1, <1>2
  <2>2. IsFiniteSet(E \cup draft[r].items)
    BY <1>3, FS_Union
  <2>3. k \in [Milestones -> Nat] /\ \A m \in Milestones : n[m] <= k[m]
    BY <1>3, <2>1 DEF OneMore
  <2>4. IsFiniteSet(F)
    BY <2>1, <2>2
  <2> QED BY <1>3, <2>1, <2>3, <2>4
<1>5. ASSUME NEW row \in DealRow, Covered(row, E, n)
      PROVE  Covered(row, F, k)
  BY <1>3, <1>4, <1>5, MoreCovers
<1>6. Covered(draft[r].deal, F, k)
  BY <1>1, <1>2 DEF CoveredInv
<1>7. Covered(deal', F, k)
  <2>1. Covered(deal, F, k)
    BY <1>2, <1>3, <1>5 DEF CoveredInv
  <2> QED BY <1>1, <1>6, <2>1 DEF WrittenDeal, Column, Covered
<1>8. /\ view'[r].deal = NewDeal
      /\ draft'[r].deal = NewDeal
      /\ draft'[r].items = {}
      /\ draft'[r].disputed = {}
      /\ \A q \in Workers \ {r} : view'[q] = view[q] /\ draft'[q] = draft[q]
  BY <1>1 DEF EndSession, Typed, TypeOK, NoView, NoDraft
<1>9. ASSUME NEW q \in Workers
      PROVE  /\ IsFiniteSet(draft'[q].items)
             /\ Covered(view'[q].deal, F, k)
             /\ Covered(draft'[q].deal, F \cup draft'[q].items,
                        OneMore(k, draft'[q].disputed))
  <2>1. CASE q = r
    <3>1. F \cup draft'[q].items = F /\ IsFiniteSet(draft'[q].items)
      BY <1>8, <2>1, FS_EmptySet
    <3>2. OneMore(k, {}) \in [Milestones -> Nat]
      BY <1>4, DisputeTypes
    <3>3. Covered(NewDeal, F, k) /\ Covered(NewDeal, F, OneMore(k, {}))
      BY <1>4, <3>2, NewRowIsCovered
    <3> QED BY <1>8, <2>1, <3>1, <3>3
  <2>2. CASE q # r
    <3>1. view'[q] = view[q] /\ draft'[q] = draft[q]
      BY <1>8, <2>2
    <3>2. Covered(view[q].deal, F, k)
      BY <1>2, <1>3, <1>5 DEF CoveredInv
    <3>3. PICK I, S, row : /\ I = draft[q].items /\ S = draft[q].disputed
                           /\ row = draft[q].deal
      OBVIOUS
    <3>4. /\ IsFiniteSet(I) /\ I \in SUBSET EvidenceItem /\ row \in DealRow
          /\ Covered(row, E \cup I, OneMore(n, S))
      BY <1>2, <1>3, <3>3 DEF CoveredInv
    <3>5. /\ F \cup I \in SUBSET EvidenceItem
          /\ IsFiniteSet(F \cup I)
          /\ E \cup I \in SUBSET (F \cup I)
      BY <1>4, <3>4, FS_Union
    <3>6. /\ OneMore(n, S) \in [Milestones -> Nat]
          /\ OneMore(k, S) \in [Milestones -> Nat]
          /\ \A m \in Milestones : OneMore(n, S)[m] <= OneMore(k, S)[m]
      BY <1>3, <1>4 DEF OneMore
    <3>7. Covered(row, F \cup I, OneMore(k, S))
      BY <3>4, <3>5, <3>6, MoreCovers
    <3> QED BY <3>1, <3>2, <3>3, <3>4, <3>7
  <2> QED BY <2>1, <2>2
<1> QED BY <1>2, <1>4, <1>7, <1>9 DEF CoveredInv

LEMMA NextCovered ==
  Typed /\ EvidenceInv /\ CoveredInv /\ [Next]_vars => CoveredInv'
<1> SUFFICES ASSUME Typed, EvidenceInv, CoveredInv, [Next]_vars
             PROVE  CoveredInv'
  OBVIOUS
<1>1. CASE UNCHANGED vars
  BY <1>1 DEF vars, committed, sessions, CoveredInv
<1>2. ASSUME NEW r \in Workers, Loads(r)
      PROVE  CoveredInv'
  <2>1. /\ UNCHANGED <<deal, evidence, disputes, draft>>
        /\ view'[r].deal \in {deal, view[r].deal, NewDeal}
        /\ \A q \in Workers : q # r => view'[q] = view[q]
    BY <1>2, LoadFrame DEF committed
  <2>2. Covered(NewDeal, evidence, disputes)
    BY NewRowIsCovered DEF Typed, TypeOK, CoveredInv
  <2> QED BY <2>1, <2>2 DEF CoveredInv
<1>3. ASSUME NEW r \in Workers, LoadDeal(r)
      PROVE  CoveredInv'
  <2>1. /\ UNCHANGED <<deal, evidence, disputes>>
        /\ view'[r].deal = deal
        /\ draft'[r].deal = deal
        /\ draft'[r].items = {}
        /\ draft'[r].disputed = {}
        /\ \A q \in Workers : q # r => /\ view'[q] = view[q]
                                       /\ draft'[q] = draft[q]
    BY <1>3, LoadDealStep DEF committed
  <2>2. OneMore(disputes, {}) = disputes
    BY DisputeRows DEF OneMore
  <2>3. evidence \cup draft'[r].items = evidence /\ IsFiniteSet({})
    BY <2>1, FS_EmptySet
  <2> QED BY <2>1, <2>2, <2>3 DEF CoveredInv
<1>4. ASSUME NEW r \in Workers, Handle(r)
      PROVE  CoveredInv'
  <2>1. /\ UNCHANGED <<deal, evidence, disputes, view>>
        /\ \A q \in Workers \ {r} : draft'[q] = draft[q]
    BY <1>4, HandlerFrame DEF committed
  <2>2. /\ IsFiniteSet(draft'[r].items)
        /\ Covered(draft'[r].deal, evidence \cup draft'[r].items,
                   OneMore(disputes, draft'[r].disputed))
    BY <1>4, HandlersCovered
  <2> QED BY <2>1, <2>2 DEF CoveredInv
<1>5. ASSUME NEW r \in Workers, Commit(r)
      PROVE  CoveredInv'
  BY <1>5, CommitCovered
<1>6. ASSUME NEW r \in Workers, Refuse(r) \/ Abort(r)
      PROVE  CoveredInv'
  <2>1. EndSession(r) /\ UNCHANGED <<deal, evidence, disputes>>
    BY <1>6 DEF Refuse, Abort, committed
  <2> QED BY <2>1, EndCovered
<1>7. ASSUME NEW r \in Workers, Invite(r) \/ Join(r)
      PROVE  CoveredInv'
  BY <1>7, InvitationsCovered
<1> QED BY <1>1, <1>2, <1>3, <1>4, <1>5, <1>6, <1>7 DEF Next, Loads

(* The deal never shows more money than its evidence and its disputes      *)
(* account for, whatever requests race, repeat, fail or crash: for every   *)
(* number of sessions, any events and any interleaving.                    *)
THEOREM TotalsStayCovered == Spec => []TotalsNotOverstated
<1>1. Init => Typed /\ EvidenceInv /\ CoveredInv
  BY InitTyped, InitEvidence, InitCovered
<1>2. Typed /\ EvidenceInv /\ CoveredInv /\ [Next]_vars =>
        (Typed /\ EvidenceInv /\ CoveredInv)'
  BY NextTyped, NextEvidence, NextCovered
<1>3. Typed /\ CoveredInv => TotalsNotOverstated
  <2> SUFFICES ASSUME Typed, CoveredInv PROVE TotalsNotOverstated
    OBVIOUS
  <2>1. evidence \in SUBSET EvidenceItem /\ IsFiniteSet(evidence)
    BY DEF Typed, TypeOK, CoveredInv
  <2>2. /\ deal.funded <= Recorded("DealFunded", LAMBDA e : e.credited)
        /\ deal.released <=
             Recorded("MilestoneReleased", LAMBDA e : Amount[e.milestone])
        /\ deal.disputed <= MilestonesDisputed
    BY <2>1, RecordedFunding, RecordedReleases, DisputedWorth
    DEF CoveredInv, Covered
  <2> QED BY <2>2 DEF TotalsNotOverstated
<1> QED BY <1>1, <1>2, <1>3, PTL DEF Spec

---------------------------------------------------------------------------
(* One request at a time: the columns are exact.                           *)
(*                                                                         *)
(* The one session holds no stale row and reports no stored event, so a    *)
(* commit adds to the column what it adds to the events or the rows.  A    *)
(* release is assigned to its milestone and added to the deal: the two     *)
(* agree because a milestone that is released has its event stored, and    *)
(* the contract pays no milestone twice.                                   *)

CreditedBy == [e \in Chain |-> Credited(e)]

ReleasedOf(rows) == [m \in Milestones |-> rows[m].released]

ConfirmedIn(E) == SumOver(CreditedBy, E)

ReleasedIn(rows) == SumOver(ReleasedOf(rows), Milestones)

(* A milestone is paid in full, by an event that is stored, or not at all. *)
PaidByEvent(E, rows) ==
  \A m \in Milestones :
    \/ rows[m].released = 0
    \/ rows[m].released = Amount[m] /\ HoldsFor(E, "MilestoneReleased", m)

Exact(row, E, rows, n) ==
  /\ row.funded = ConfirmedIn(E)
  /\ row.released = ReleasedIn(rows)
  /\ row.disputed = DisputesOf(n)
  /\ PaidByEvent(E, rows)

ExactInv == IsFiniteSet(events) /\ Exact(deal, events, milestone, disputes)

---------------------------------------------------------------------------
(* The property speaks of these sums.                                      *)
LEMMA FundingIsConfirmed ==
  ASSUME events \in SUBSET Chain, IsFiniteSet(events)
  PROVE  ConfirmedFunding = ConfirmedIn(events)
<1> DEFINE P(g) == g = [s \in SUBSET events |->
                          IF s = {} THEN 0
                          ELSE Credited(One(s)) + g[s \ {One(s)}]]
<1>1. ConfirmedFunding = (CHOOSE g : P(g))[events]
  BY DEF ConfirmedFunding, MapThenSumSet, MapThenFoldSet, One
<1>2. ASSUME NEW s \in SUBSET events, s # {}
      PROVE  CreditedBy[One(s)] = Credited(One(s))
  BY <1>2, OneIsElement DEF CreditedBy
<1>3. \A g : P(g) <=> Sums(g, CreditedBy, events)
  BY <1>2 DEF Sums
<1>4. \E g : P(g)
  BY <1>3, SumsExist
<1>5. Sums(CHOOSE g : P(g), CreditedBy, events)
  BY <1>3, <1>4
<1>6. events \in SUBSET events
  OBVIOUS
<1>7. (CHOOSE g : P(g))[events] = SumOver(CreditedBy, events)
  BY <1>5, <1>6, SumOfSubset
<1> QED BY <1>1, <1>7 DEF ConfirmedIn

LEMMA ReleasesAreTheirs == MilestonesReleased = ReleasedIn(milestone)
<1> DEFINE P(g) == g = [s \in SUBSET Milestones |->
                          IF s = {} THEN 0
                          ELSE milestone[One(s)].released + g[s \ {One(s)}]]
<1>1. MilestonesReleased = (CHOOSE g : P(g))[Milestones]
  BY DEF MilestonesReleased, MapThenSumSet, MapThenFoldSet, One
<1>2. ASSUME NEW s \in SUBSET Milestones, s # {}
      PROVE  ReleasedOf(milestone)[One(s)] = milestone[One(s)].released
  BY <1>2, OneIsElement DEF ReleasedOf
<1>3. \A g : P(g) <=> Sums(g, ReleasedOf(milestone), Milestones)
  BY <1>2 DEF Sums
<1>4. \E g : P(g)
  BY <1>3, AmountType, SumsExist
<1>5. Sums(CHOOSE g : P(g), ReleasedOf(milestone), Milestones)
  BY <1>3, <1>4
<1>6. Milestones \in SUBSET Milestones
  OBVIOUS
<1>7. (CHOOSE g : P(g))[Milestones] = SumOver(ReleasedOf(milestone), Milestones)
  BY <1>5, <1>6, AmountType, SumOfSubset
<1> QED BY <1>1, <1>7 DEF ReleasedIn

---------------------------------------------------------------------------
(* One event more.                                                         *)
LEMMA EventAdds ==
  ASSUME NEW E \in SUBSET Chain, IsFiniteSet(E), NEW e \in Chain, e \notin E
  PROVE  /\ IsFiniteSet(E \cup {e})
         /\ e.name = "DealFunded" =>
              ConfirmedIn(E \cup {e}) = ConfirmedIn(E) + e.credited
         /\ e.name # "DealFunded" => ConfirmedIn(E \cup {e}) = ConfirmedIn(E)
<1>1. \A x \in Chain : CreditedBy[x] = Credited(x) /\ Credited(x) \in Nat
  BY ChainTypes DEF CreditedBy, Credited
<1>2. \A x \in E \cup {e} : CreditedBy[x] \in Nat
  BY <1>1
<1>3. /\ IsFiniteSet(E \cup {e})
      /\ SumOver(CreditedBy, E \cup {e}) = CreditedBy[e] + SumOver(CreditedBy, E)
      /\ SumOver(CreditedBy, E) \in Nat
  BY <1>2, SumAdd
<1>4. /\ e.name = "DealFunded" => CreditedBy[e] = e.credited
      /\ e.name # "DealFunded" => CreditedBy[e] = 0
      /\ e.credited \in Nat
  BY <1>1, ChainTypes DEF Credited
<1> QED BY <1>3, <1>4 DEF ConfirmedIn

(* Another status of a milestone changes no release; a first release does. *)
LEMMA MarkAdds ==
  ASSUME NEW rows \in [Milestones -> MilestoneRow],
         NEW m \in Milestones, NEW released \in Nat, NEW marked,
         marked[m].released = released,
         \A o \in Milestones \ {m} : marked[o].released = rows[o].released
  PROVE  /\ released = rows[m].released => ReleasedIn(marked) = ReleasedIn(rows)
         /\ rows[m].released = 0 => ReleasedIn(marked) = ReleasedIn(rows) + released
<1>1. PICK f, e : f = ReleasedOf(rows) /\ e = ReleasedOf(marked)
  OBVIOUS
<1>2. \A o \in Milestones : rows[o].released \in Nat
  BY DEF MilestoneRow
<1>3. /\ \A o \in Milestones : f[o] \in Nat /\ e[o] \in Nat
      /\ \A o \in Milestones \ {m} : e[o] = f[o]
      /\ e[m] = released /\ f[m] = rows[m].released
  BY <1>1, <1>2 DEF ReleasedOf
<1>4. PICK rest \in Nat : /\ SumOver(f, Milestones) = f[m] + rest
                         /\ SumOver(e, Milestones) = e[m] + rest
  <2>1. /\ \A o \in Milestones : f[o] \in Nat /\ e[o] \in Nat
        /\ \A o \in Milestones \ {m} : e[o] = f[o]
        /\ IsFiniteSet(Milestones)
    BY <1>3, AmountType
  <2>2. /\ SumOver(f, Milestones) = f[m] + SumOver(f, Milestones \ {m})
        /\ SumOver(e, Milestones) = e[m] + SumOver(f, Milestones \ {m})
        /\ SumOver(f, Milestones \ {m}) \in Nat
    BY <2>1, SumUpdate
  <2> QED BY <2>2
<1>5. /\ ReleasedIn(rows) = rows[m].released + rest
      /\ ReleasedIn(marked) = released + rest
  BY <1>1, <1>3, <1>4 DEF ReleasedIn
<1> QED BY <1>2, <1>5

(* Events that stay keep what they paid.                                   *)
LEMMA PaidStaysPaid ==
  ASSUME NEW E, NEW F, E \subseteq F, NEW rows, PaidByEvent(E, rows)
  PROVE  PaidByEvent(F, rows)
BY DEF PaidByEvent, HoldsFor

(* A deal that has released its total has released every milestone.        *)
LEMMA AllReleased ==
  ASSUME NEW E, NEW rows \in [Milestones -> MilestoneRow], PaidByEvent(E, rows),
         ReleasedIn(rows) = Total
  PROVE  \A m \in Milestones : HoldsFor(E, "MilestoneReleased", m)
<1> SUFFICES ASSUME NEW m \in Milestones, ~HoldsFor(E, "MilestoneReleased", m)
             PROVE  FALSE
  OBVIOUS
<1>1. /\ \A o \in Milestones : Amount[o] > 0
      /\ MapThenSumSet(LAMBDA o : Amount[o], Milestones) = Total
  BY DealAssumption DEF ValidAllocations
<1>2. SumOver(Amount, Milestones) = Total
  BY <1>1, SumOfFunction
<1>3. PICK f : f = ReleasedOf(rows)
  OBVIOUS
<1>4. \A o \in Milestones : /\ f[o] \in Nat /\ Amount[o] \in Nat
                            /\ f[o] <= Amount[o]
  <2>1. \A o \in Milestones : f[o] = rows[o].released /\ rows[o].released \in Nat
    BY <1>3 DEF ReleasedOf, MilestoneRow
  <2> QED BY <2>1, AmountType DEF PaidByEvent
<1>5. f[m] = 0
  BY <1>3 DEF ReleasedOf, PaidByEvent
<1>6. IsFiniteSet(Milestones) /\ IsFiniteSet(Milestones \ {m})
  BY AmountType, FS_RemoveElement
<1>7. PICK a, b \in Nat : /\ a = SumOver(f, Milestones \ {m})
                          /\ SumOver(f, Milestones) = f[m] + a
                          /\ b = SumOver(Amount, Milestones \ {m})
                          /\ SumOver(Amount, Milestones) = Amount[m] + b
  <2>1. /\ SumOver(f, Milestones) = f[m] + SumOver(f, Milestones \ {m})
        /\ SumOver(f, Milestones \ {m}) \in Nat
    BY <1>4, <1>6, SumRemove
  <2>2. /\ SumOver(Amount, Milestones) =
             Amount[m] + SumOver(Amount, Milestones \ {m})
        /\ SumOver(Amount, Milestones \ {m}) \in Nat
    BY <1>4, <1>6, SumRemove
  <2> QED BY <2>1, <2>2
<1>8. a <= b
  <2>1. \A o \in Milestones \ {m} : /\ f[o] \in Nat /\ Amount[o] \in Nat
                                    /\ f[o] <= Amount[o]
    BY <1>4
  <2> QED BY <1>6, <1>7, <2>1, SumAtMost
<1>9. SumOver(f, Milestones) = Total
  BY <1>3 DEF ReleasedIn
<1>10. Amount[m] > 0 /\ Amount[m] \in Nat
  BY <1>1, AmountType
<1> QED BY <1>2, <1>5, <1>7, <1>8, <1>9, <1>10

---------------------------------------------------------------------------
LEMMA InitExact == Init => ExactInv
<1> SUFFICES ASSUME Init PROVE ExactInv
  OBVIOUS
<1>1. IsFiniteSet({})
  BY FS_EmptySet
<1>2. ConfirmedIn({}) = 0
  BY <1>1, SumUnfolds DEF ConfirmedIn
<1>3. \A m \in Milestones : /\ ReleasedOf(NewMilestones)[m] = 0
                            /\ Worths([o \in Milestones |-> 0])[m] = 0
  BY AmountType DEF ReleasedOf, NewMilestones, Worths
<1>4. /\ ReleasedIn(NewMilestones) = 0
      /\ DisputesOf([o \in Milestones |-> 0]) = 0
  BY <1>3, AmountType, SumOfZeros DEF ReleasedIn, DisputesOf
<1>5. PaidByEvent({}, NewMilestones)
  BY DEF PaidByEvent, NewMilestones
<1> QED BY <1>1, <1>2, <1>4, <1>5 DEF Init, NewDeal, ExactInv, Exact

(* What each handler commits is exact, as what it was computed from.       *)
LEMMA CommitExact ==
  ASSUME Typed, NEW r, Workers = {r}, ReleasedOnce, SerialInv(r), ExactInv,
         Commit(r)
  PROVE  ExactInv'
<1> DEFINE e == job[r]
           m == e.milestone
<1>1. /\ deal' = draft[r].deal
      /\ Current(r) => milestone' = draft[r].milestone
      /\ draft[r].milestone = view[r].milestone => milestone' = milestone
      /\ disputes' = OneMore(disputes, draft[r].disputed)
      /\ events' = events \cup ({e} \cap Chain)
  BY CommitsDraft DEF OneMore
<1>2. /\ deal \in DealRow
      /\ milestone \in [Milestones -> MilestoneRow]
      /\ disputes \in [Milestones -> Nat]
      /\ events \in SUBSET Chain /\ IsFiniteSet(events)
      /\ Exact(deal, events, milestone, disputes)
  BY DEF Typed, TypeOK, ExactInv
<1>3. OneMore(disputes, {}) = disputes
  BY DisputeRows DEF OneMore
<1>4. CASE e \in Chain /\ ReportsFlushed(r) /\ Current(r)
  <2> USE <1>4
  <2>1. e \in Chain /\ e \notin events /\ events' = events \cup {e}
    BY <1>1 DEF Commit, SerialInv
  <2>2. /\ IsFiniteSet(events')
        /\ e.name = "DealFunded" =>
             ConfirmedIn(events') = ConfirmedIn(events) + e.credited
        /\ e.name # "DealFunded" => ConfirmedIn(events') = ConfirmedIn(events)
    <3>1. /\ IsFiniteSet(events \cup {e})
          /\ e.name = "DealFunded" =>
               ConfirmedIn(events \cup {e}) = ConfirmedIn(events) + e.credited
          /\ e.name # "DealFunded" =>
               ConfirmedIn(events \cup {e}) = ConfirmedIn(events)
      BY <1>2, <2>1, EventAdds
    <3>2. PICK F : F = events \cup {e}
      OBVIOUS
    <3>3. events' = F
      BY <2>1, <3>2
    <3> QED BY <3>1, <3>2, <3>3
  <2>3. PaidByEvent(events', milestone)
    BY <1>2, <2>1, PaidStaysPaid DEF Exact
  <2>4. e.name \in MilestoneNames => m \in Milestones /\ Amount[m] \in Nat
    BY <2>1, ChainTypes
  <2>5. ASSUME NEW status, m \in Milestones,
               milestone' = MarkedNow(m, status, milestone[m].released)
        PROVE  /\ ReleasedIn(milestone') = ReleasedIn(milestone)
               /\ PaidByEvent(events', milestone')
    <3>1. milestone[m].released \in Nat
      BY <1>2, <2>5 DEF MilestoneRow
    <3>2. ReleasedIn(milestone') = ReleasedIn(milestone)
      <4>1. /\ milestone'[m].released = milestone[m].released
            /\ \A o \in Milestones \ {m} :
                 milestone'[o].released = milestone[o].released
        BY <1>2, <2>5 DEF MarkedNow
      <4> QED BY <1>2, <2>5, <3>1, <4>1, MarkAdds
    <3>3. \A o \in Milestones : milestone'[o].released = milestone[o].released
      BY <1>2, <2>5 DEF MarkedNow
    <3> QED BY <2>3, <3>2, <3>3 DEF PaidByEvent
  <2>6. CASE Registers(r)
    <3>1. /\ deal' = AfterRegister(deal) /\ milestone' = milestone
          /\ disputes' = disputes /\ e.name # "DealFunded"
      BY <1>1, <1>3, <2>6 DEF Registers, Flushed
    <3> QED BY <1>2, <2>2, <2>3, <3>1, EffectsOnFunded, EffectsOnReleased,
               EffectsOnDisputed DEF ExactInv, Exact
  <2>7. CASE Accepts(r)
    <3>1. PICK everyone : deal' = AfterAccept(deal, everyone)
      BY <1>1, <2>7 DEF Accepts, Flushed
    <3>2. /\ milestone' = milestone
          /\ disputes' = disputes /\ e.name # "DealFunded"
      BY <1>1, <1>3, <2>7 DEF Accepts, Flushed
    <3>3. /\ deal'.funded = deal.funded /\ deal'.released = deal.released
          /\ deal'.disputed = deal.disputed
      BY <1>2, <3>1, EffectsOnFunded, EffectsOnReleased, EffectsOnDisputed
    <3> QED BY <1>2, <2>2, <2>3, <3>2, <3>3 DEF ExactInv, Exact
  <2>8. CASE Funds(r)
    <3>1. /\ deal' = AfterFunding(deal, Total, Bps, e.credited)
          /\ milestone' = milestone
          /\ disputes' = disputes /\ e.name = "DealFunded"
      BY <1>1, <1>3, <2>8 DEF Funds, Flushed
    <3>2. /\ deal'.funded = deal.funded + e.credited
          /\ deal'.released = deal.released
          /\ deal'.disputed = deal.disputed
      BY <1>2, <3>1, EffectsOnFunded, EffectsOnReleased, EffectsOnDisputed
    <3> QED BY <1>2, <2>2, <2>3, <3>1, <3>2 DEF ExactInv, Exact
  <2>9. CASE Submits(r)
    <3>1. /\ deal' = AfterSubmit(deal) /\ disputes' = disputes
          /\ milestone' = MarkedNow(m, "SUBMITTED", milestone[m].released)
          /\ e.name = "MilestoneSubmitted"
      BY <1>1, <1>3, <2>9 DEF Submits, Flushed
    <3>2. /\ ReleasedIn(milestone') = ReleasedIn(milestone)
          /\ PaidByEvent(events', milestone')
      BY <2>4, <2>5, <3>1 DEF MilestoneNames
    <3> QED BY <1>2, <2>2, <3>1, <3>2, EffectsOnFunded, EffectsOnReleased,
               EffectsOnDisputed DEF ExactInv, Exact
  <2>10. CASE Approves(r)
    <3>1. /\ deal' = AfterApprove(deal) /\ disputes' = disputes
          /\ milestone' = MarkedNow(m, "APPROVED", milestone[m].released)
          /\ e.name = "MilestoneApproved"
      BY <1>1, <1>3, <2>10 DEF Approves, Flushed
    <3>2. /\ ReleasedIn(milestone') = ReleasedIn(milestone)
          /\ PaidByEvent(events', milestone')
      BY <2>4, <2>5, <3>1 DEF MilestoneNames
    <3> QED BY <1>2, <2>2, <3>1, <3>2, EffectsOnFunded, EffectsOnReleased,
               EffectsOnDisputed DEF ExactInv, Exact
  <2>11. CASE Releases(r)
    <3>1. /\ deal' = AfterRelease(deal, Total, Amount[m])
          /\ disputes' = disputes
          /\ milestone' = MarkedNow(m, "RELEASED", Amount[m])
          /\ e.name = "MilestoneReleased"
      BY <1>1, <1>3, <2>11 DEF Releases, Flushed
    <3>2. m \in Milestones /\ Amount[m] \in Nat
      BY <2>4, <3>1 DEF MilestoneNames
    <3>3. milestone[m].released = 0
      <4>1. ~HoldsFor(events, "MilestoneReleased", m)
        BY <1>2, <2>1, <3>1 DEF HoldsFor, ReleasedOnce
      <4> QED BY <1>2, <3>2, <4>1 DEF Exact, PaidByEvent
    <3>4. ReleasedIn(milestone') = ReleasedIn(milestone) + Amount[m]
      <4>1. /\ milestone'[m].released = Amount[m]
            /\ \A o \in Milestones \ {m} :
                 milestone'[o].released = milestone[o].released
        BY <1>2, <3>1, <3>2 DEF MarkedNow
      <4> QED BY <1>2, <3>2, <3>3, <4>1, MarkAdds
    <3>5. PaidByEvent(events', milestone')
      <4>1. HoldsFor(events', "MilestoneReleased", m)
        BY <2>1, <3>1 DEF HoldsFor
      <4>2. /\ milestone'[m].released = Amount[m]
            /\ \A o \in Milestones \ {m} :
                 milestone'[o].released = milestone[o].released
        BY <1>2, <3>1, <3>2 DEF MarkedNow
      <4> QED BY <2>3, <4>1, <4>2 DEF PaidByEvent
    <3>6. /\ deal'.released = deal.released + Amount[m]
          /\ deal'.funded = deal.funded /\ deal'.disputed = deal.disputed
      BY <1>2, <3>1, EffectsOnFunded, EffectsOnDisputed DEF AfterRelease, DealRow
    <3> QED BY <1>2, <2>2, <3>1, <3>4, <3>5, <3>6 DEF ExactInv, Exact
  <2>12. CASE Disputes(r)
    <3>1. /\ deal' = AfterDispute(deal, Amount[m])
          /\ disputes' = OneMore(disputes, {m})
          /\ milestone' = MarkedNow(m, "DISPUTED", milestone[m].released)
          /\ e.name = "DisputeOpened"
      BY <1>1, <2>12 DEF Disputes, Flushed
    <3>2. m \in Milestones
      BY <2>4, <3>1 DEF MilestoneNames
    <3>3. DisputesOf(disputes') = DisputesOf(disputes) + Amount[m]
      <4>1. DisputesOf(OneMore(disputes, {m})) = DisputesOf(disputes) + Amount[m]
        BY <1>2, <3>2, DisputeAdds
      <4> QED BY <3>1, <4>1
    <3>4. /\ ReleasedIn(milestone') = ReleasedIn(milestone)
          /\ PaidByEvent(events', milestone')
      BY <2>5, <3>1, <3>2
    <3>5. /\ deal'.disputed = deal.disputed + Amount[m]
          /\ deal'.funded = deal.funded /\ deal'.released = deal.released
      BY <1>2, <3>1, EffectsOnFunded, EffectsOnReleased DEF AfterDispute, DealRow
    <3> QED BY <1>2, <2>2, <3>1, <3>3, <3>4, <3>5 DEF ExactInv, Exact
  <2> QED BY <2>6, <2>7, <2>8, <2>9, <2>10, <2>11, <2>12
          DEF ReportsFlushed
<1>5. CASE Moves(r) /\ Current(r)
  <2>1. /\ deal' = AfterTransition(deal, e.target) /\ milestone' = milestone
        /\ disputes' = disputes
    BY <1>1, <1>3, <1>5 DEF Moves, Flushed
  <2>2. events' = events
    BY <1>1, <1>5, ChainTypes DEF Moves
  <2> QED BY <1>2, <2>1, <2>2, EffectsOnFunded, EffectsOnReleased,
             EffectsOnDisputed DEF ExactInv, Exact
<1>6. CASE Invites(r) \/ Joins(r)
  <2>1. e \in InvitationJob /\ Beside(r)
    BY <1>6 DEF Invites, Joins
  <2>2. /\ milestone' = milestone
        /\ disputes' = disputes
        /\ events' = events
    BY <1>1, <1>3, <2>1, ChainTypes DEF Beside
  <2>3. deal' \in InvitationRows(deal)
    BY <1>1, <1>6 DEF Invites, Joins, InvitationRows
  <2> QED BY <1>2, <2>2, <2>3, EffectsOfInvitations DEF ExactInv, Exact
<1> QED BY <1>4, <1>5, <1>6 DEF Commit, SerialInv, FlushedStep


LEMMA SerialExact ==
  ASSUME Typed, NEW r, Workers = {r}, ReleasedOnce, SerialInv(r), ExactInv,
         [Next]_vars
  PROVE  ExactInv'
<1>1. CASE Commit(r)
  BY <1>1, CommitExact
<1>2. ASSUME UNCHANGED <<deal, milestone, disputes, events>>
      PROVE  ExactInv'
  BY <1>2 DEF ExactInv
<1>3. CASE Handle(r)
  BY <1>2, <1>3, HandlerFrame DEF committed
<1>4. CASE UNCHANGED vars \/ Refuse(r) \/ Abort(r)
  BY <1>2, <1>4 DEF vars, committed, Refuse, Abort
<1>5. CASE Loads(r) \/ LoadDeal(r)
  BY <1>2, <1>5, LoadFrame, LoadDealStep DEF committed
<1>6. CASE Invite(r) \/ Join(r)
  BY <1>2, <1>6, InvitationStep DEF Appended, committed
<1> QED BY <1>1, <1>3, <1>4, <1>5, <1>6 DEF Next, Loads

(* Requests that run one after the other, each event reported once and no  *)
(* milestone released twice on chain: the columns of the deal are exactly  *)
(* what its events, milestones and disputes add up to, and a deal that has *)
(* released its total has the release of every milestone on record.        *)
THEOREM SerialTotalsAreExact ==
  ASSUME NEW r, Workers = {r}, Retries = FALSE, ReleasedOnce
  PROVE  Spec => []TotalsExact
<1>1. Init => Typed /\ IdleInv /\ EvidenceInv /\ SerialInv(r) /\ ExactInv
  BY InitTyped, InitEvidence, InitSerial, InitExact DEF Init, IdleInv
<1>2. Typed /\ IdleInv /\ EvidenceInv /\ SerialInv(r) /\ ExactInv /\ [Next]_vars =>
        (Typed /\ IdleInv /\ EvidenceInv /\ SerialInv(r) /\ ExactInv)'
  BY NextTyped, NextIdle, NextEvidence, SerialStep, SerialExact
<1>3. Typed /\ ExactInv => TotalsExact
  <2> SUFFICES ASSUME Typed, ExactInv PROVE TotalsExact
    OBVIOUS
  <2>1. /\ deal.funded = ConfirmedFunding
        /\ deal.released = MilestonesReleased
        /\ deal.disputed = MilestonesDisputed
    BY FundingIsConfirmed, ReleasesAreTheirs, DisputedWorth
    DEF Typed, TypeOK, ExactInv, Exact
  <2>2. deal.released = Total =>
          \A m \in Milestones : HoldsFor(events, "MilestoneReleased", m)
    BY AllReleased DEF Typed, TypeOK, ExactInv, Exact
  <2> QED BY <2>1, <2>2 DEF TotalsExact
<1> QED BY <1>1, <1>2, <1>3, PTL DEF Spec
===========================================================================
