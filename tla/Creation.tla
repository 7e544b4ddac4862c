------------------------------ MODULE Creation ------------------------------
(***************************************************************************)
(* What users create: deals, by create_deal of api/deals.py under an       *)
(* idempotency key, and organisations, by create_organisation of           *)
(* api/workspace.py under a slug.  Both look the key up and insert what    *)
(* they did not find; the slug has a unique constraint, the key has none.  *)
(*                                                                         *)
(*   idle     -- Begin -->    keyed      SELECT by the key                 *)
(*   keyed    -- Insert -->   inserted   flush of the deal with its party  *)
(*                                       and milestones, or organisation   *)
(*   inserted -- Describe --> complete   flush of the rows that name it    *)
(*   complete -- Commit -->   idle                                         *)
(*                                                                         *)
(* An id is the number of the request that made the row, for its UUID.     *)
(***************************************************************************)
EXTENDS DealRules, Sequences

CONSTANTS
  Workers,      \* request slots
  Users,        \* who creates
  Linked,       \* the wallets linked to each; no code unlinks one
  Keys,         \* idempotency keys of clients
  Offers,       \* the deals they ask for, as the schema admits them
  Slugs,        \* slugs of organisations
  BigInt,       \* the largest number of a BIGINT column
  MaxRequests,  \* bound: requests that begin
  None

ASSUME CreationAssumption ==
  /\ BigInt \in Nat
  /\ MaxRequests \in Nat
  /\ None \notin Nat \cup Users \cup Keys \cup Offers \cup Slugs
  /\ \A o \in Offers :
       /\ o.total \in Nat \ {0}
       /\ o.bps \in 1..10000
       /\ o.amounts \in Seq(Nat \ {0})
       /\ Len(o.amounts) \in 1..50

Tables ==
  {"deals", "parties", "milestones", "agreements", "outbox", "evidence",
   "organisations", "members"}

NoRows == [t \in Tables |-> {}]

VARIABLES
  db,       \* the committed rows of each table
  pc, job,  \* how far each database session is, and with what
  found,    \* the deal or organisation its SELECT found, or None
  draft,    \* the rows it has flushed
  answers,  \* the deals clients were given, and at which request count
  requests  \* requests begun so far

vars == <<db, pc, job, found, draft, answers, requests>>

Init ==
  /\ db = NoRows
  /\ pc = [r \in Workers |-> "idle"]
  /\ job = [r \in Workers |-> None]
  /\ found = [r \in Workers |-> None]
  /\ draft = [r \in Workers |-> NoRows]
  /\ answers = {}
  /\ requests = 0

---------------------------------------------------------------------------
(* Look-ups                                                                *)

DealsUnder(k) == {o.deal : o \in {e \in db["outbox"] : e.key = k}}

OrganisationsUnder(s) ==
  {o.id : o \in {e \in db["organisations"] : e.slug = s}}

(* The SELECT's first row: nothing says which of several.                  *)
FirstOf(ids) == IF ids = {} THEN {None} ELSE ids

Begin(r, kind, user, key, offer, ids) ==
  /\ pc[r] = "idle"
  /\ requests < MaxRequests
  /\ requests' = requests + 1
  /\ pc' = [pc EXCEPT ![r] = "keyed"]
  /\ job' = [job EXCEPT ![r] = [kind |-> kind, id |-> requests, user |-> user,
                                key |-> key, offer |-> offer]]
  /\ \E id \in FirstOf(ids) : found' = [found EXCEPT ![r] = id]
  /\ UNCHANGED <<db, draft, answers>>

(* MUTANT of BeginDeal: deals are looked up by the offer, not by the key.  *)
BeginDealByTitle(r) ==
  \E u \in Users, k \in Keys, o \in Offers :
    Begin(r, "Deal", u, k, o, {d.id : d \in {e \in db["deals"] : e.offer = o}})

BeginDeal(r) ==
  \E u \in Users, k \in Keys, o \in Offers :
    Begin(r, "Deal", u, k, o, DealsUnder(k))

BeginOrganisation(r) ==
  \E u \in Users, s \in Slugs :
    Begin(r, "Organisation", u, s, None, OrganisationsUnder(s))

---------------------------------------------------------------------------
(* create_deal                                                             *)

At(r, phase, kind) == pc[r] = phase /\ job[r].kind = kind

(* MUTANT of EndSession: the transaction is left open.                     *)
EndSessionOpen(r) ==
  /\ pc' = [pc EXCEPT ![r] = "idle"]
  /\ job' = [job EXCEPT ![r] = None]
  /\ found' = [found EXCEPT ![r] = None]
  /\ UNCHANGED <<draft, requests>>

EndSession(r) ==
  /\ pc' = [pc EXCEPT ![r] = "idle"]
  /\ job' = [job EXCEPT ![r] = None]
  /\ found' = [found EXCEPT ![r] = None]
  /\ draft' = [draft EXCEPT ![r] = NoRows]
  /\ UNCHANGED requests

Answered(r, deal) ==
  answers' = answers \cup {[key |-> job[r].key, deal |-> deal, at |-> requests]}

(* "assert deal is not None": the SELECT by id finds the deal.             *)
AnswerExisting(r) ==
  /\ At(r, "keyed", "Deal")
  /\ found[r] # None
  /\ \E d \in db["deals"] : d.id = found[r]
  /\ Answered(r, found[r])
  /\ EndSession(r)
  /\ UNCHANGED db

(* MUTANT of Acceptable: the wallet may be anybody's.                      *)
AcceptableWallet(u, o) ==
  /\ ValidAllocations(o.total, DOMAIN o.amounts, o.amounts)
  /\ o.total <= BigInt

Acceptable(u, o) ==
  /\ ValidAllocations(o.total, DOMAIN o.amounts, o.amounts)
  /\ o.wallet # None => o.wallet \in Linked[u]
  /\ o.total <= BigInt

Flush(r, to, rows) ==
  /\ pc' = [pc EXCEPT ![r] = to]
  /\ draft' = [draft EXCEPT ![r] = rows]
  /\ UNCHANGED <<job, found, answers, requests>>

(* MUTANT of DealRows: the creator gets the role of an organisation's.     *)
DealRowsOwner(d, user) ==
  [NoRows EXCEPT
     !["deals"] = {[id |-> d.id, creator |-> user, offer |-> d.offer,
                    status |-> "DRAFT", version |-> 1]},
     !["parties"] = {[deal |-> d.id, user |-> user, role |-> "OWNER",
                      wallet |-> d.offer.wallet]}]

DealRows(d, user) ==
  [NoRows EXCEPT
     !["deals"] = {[id |-> d.id, creator |-> user, offer |-> d.offer,
                    status |-> "DRAFT", version |-> 1]},
     !["parties"] = {[deal |-> d.id, user |-> user, role |-> "BUYER",
                      wallet |-> d.offer.wallet]},
     !["milestones"] = {[deal |-> d.id, position |-> i,
                         amount |-> d.offer.amounts[i]] :
                          i \in DOMAIN d.offer.amounts}]

InsertDeal(r) ==
  /\ At(r, "keyed", "Deal")
  /\ found[r] = None
  /\ Acceptable(job[r].user, job[r].offer)
  /\ Flush(r, "inserted", DealRows(job[r], job[r].user))
  /\ UNCHANGED db

FirstItem(id) == [deal |-> id, type |-> "DEAL_CREATED", previous |-> None]

Described(rows, j) ==
  [rows EXCEPT !["agreements"] = {[deal |-> j.id, version |-> 1]},
               !["outbox"]     = {[deal |-> j.id, key |-> j.key]},
               !["evidence"]   = {FirstItem(j.id)}]

(* MUTANT of DescribeDeal: what names the deal is committed before it.     *)
DescribeDealFirst(r) ==
  /\ At(r, "inserted", "Deal")
  /\ db' = [db EXCEPT !["outbox"] =
              @ \cup {[deal |-> job[r].id, key |-> job[r].key]}]
  /\ Flush(r, "complete", Described(draft[r], job[r]))

(* append_evidence's SELECT flushes the agreement and the outbox row; it   *)
(* finds no earlier item of a deal that nobody else can see.               *)
DescribeDeal(r) ==
  /\ At(r, "inserted", "Deal")
  /\ Flush(r, "complete", Described(draft[r], job[r]))
  /\ UNCHANGED db

---------------------------------------------------------------------------
(* create_organisation                                                     *)

SlugFree(r) ==
  \A q \in Workers \ {r} :
    \A o \in draft[q]["organisations"] : o.slug # job[r].key

(* MUTANT of SlugInsertable: organisations has no constraint.              *)
SlugUnconstrained(r) == TRUE

(* The unique constraint, once the rows it waited for are committed.       *)
SlugInsertable(r) == OrganisationsUnder(job[r].key) = {}

InsertOrganisation(r) ==
  /\ At(r, "keyed", "Organisation")
  /\ found[r] = None
  /\ SlugFree(r)
  /\ SlugInsertable(r)
  /\ Flush(r, "inserted",
       [NoRows EXCEPT !["organisations"] =
          {[id |-> job[r].id, slug |-> job[r].key, owner |-> job[r].user]}])
  /\ UNCHANGED db

AddOwner(r) ==
  /\ At(r, "inserted", "Organisation")
  /\ Flush(r, "complete",
       [draft[r] EXCEPT !["members"] =
          {[organisation |-> job[r].id, user |-> job[r].user,
            role |-> "OWNER"]}])
  /\ UNCHANGED db

---------------------------------------------------------------------------
(* The end of a request                                                    *)

Commit(r) ==
  /\ pc[r] = "complete"
  /\ db' = [t \in Tables |-> db[t] \cup draft[r][t]]
  /\ IF job[r].kind = "Deal" THEN Answered(r, job[r].id) ELSE UNCHANGED answers
  /\ EndSession(r)

(* 409: the slug is taken, or the wallet is not linked; 422: the amounts   *)
(* do not add up; 500: a number too large, or the unique constraint.       *)
Refuse(r) ==
  /\ \/ At(r, "keyed", "Organisation") /\ (found[r] # None \/ ~SlugInsertable(r))
     \/ /\ At(r, "keyed", "Deal")
        /\ found[r] = None
        /\ ~Acceptable(job[r].user, job[r].offer)
  /\ EndSession(r)
  /\ UNCHANGED <<db, answers>>

(* The process or the connection is lost.                                  *)
Abort(r) ==
  /\ pc[r] # "idle"
  /\ EndSession(r)
  /\ UNCHANGED <<db, answers>>

Work(r) ==
  \/ AnswerExisting(r) \/ InsertDeal(r) \/ DescribeDeal(r)
  \/ InsertOrganisation(r) \/ AddOwner(r) \/ Commit(r) \/ Refuse(r)

Next ==
  \E r \in Workers : BeginDeal(r) \/ BeginOrganisation(r) \/ Work(r) \/ Abort(r)

Spec == Init /\ [][Next]_vars

(* The event loop runs every request; PostgreSQL lets the INSERTs of one   *)
(* slug go on in the order of their arrival.                               *)
FairSpec == Spec /\ \A r \in Workers : SF_vars(Work(r))
---------------------------------------------------------------------------
(* Properties                                                              *)

Deal  == [id : Nat, creator : Users, offer : Offers, status : DealStatus,
          version : Nat]
Party == [deal : Nat, user : Users, role : DealRole,
          wallet : {None} \cup UNION {Linked[u] : u \in Users}]

Database ==
  [deals : SUBSET Deal, parties : SUBSET Party,
   milestones : SUBSET [deal : Nat, position : 1..50, amount : 1..BigInt],
   agreements : SUBSET [deal : Nat, version : Nat],
   outbox : SUBSET [deal : Nat, key : Keys],
   evidence : SUBSET [deal : Nat, type : {"DEAL_CREATED"}, previous : {None}],
   organisations : SUBSET [id : Nat, slug : Slugs, owner : Users],
   members : SUBSET [organisation : Nat, user : Users, role : {"OWNER"}]]

Job ==
  [kind : {"Deal"}, id : Nat, user : Users, key : Keys, offer : Offers]
    \cup [kind : {"Organisation"}, id : Nat, user : Users, key : Slugs,
          offer : {None}]

(* Every variable keeps its type; a session at work has a job.             *)
TypeOK ==
  /\ db \in Database
  /\ pc \in [Workers -> {"idle", "keyed", "inserted", "complete"}]
  /\ job \in [Workers -> Job \cup {None}]
  /\ \A r \in Workers : pc[r] # "idle" => job[r] \in Job
  /\ found \in [Workers -> Nat \cup {None}]
  /\ draft \in [Workers -> Database]
  /\ answers \subseteq [key : Keys, deal : Nat, at : Nat]
  /\ requests \in Nat

RowsOf(table, id) == {row \in db[table] : row.deal = id}

(* Every deal anybody can see has its creator as its only party, the       *)
(* milestones it was asked for, its agreement, one outbox row and its      *)
(* first evidence, and there are no such rows without their deal: the      *)
(* assertion of create_deal never fails, whatever breaks down.             *)
DealsComplete ==
  /\ \A d \in db["deals"] :
       /\ RowsOf("parties", d.id) = DealRows(d, d.creator)["parties"]
       /\ RowsOf("milestones", d.id) = DealRows(d, d.creator)["milestones"]
       /\ RowsOf("agreements", d.id) = {[deal |-> d.id, version |-> 1]}
       /\ \E k \in Keys :
            RowsOf("outbox", d.id) = {[deal |-> d.id, key |-> k]}
       /\ RowsOf("evidence", d.id) = {FirstItem(d.id)}
  /\ \A t \in {"parties", "milestones", "agreements", "outbox", "evidence"} :
       \A row \in db[t] : \E d \in db["deals"] : d.id = row.deal

(* What the settlement takes for granted of the deal it starts from: the   *)
(* stored milestones add up to its total, which its column can hold, and   *)
(* the buyer pays from a wallet of his own.                                *)
FitToSettle ==
  \A d \in db["deals"] :
    LET mine == RowsOf("milestones", d.id) IN
    /\ ValidAllocations(d.offer.total, mine, [m \in mine |-> m.amount])
    /\ d.offer.total <= BigInt
    /\ \A p \in RowsOf("parties", d.id) :
         p.wallet # None => p.wallet \in Linked[p.user]

(* The key is a promise of one deal that only requests under way together  *)
(* can break: a request that begins when a client has its answer creates   *)
(* no other deal under the same key.                                       *)
OnlyRacesDuplicate ==
  \A a \in answers :
    /\ \E o \in db["outbox"] : o.key = a.key /\ o.deal = a.deal
    /\ \A o \in db["outbox"] :
         o.key = a.key /\ o.deal # a.deal => o.deal < a.at

(* A slug names one organisation, and each has its owner as its member,    *)
(* also when two requests found the slug free together.                    *)
OrganisationsOwned ==
  \A o \in db["organisations"] :
    /\ OrganisationsUnder(o.slug) = {o.id}
    /\ {m \in db["members"] : m.organisation = o.id}
         = {[organisation |-> o.id, user |-> o.owner, role |-> "OWNER"]}

(* Every request is answered, also one that waits for the slug of another. *)
RequestsFinish == \A r \in Workers : pc[r] # "idle" ~> pc[r] = "idle"
==========================================================================
