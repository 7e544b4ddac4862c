--------------------------- MODULE CreationProofs ---------------------------
(***************************************************************************)
(* Theorems about Creation, for every set of sessions, users, keys and     *)
(* offers: a deal appears whole and fit to be settled, a key is broken     *)
(* only by requests that are under way together, and a slug names one      *)
(* organisation.                                                           *)
(***************************************************************************)
EXTENDS Creation, FiniteSums

DealTables == {"parties", "milestones", "agreements", "outbox", "evidence"}

---------------------------------------------------------------------------
(* The tables of a draft                                                   *)

(* What the first flush of a deal writes.                                  *)
LEMMA InsertedTables ==
  ASSUME NEW d, NEW u
  PROVE  /\ DealRows(d, u)["deals"] =
              {[id |-> d.id, creator |-> u, offer |-> d.offer,
                status |-> "DRAFT", version |-> 1]}
         /\ DealRows(d, u)["parties"] =
              {[deal |-> d.id, user |-> u, role |-> "BUYER",
                wallet |-> d.offer.wallet]}
         /\ DealRows(d, u)["milestones"] =
              {[deal |-> d.id, position |-> i, amount |-> d.offer.amounts[i]] :
                 i \in DOMAIN d.offer.amounts}
         /\ DOMAIN DealRows(d, u) = Tables
BY DEF DealRows, NoRows, Tables

(* They depend on the deal's id and offer only.                            *)
LEMMA SameRows ==
  ASSUME NEW d, NEW e, NEW u, NEW v, d.id = e.id, d.offer = e.offer, u = v
  PROVE  DealRows(d, u) = DealRows(e, v)
BY DEF DealRows

(* What the second one adds.                                               *)
LEMMA DescribedTables ==
  ASSUME NEW rows, NEW j, DOMAIN rows = Tables
  PROVE  /\ \A t \in {"deals", "parties", "milestones"} :
              Described(rows, j)[t] = rows[t]
         /\ Described(rows, j)["agreements"] = {[deal |-> j.id, version |-> 1]}
         /\ Described(rows, j)["outbox"] = {[deal |-> j.id, key |-> j.key]}
         /\ Described(rows, j)["evidence"] = {FirstItem(j.id)}
BY DEF Described, Tables

(* Every row of a complete draft belongs to the deal of the request.       *)
LEMMA OwnRows ==
  ASSUME NEW j, NEW t \in DealTables,
         NEW row \in Described(DealRows(j, j.user), j)[t]
  PROVE  row.deal = j.id
<1>1. DOMAIN DealRows(j, j.user) = Tables
  BY InsertedTables
<1> QED BY <1>1, InsertedTables, DescribedTables DEF DealTables, FirstItem

---------------------------------------------------------------------------
(* The invariant                                                           *)

Shape ==
  /\ pc \in [Workers -> {"idle", "keyed", "inserted", "complete"}]
  /\ DOMAIN job = Workers
  /\ DOMAIN found = Workers
  /\ DOMAIN draft = Workers
  /\ requests \in Nat

(* A request has an id of its own, which no stored deal has.               *)
OwnIds ==
  /\ \A r \in Workers : pc[r] # "idle" =>
       /\ job[r].kind \in {"Deal", "Organisation"}
       /\ job[r].kind = "Deal" => job[r].key \in Keys
       /\ job[r].id \in Nat
       /\ job[r].id < requests
       /\ \A q \in Workers : q # r /\ pc[q] # "idle" => job[q].id # job[r].id
       /\ \A d \in db["deals"] : d.id # job[r].id
  /\ \A d \in db["deals"] : d.id \in Nat /\ d.id < requests

(* What a session has flushed.                                             *)
Drafted(r) ==
  /\ pc[r] = "inserted" /\ job[r].kind = "Deal" =>
       draft[r] = DealRows(job[r], job[r].user)
  /\ pc[r] = "complete" /\ job[r].kind = "Deal" =>
       draft[r] = Described(DealRows(job[r], job[r].user), job[r])
  /\ pc[r] \in {"inserted", "complete"} /\ job[r].kind = "Organisation" =>
       /\ DOMAIN draft[r] = Tables
       /\ \A t \in DealTables \cup {"deals"} : draft[r][t] = {}

CreationInv ==
  Shape /\ OwnIds /\ (\A r \in Workers : Drafted(r)) /\ DealsComplete

LEMMA InitCreationInv == Init => CreationInv
<1> SUFFICES ASSUME Init
             PROVE  CreationInv
  OBVIOUS
<1>1. \A t \in Tables : db[t] = {}
  BY DEF Init, NoRows
<1>2. DealsComplete
  BY <1>1 DEF DealsComplete, Tables
<1>3. Shape /\ \A r \in Workers : Drafted(r)
  BY DEF Init, Shape, Drafted
<1>4. OwnIds
  BY <1>1 DEF Init, OwnIds, Tables
<1> QED BY <1>2, <1>3, <1>4 DEF CreationInv

---------------------------------------------------------------------------
(* The steps                                                               *)

LEMMA SameDeals ==
  ASSUME DealsComplete, UNCHANGED db
  PROVE  DealsComplete'
BY DEF DealsComplete, RowsOf

LEMMA BeginInv ==
  ASSUME CreationInv, NEW r \in Workers, NEW kind \in {"Deal", "Organisation"},
         NEW user, NEW key, NEW offer, NEW ids,
         kind = "Deal" => key \in Keys,
         Begin(r, kind, user, key, offer, ids)
  PROVE  CreationInv'
<1> DEFINE j == [kind |-> kind, id |-> requests, user |-> user, key |-> key,
                 offer |-> offer]
<1>1. /\ pc' = [pc EXCEPT ![r] = "keyed"]
      /\ job' = [job EXCEPT ![r] = j]
      /\ \E id \in FirstOf(ids) : found' = [found EXCEPT ![r] = id]
      /\ requests' = requests + 1
      /\ UNCHANGED <<db, draft>>
  BY DEF Begin
<1>2. Shape'
  BY <1>1 DEF CreationInv, Shape
<1>3. /\ \A q \in Workers : q # r => pc'[q] = pc[q] /\ job'[q] = job[q]
      /\ pc'[r] = "keyed" /\ job'[r] = j
  BY <1>1 DEF CreationInv, Shape
<1>4. OwnIds'
  BY <1>1, <1>3 DEF CreationInv, Shape, OwnIds
<1>5. \A q \in Workers : Drafted(q)'
  BY <1>1, <1>3 DEF CreationInv, Drafted
<1> QED BY <1>1, <1>2, <1>4, <1>5, SameDeals DEF CreationInv

(* A flush that leaves the session with the draft it should have.          *)
LEMMA FlushInv ==
  ASSUME CreationInv, NEW r \in Workers,
         NEW to \in {"inserted", "complete"}, NEW rows,
         Flush(r, to, rows), UNCHANGED db, pc[r] # "idle",
         to = "inserted" /\ job[r].kind = "Deal" =>
           rows = DealRows(job[r], job[r].user),
         to = "complete" /\ job[r].kind = "Deal" =>
           rows = Described(DealRows(job[r], job[r].user), job[r]),
         job[r].kind = "Organisation" =>
           /\ DOMAIN rows = Tables
           /\ \A t \in DealTables \cup {"deals"} : rows[t] = {}
  PROVE  CreationInv'
<1>1. /\ pc' = [pc EXCEPT ![r] = to]
      /\ draft' = [draft EXCEPT ![r] = rows]
      /\ UNCHANGED <<job, found, requests>>
  BY DEF Flush
<1>2. Shape'
  BY <1>1 DEF CreationInv, Shape
<1>3. /\ \A q \in Workers : q # r => pc'[q] = pc[q] /\ draft'[q] = draft[q]
      /\ pc'[r] = to /\ draft'[r] = rows
  BY <1>1 DEF CreationInv, Shape
<1>4. OwnIds'
  BY <1>1, <1>3 DEF CreationInv, OwnIds
<1>5. \A q \in Workers : Drafted(q)'
  BY <1>1, <1>3 DEF CreationInv, Drafted
<1> QED BY <1>2, <1>4, <1>5, SameDeals DEF CreationInv

(* A session that ends leaves the others and the ids as they were.         *)
LEMMA EndInv ==
  ASSUME CreationInv, NEW r \in Workers, EndSession(r),
         \A d \in db'["deals"] :
           \/ d \in db["deals"]
           \/ pc[r] # "idle" /\ d.id = job[r].id
  PROVE  Shape' /\ OwnIds' /\ \A q \in Workers : Drafted(q)'
<1>1. /\ Shape'
      /\ \A q \in Workers : q # r =>
           pc'[q] = pc[q] /\ job'[q] = job[q] /\ draft'[q] = draft[q]
      /\ pc'[r] = "idle"
      /\ requests' = requests
  BY DEF EndSession, CreationInv, Shape
<1>2. OwnIds'
  BY <1>1 DEF CreationInv, OwnIds
<1>3. \A q \in Workers : Drafted(q)'
  BY <1>1 DEF CreationInv, Drafted
<1> QED BY <1>1, <1>2, <1>3

(* The commit of a deal adds its rows to those of the others.              *)
LEMMA CommitDeal ==
  ASSUME CreationInv, NEW r \in Workers, At(r, "complete", "Deal"), Commit(r)
  PROVE  DealsComplete' /\ \A d \in db'["deals"] :
                             d \in db["deals"] \/ d.id = job[r].id
<1>1. PICK j : j = job[r]
  OBVIOUS
<1> DEFINE rows == Described(DealRows(j, j.user), j)
           new == [id |-> j.id, creator |-> j.user, offer |-> j.offer,
                   status |-> "DRAFT", version |-> 1]
<1>2. draft[r] = rows
  BY <1>1 DEF At, CreationInv, Drafted
<1>3. DOMAIN DealRows(j, j.user) = Tables
  BY InsertedTables
<1>4. rows["deals"] = {new}
  BY <1>3, InsertedTables, DescribedTables
<1>5. \A t \in DealTables : \A row \in rows[t] : row.deal = j.id
  BY OwnRows
<1>6. /\ rows["parties"] = DealRows(new, new.creator)["parties"]
      /\ rows["milestones"] = DealRows(new, new.creator)["milestones"]
      /\ rows["agreements"] = {[deal |-> new.id, version |-> 1]}
      /\ rows["outbox"] = {[deal |-> new.id, key |-> j.key]}
      /\ rows["evidence"] = {FirstItem(new.id)}
  <2>1. rows["parties"] = DealRows(j, j.user)["parties"]
          /\ rows["milestones"] = DealRows(j, j.user)["milestones"]
    BY <1>3, DescribedTables
  <2>2. new.id = j.id /\ new.creator = j.user /\ new.offer = j.offer
    OBVIOUS
  <2>3. DealRows(new, new.creator) = DealRows(j, j.user)
    <3> HIDE DEF new
    <3> QED BY <2>2, SameRows
  <2>4. rows["agreements"] = {[deal |-> j.id, version |-> 1]}
          /\ rows["outbox"] = {[deal |-> j.id, key |-> j.key]}
          /\ rows["evidence"] = {FirstItem(j.id)}
    BY <1>3, DescribedTables
  <2> QED BY <2>1, <2>2, <2>3, <2>4
<1>7. \A t \in Tables : db'[t] = db[t] \cup rows[t]
  BY <1>2 DEF Commit
<1>8. new.id = j.id
  OBVIOUS
<1> HIDE DEF rows, new
<1>9. db'["deals"] = db["deals"] \cup {new}
  BY <1>4, <1>7 DEF Tables
<1>10. \A d \in db["deals"] : d.id # new.id
  BY <1>1, <1>8 DEF At, CreationInv, OwnIds
<1>11. \A t \in DealTables : \A row \in db[t] :
         row.deal # new.id /\ \E d \in db["deals"] : d.id = row.deal
  BY <1>10 DEF CreationInv, DealsComplete, DealTables
<1>12. \A t \in DealTables : db'[t] = db[t] \cup rows[t]
  BY <1>7 DEF Tables, DealTables
<1>13. ASSUME NEW t \in DealTables
       PROVE  /\ \A d \in db["deals"] : RowsOf(t, d.id)' = RowsOf(t, d.id)
              /\ RowsOf(t, new.id)' = rows[t]
  <2>1. ASSUME NEW d \in db["deals"]
        PROVE  RowsOf(t, d.id)' = RowsOf(t, d.id)
    BY <1>5, <1>8, <1>10, <1>12 DEF RowsOf
  <2>2. RowsOf(t, new.id)' = rows[t]
    BY <1>5, <1>8, <1>11, <1>12 DEF RowsOf
  <2> QED BY <2>1, <2>2
<1>14. ASSUME NEW d \in db["deals"]
       PROVE  /\ RowsOf("parties", d.id)' = DealRows(d, d.creator)["parties"]
              /\ RowsOf("milestones", d.id)'
                   = DealRows(d, d.creator)["milestones"]
              /\ RowsOf("agreements", d.id)' = {[deal |-> d.id, version |-> 1]}
              /\ \E k \in Keys :
                   RowsOf("outbox", d.id)' = {[deal |-> d.id, key |-> k]}
              /\ RowsOf("evidence", d.id)' = {FirstItem(d.id)}
  BY <1>13 DEF CreationInv, DealsComplete, DealTables
<1>15. j.key \in Keys
  BY <1>1 DEF At, CreationInv, OwnIds
<1>16. /\ RowsOf("parties", new.id)' = DealRows(new, new.creator)["parties"]
       /\ RowsOf("milestones", new.id)'
            = DealRows(new, new.creator)["milestones"]
       /\ RowsOf("agreements", new.id)' = {[deal |-> new.id, version |-> 1]}
       /\ \E k \in Keys :
            RowsOf("outbox", new.id)' = {[deal |-> new.id, key |-> k]}
       /\ RowsOf("evidence", new.id)' = {FirstItem(new.id)}
  BY <1>6, <1>13, <1>15 DEF DealTables
<1>17. ASSUME NEW t \in DealTables, NEW row \in db'[t]
       PROVE  \E d \in db'["deals"] : d.id = row.deal
  <2>1. CASE row \in db[t]
    BY <2>1, <1>9, <1>11
  <2>2. CASE row \in rows[t]
    BY <2>2, <1>5, <1>8, <1>9
  <2> QED BY <1>12, <2>1, <2>2
<1>18. DealsComplete'
  <2>1. \A d \in db'["deals"] :
          /\ RowsOf("parties", d.id)' = DealRows(d, d.creator)["parties"]
          /\ RowsOf("milestones", d.id)' = DealRows(d, d.creator)["milestones"]
          /\ RowsOf("agreements", d.id)' = {[deal |-> d.id, version |-> 1]}
          /\ \E k \in Keys :
               RowsOf("outbox", d.id)' = {[deal |-> d.id, key |-> k]}
          /\ RowsOf("evidence", d.id)' = {FirstItem(d.id)}
    BY <1>9, <1>14, <1>16
  <2> QED BY <1>17, <2>1 DEF DealsComplete, DealTables
<1> QED BY <1>1, <1>8, <1>9, <1>18

(* The commit of an organisation adds nothing to the deals.                *)
LEMMA CommitOrganisation ==
  ASSUME CreationInv, NEW r \in Workers, pc[r] = "complete",
         job[r].kind = "Organisation", Commit(r)
  PROVE  DealsComplete' /\ db'["deals"] = db["deals"]
<1>1. \A t \in DealTables \cup {"deals"} : db'[t] = db[t]
  BY DEF Commit, CreationInv, Drafted, Tables, DealTables
<1> QED BY <1>1 DEF CreationInv, DealsComplete, RowsOf, DealTables

LEMMA CreationStep == CreationInv /\ [Next]_vars => CreationInv'
<1> SUFFICES ASSUME CreationInv, [Next]_vars
             PROVE  CreationInv'
  OBVIOUS
<1>1. ASSUME NEW r \in Workers, BeginDeal(r) \/ BeginOrganisation(r)
      PROVE  CreationInv'
  BY <1>1, BeginInv DEF BeginDeal, BeginOrganisation
<1>2. ASSUME NEW r \in Workers, InsertDeal(r)
      PROVE  CreationInv'
  BY <1>2, FlushInv DEF InsertDeal, At
<1>3. ASSUME NEW r \in Workers, DescribeDeal(r)
      PROVE  CreationInv'
  <2>1. draft[r] = DealRows(job[r], job[r].user)
    BY <1>3 DEF DescribeDeal, At, CreationInv, Drafted
  <2> QED BY <1>3, <2>1, FlushInv DEF DescribeDeal, At
<1>4. ASSUME NEW r \in Workers, InsertOrganisation(r)
      PROVE  CreationInv'
  <2> DEFINE rows == [NoRows EXCEPT !["organisations"] =
                {[id |-> job[r].id, slug |-> job[r].key, owner |-> job[r].user]}]
  <2>1. DOMAIN rows = Tables
          /\ \A t \in DealTables \cup {"deals"} : rows[t] = {}
    BY DEF NoRows, Tables, DealTables
  <2>2. Flush(r, "inserted", rows) /\ UNCHANGED db
          /\ At(r, "keyed", "Organisation")
    BY <1>4 DEF InsertOrganisation
  <2> HIDE DEF rows
  <2> QED BY <2>1, <2>2, FlushInv DEF At
<1>5. ASSUME NEW r \in Workers, AddOwner(r)
      PROVE  CreationInv'
  <2> DEFINE rows == [draft[r] EXCEPT !["members"] =
                {[organisation |-> job[r].id, user |-> job[r].user,
                  role |-> "OWNER"]}]
  <2>1. At(r, "inserted", "Organisation") /\ UNCHANGED db
          /\ Flush(r, "complete", rows)
    BY <1>5 DEF AddOwner
  <2>2. DOMAIN rows = Tables
          /\ \A t \in DealTables \cup {"deals"} : rows[t] = {}
    BY <2>1 DEF At, CreationInv, Drafted, DealTables
  <2> HIDE DEF rows
  <2> QED BY <2>1, <2>2, FlushInv DEF At
<1>6. ASSUME NEW r \in Workers, Commit(r)
      PROVE  CreationInv'
  <2>1. pc[r] = "complete" /\ job[r].kind \in {"Deal", "Organisation"}
          /\ EndSession(r)
    BY <1>6 DEF Commit, CreationInv, OwnIds
  <2>2. DealsComplete' /\ \A d \in db'["deals"] :
                            d \in db["deals"] \/ d.id = job[r].id
    BY <1>6, <2>1, CommitDeal, CommitOrganisation DEF At
  <2>3. Shape' /\ OwnIds' /\ \A q \in Workers : Drafted(q)'
    BY <2>1, <2>2, EndInv
  <2> QED BY <2>2, <2>3 DEF CreationInv
<1>7. ASSUME NEW r \in Workers,
             AnswerExisting(r) \/ Refuse(r) \/ Abort(r)
      PROVE  CreationInv'
  <2>1. EndSession(r) /\ UNCHANGED db
    BY <1>7 DEF AnswerExisting, Refuse, Abort
  <2>2. Shape' /\ OwnIds' /\ \A q \in Workers : Drafted(q)'
    BY <2>1, EndInv
  <2> QED BY <2>1, <2>2, SameDeals DEF CreationInv
<1>8. CASE UNCHANGED vars
  <2>1. Shape' /\ OwnIds' /\ \A q \in Workers : Drafted(q)'
    BY <1>8 DEF vars, CreationInv, Shape, OwnIds, Drafted
  <2> QED BY <1>8, <2>1, SameDeals DEF vars, CreationInv
<1> QED
  BY <1>1, <1>2, <1>3, <1>4, <1>5, <1>6, <1>7, <1>8 DEF Next, Work

(* Whatever races and breaks down, a deal anybody can see is whole, and    *)
(* the assertion of create_deal holds.                                     *)
THEOREM DealsAppearWhole == Spec => []DealsComplete
<1>1. CreationInv => DealsComplete
  BY DEF CreationInv
<1> QED BY <1>1, InitCreationInv, CreationStep, PTL DEF Spec

---------------------------------------------------------------------------
(* The idempotency key                                                     *)

(* A request that found nothing under its key began before any client had  *)
(* an answer for that key; one that found a deal found an outbox row.      *)
KeyLookedUp(r) ==
  pc[r] # "idle" /\ job[r].kind = "Deal" =>
    /\ pc[r] # "keyed" => found[r] = None
    /\ found[r] = None =>
         \A a \in answers : a.key = job[r].key => job[r].id < a.at
    /\ found[r] # None =>
         \E o \in db["outbox"] : o.key = job[r].key /\ o.deal = found[r]

KeyInv ==
  /\ CreationInv
  /\ \A r \in Workers : KeyLookedUp(r)
  /\ \A a \in answers : a.at \in Nat /\ a.at <= requests
  /\ OnlyRacesDuplicate

LEMMA InitKeyInv == Init => KeyInv
BY InitCreationInv DEF Init, KeyInv, KeyLookedUp, OnlyRacesDuplicate

(* Deals are numbered below the requests, also where the outbox names one. *)
LEMMA OutboxIds ==
  ASSUME CreationInv
  PROVE  \A o \in db["outbox"] : o.deal \in Nat /\ o.deal < requests
BY DEF CreationInv, DealsComplete, OwnIds

(* A request that begins: one that finds no deal finds no answer either.   *)
LEMMA BeginKey ==
  ASSUME KeyInv, NEW r \in Workers, BeginDeal(r) \/ BeginOrganisation(r)
  PROVE  /\ \A q \in Workers : KeyLookedUp(q)'
         /\ \A a \in answers' : a.at \in Nat /\ a.at <= requests'
         /\ OnlyRacesDuplicate'
<1>1. PICK kind, user, key, offer, ids :
        /\ Begin(r, kind, user, key, offer, ids)
        /\ kind = "Deal" => ids = DealsUnder(key)
  BY DEF BeginDeal, BeginOrganisation
<1>2. /\ pc' = [pc EXCEPT ![r] = "keyed"]
      /\ job' = [job EXCEPT ![r] = [kind |-> kind, id |-> requests,
                   user |-> user, key |-> key, offer |-> offer]]
      /\ UNCHANGED <<db, answers>>
      /\ requests' = requests + 1
  BY <1>1 DEF Begin
<1>3. PICK id \in FirstOf(ids) : found' = [found EXCEPT ![r] = id]
  BY <1>1 DEF Begin
<1>4. Shape
  BY DEF KeyInv, CreationInv
<1>5. \A q \in Workers \ {r} : KeyLookedUp(q)'
  <2> TAKE q \in Workers \ {r}
  <2>1. pc'[q] = pc[q] /\ job'[q] = job[q] /\ found'[q] = found[q]
    BY <1>2, <1>3, <1>4 DEF Shape
  <2> QED BY <1>2, <2>1 DEF KeyInv, KeyLookedUp
<1>6. KeyLookedUp(r)'
  <2>1. pc'[r] = "keyed" /\ job'[r].kind = kind /\ job'[r].key = key
          /\ found'[r] = id
    BY <1>2, <1>3, <1>4 DEF Shape
  <2> SUFFICES ASSUME kind = "Deal"
               PROVE  KeyLookedUp(r)'
    BY <2>1 DEF KeyLookedUp
  <2>2. \A i \in DealsUnder(key) : i \in Nat
    BY OutboxIds DEF KeyInv, DealsUnder
  <2>3. CASE id = None
    <3>1. DealsUnder(key) = {}
      <4>1. None \notin Nat
        BY CreationAssumption
      <4>2. id \notin DealsUnder(key)
        BY <2>2, <2>3, <4>1
      <4> QED BY <1>1, <4>2 DEF FirstOf
    <3>2. \A a \in answers : a.key # key
      BY <3>1 DEF KeyInv, OnlyRacesDuplicate, DealsUnder
    <3> QED BY <1>2, <2>1, <2>3, <3>2 DEF KeyLookedUp
  <2>4. CASE id # None
    <3>1. id \in DealsUnder(key)
      BY <1>1, <2>4 DEF FirstOf
    <3> QED BY <1>2, <2>1, <2>4, <3>1 DEF KeyLookedUp, DealsUnder
  <2> QED BY <2>3, <2>4
<1>7. OnlyRacesDuplicate'
  BY <1>2 DEF KeyInv, OnlyRacesDuplicate
<1>8. \A a \in answers' : a.at \in Nat /\ a.at <= requests'
  BY <1>2, <1>4 DEF KeyInv, Shape
<1> QED BY <1>5, <1>6, <1>7, <1>8

(* A session at work: the row a deal's commit adds is older than every     *)
(* answer under its key, and every row is older than the answer it adds.   *)
LEMMA EndKey ==
  ASSUME KeyInv, NEW r \in Workers, EndSession(r), NEW deal,
         NEW rows, db'["outbox"] = db["outbox"] \cup rows,
         \/ rows = {} /\ answers' = answers
         \/ /\ At(r, "complete", "Deal") /\ deal = job[r].id
            /\ rows = {[deal |-> deal, key |-> job[r].key]}
            /\ Answered(r, deal)
         \/ /\ At(r, "keyed", "Deal") /\ deal = found[r] /\ found[r] # None
            /\ rows = {}
            /\ Answered(r, deal)
  PROVE  /\ \A q \in Workers : KeyLookedUp(q)'
         /\ \A a \in answers' : a.at \in Nat /\ a.at <= requests'
         /\ OnlyRacesDuplicate'
<1>1. Shape /\ requests' = requests /\ requests \in Nat
  BY DEF KeyInv, CreationInv, Shape, EndSession
<1>2. /\ \A q \in Workers \ {r} :
           pc'[q] = pc[q] /\ job'[q] = job[q] /\ found'[q] = found[q]
      /\ pc'[r] = "idle"
  BY <1>1 DEF EndSession, Shape
<1>3. PICK new : /\ new = {} \/ new = {[key |-> job[r].key, deal |-> deal,
                                        at |-> requests]}
                 /\ answers' = answers \cup new
                 /\ rows # {} => new # {}
                 /\ new # {} =>
                      \/ rows = {[deal |-> deal, key |-> job[r].key]}
                      \/ /\ At(r, "keyed", "Deal")
                         /\ deal = found[r] /\ found[r] # None
  BY DEF Answered
<1>4. \A q \in Workers : pc[q] # "idle" => job[q].id \in Nat /\ job[q].id < requests
  BY DEF KeyInv, CreationInv, OwnIds
<1>5. \A q \in Workers : KeyLookedUp(q)'
  <2> TAKE q \in Workers
  <2>1. CASE q = r
    BY <1>2, <2>1 DEF KeyLookedUp
  <2>2. CASE q # r
    <3>1. pc'[q] = pc[q] /\ job'[q] = job[q] /\ found'[q] = found[q]
      BY <1>2, <2>2
    <3> QED BY <1>3, <1>4, <3>1 DEF KeyInv, KeyLookedUp
  <2> QED BY <2>1, <2>2
<1>6. \A a \in answers' : a.at \in Nat /\ a.at <= requests'
  BY <1>1, <1>3 DEF KeyInv
<1>7. \A a \in answers : \A o \in rows : o.key = a.key => o.deal < a.at
  BY DEF At, KeyInv, KeyLookedUp
<1>8. \A o \in db'["outbox"] :
        o.deal < requests \/ (o.deal = deal /\ rows # {})
  BY OutboxIds DEF KeyInv
<1>9. new # {} =>
        \E o \in db'["outbox"] : o.key = job[r].key /\ o.deal = deal
  <2> SUFFICES ASSUME new # {}
               PROVE  \E o \in db'["outbox"] :
                        o.key = job[r].key /\ o.deal = deal
    OBVIOUS
  <2>1. CASE rows = {[deal |-> deal, key |-> job[r].key]}
    <3> DEFINE o == [deal |-> deal, key |-> job[r].key]
    <3>1. o \in db'["outbox"]
      BY <2>1
    <3>2. o.key = job[r].key /\ o.deal = deal
      OBVIOUS
    <3> QED BY <3>1, <3>2
  <2>2. CASE At(r, "keyed", "Deal") /\ deal = found[r] /\ found[r] # None
    BY <2>2 DEF At, KeyInv, KeyLookedUp
  <2> QED BY <1>3, <2>1, <2>2
<1>10. ASSUME NEW a \in answers
       PROVE  /\ \E o \in db'["outbox"] : o.key = a.key /\ o.deal = a.deal
              /\ \A o \in db'["outbox"] :
                   o.key = a.key /\ o.deal # a.deal => o.deal < a.at
  BY <1>7 DEF KeyInv, OnlyRacesDuplicate
<1>11. ASSUME NEW a \in new
       PROVE  /\ \E o \in db'["outbox"] : o.key = a.key /\ o.deal = a.deal
              /\ \A o \in db'["outbox"] :
                   o.key = a.key /\ o.deal # a.deal => o.deal < a.at
  <2>1. a.key = job[r].key /\ a.deal = deal /\ a.at = requests
    BY <1>3
  <2> QED BY <1>8, <1>9, <2>1
<1>12. OnlyRacesDuplicate'
  BY <1>3, <1>10, <1>11 DEF OnlyRacesDuplicate
<1> QED BY <1>5, <1>6, <1>12

(* A flush: only a session that found nothing has one.                     *)
LEMMA FlushKey ==
  ASSUME KeyInv, NEW r \in Workers, NEW to, NEW rows, Flush(r, to, rows),
         UNCHANGED db, pc[r] # "idle",
         job[r].kind = "Deal" => found[r] = None
  PROVE  /\ \A q \in Workers : KeyLookedUp(q)'
         /\ \A a \in answers' : a.at \in Nat /\ a.at <= requests'
         /\ OnlyRacesDuplicate'
<1>1. /\ pc' = [pc EXCEPT ![r] = to]
      /\ UNCHANGED <<db, job, found, answers, requests>>
      /\ Shape
  BY DEF Flush, KeyInv, CreationInv
<1>2. \A q \in Workers : KeyLookedUp(q)'
  BY <1>1 DEF KeyInv, KeyLookedUp, Shape
<1> QED BY <1>1, <1>2 DEF KeyInv, OnlyRacesDuplicate

LEMMA KeyStep == KeyInv /\ [Next]_vars => KeyInv'
<1> SUFFICES ASSUME KeyInv, [Next]_vars
             PROVE  /\ \A q \in Workers : KeyLookedUp(q)'
                    /\ \A a \in answers' : a.at \in Nat /\ a.at <= requests'
                    /\ OnlyRacesDuplicate'
  BY CreationStep DEF KeyInv
<1> DEFINE Goal == /\ \A q \in Workers : KeyLookedUp(q)'
                   /\ \A a \in answers' : a.at \in Nat /\ a.at <= requests'
                   /\ OnlyRacesDuplicate'
<1>1. ASSUME NEW r \in Workers, BeginDeal(r) \/ BeginOrganisation(r)
      PROVE  Goal
  BY <1>1, BeginKey
<1>2. ASSUME NEW r \in Workers, InsertDeal(r)
      PROVE  Goal
  BY <1>2, FlushKey DEF InsertDeal, At
<1>3. ASSUME NEW r \in Workers, DescribeDeal(r)
      PROVE  Goal
  BY <1>3, FlushKey DEF DescribeDeal, At, KeyInv, KeyLookedUp
<1>4. ASSUME NEW r \in Workers, InsertOrganisation(r)
      PROVE  Goal
  BY <1>4, FlushKey DEF InsertOrganisation, At
<1>5. ASSUME NEW r \in Workers, AddOwner(r)
      PROVE  Goal
  BY <1>5, FlushKey DEF AddOwner, At
<1>6. ASSUME NEW r \in Workers, AnswerExisting(r)
      PROVE  Goal
  <2>1. At(r, "keyed", "Deal") /\ found[r] # None /\ Answered(r, found[r])
          /\ EndSession(r) /\ db'["outbox"] = db["outbox"] \cup {}
    BY <1>6 DEF AnswerExisting
  <2> QED BY <2>1, EndKey
<1>7. ASSUME NEW r \in Workers, Commit(r)
      PROVE  Goal
  <2>1. EndSession(r) /\ pc[r] = "complete"
    BY <1>7 DEF Commit
  <2>2. CASE job[r].kind = "Deal"
    <3>1. PICK j : j = job[r]
      OBVIOUS
    <3>2. draft[r] = Described(DealRows(j, j.user), j)
      BY <2>1, <2>2, <3>1 DEF KeyInv, CreationInv, Drafted
    <3>3. draft[r]["outbox"] = {[deal |-> j.id, key |-> j.key]}
      BY <3>2, InsertedTables, DescribedTables
    <3>4. db'["outbox"] = db["outbox"] \cup {[deal |-> j.id, key |-> j.key]}
      BY <1>7, <3>3 DEF Commit, Tables
    <3>5. Answered(r, j.id)
      BY <1>7, <2>2, <3>1 DEF Commit
    <3> QED BY <2>1, <2>2, <3>1, <3>4, <3>5, EndKey DEF At
  <2>3. CASE job[r].kind # "Deal"
    <3>1. job[r].kind = "Organisation"
      BY <2>1, <2>3 DEF KeyInv, CreationInv, OwnIds
    <3>2. draft[r]["outbox"] = {}
      BY <2>1, <3>1 DEF KeyInv, CreationInv, Drafted, DealTables
    <3>3. db'["outbox"] = db["outbox"] \cup {} /\ answers' = answers
      BY <1>7, <2>3, <3>2 DEF Commit, Tables
    <3> QED BY <2>1, <3>3, EndKey
  <2> QED BY <2>2, <2>3
<1>8. ASSUME NEW r \in Workers, Refuse(r) \/ Abort(r)
      PROVE  Goal
  <2>1. EndSession(r) /\ db'["outbox"] = db["outbox"] \cup {}
          /\ answers' = answers
    BY <1>8 DEF Refuse, Abort
  <2> QED BY <2>1, EndKey
<1>9. CASE UNCHANGED vars
  BY <1>9 DEF vars, KeyInv, KeyLookedUp, OnlyRacesDuplicate
<1> QED
  BY <1>1, <1>2, <1>3, <1>4, <1>5, <1>6, <1>7, <1>8, <1>9 DEF Next, Work

(* Only requests under way together make two deals of one key: whoever     *)
(* asks again after an answer, to any worker, gets no deal of his own.     *)
THEOREM AnsweredKeysHold == Spec => []OnlyRacesDuplicate
<1>1. KeyInv => OnlyRacesDuplicate
  BY DEF KeyInv
<1> QED BY <1>1, InitKeyInv, KeyStep, PTL DEF Spec

---------------------------------------------------------------------------
(* Organisations                                                           *)

OrganisationRow(j) == [id |-> j.id, slug |-> j.key, owner |-> j.user]

OwnerRow(j) == [organisation |-> j.id, user |-> j.user, role |-> "OWNER"]

HasOrganisation(r) ==
  pc[r] \in {"inserted", "complete"} /\ job[r].kind = "Organisation"

(* What a session has flushed of an organisation; a deal's flushes none.   *)
OrganisationDrafted(r) ==
  /\ HasOrganisation(r) =>
       /\ draft[r]["organisations"] = {OrganisationRow(job[r])}
       /\ pc[r] = "complete" => draft[r]["members"] = {OwnerRow(job[r])}
  /\ pc[r] = "complete" /\ job[r].kind = "Deal" =>
       draft[r]["organisations"] = {} /\ draft[r]["members"] = {}

(* The index of the unique constraint: a slug that is flushed is neither   *)
(* stored nor flushed by anybody else.                                     *)
SlugsReserved ==
  \A r \in Workers : HasOrganisation(r) =>
    /\ \A o \in db["organisations"] : o.slug # job[r].key
    /\ \A q \in Workers : q # r /\ HasOrganisation(q) => job[q].key # job[r].key

(* Nobody stored bears the id of a request under way.                      *)
OrganisationIds ==
  /\ \A o \in db["organisations"] : o.id \in Nat /\ o.id < requests
  /\ \A r \in Workers : pc[r] # "idle" =>
       \A o \in db["organisations"] : o.id # job[r].id
  /\ \A m \in db["members"] :
       \E o \in db["organisations"] : o.id = m.organisation

OrganisationInv ==
  /\ CreationInv
  /\ \A r \in Workers : OrganisationDrafted(r)
  /\ SlugsReserved
  /\ OrganisationIds
  /\ OrganisationsOwned

LEMMA InitOrganisationInv == Init => OrganisationInv
<1> SUFFICES ASSUME Init
             PROVE  OrganisationInv
  OBVIOUS
<1>1. db["organisations"] = {} /\ db["members"] = {}
  BY DEF Init, NoRows, Tables
<1>2. \A r \in Workers : pc[r] = "idle"
  BY DEF Init
<1> QED
  BY <1>1, <1>2, InitCreationInv
  DEF OrganisationInv, OrganisationDrafted, HasOrganisation, SlugsReserved,
      OrganisationIds, OrganisationsOwned

(* The tables of organisations do not change.                              *)
LEMMA SameOrganisations ==
  ASSUME OrganisationsOwned, db'["organisations"] = db["organisations"],
         db'["members"] = db["members"]
  PROVE  OrganisationsOwned'
BY DEF OrganisationsOwned, OrganisationsUnder

LEMMA BeginOrganisationInv ==
  ASSUME OrganisationInv, NEW r \in Workers,
         NEW kind, NEW user, NEW key, NEW offer, NEW ids,
         Begin(r, kind, user, key, offer, ids)
  PROVE  /\ \A q \in Workers : OrganisationDrafted(q)'
         /\ SlugsReserved' /\ OrganisationIds' /\ OrganisationsOwned'
<1>1. /\ pc'[r] = "keyed"
      /\ job'[r].id = requests
      /\ \A q \in Workers : q # r => /\ pc'[q] = pc[q] /\ job'[q] = job[q]
                                     /\ draft'[q] = draft[q]
      /\ requests \in Nat
      /\ requests' = requests + 1
      /\ db' = db
  BY DEF Begin, OrganisationInv, CreationInv, Shape
<1>2. \A q \in Workers : OrganisationDrafted(q)'
  BY <1>1 DEF OrganisationInv, OrganisationDrafted, HasOrganisation
<1>3. SlugsReserved'
  BY <1>1 DEF OrganisationInv, SlugsReserved, HasOrganisation
<1>4. OrganisationIds'
  BY <1>1 DEF OrganisationInv, OrganisationIds
<1> QED BY <1>1, <1>2, <1>3, <1>4, SameOrganisations DEF OrganisationInv

(* A flush of r that leaves a draft of its request, under a free slug.     *)
LEMMA FlushOrganisationInv ==
  ASSUME OrganisationInv, NEW r \in Workers, NEW to, NEW rows,
         Flush(r, to, rows), UNCHANGED db, pc[r] # "idle",
         OrganisationDrafted(r)',
         HasOrganisation(r)' /\ ~HasOrganisation(r) =>
           /\ \A o \in db["organisations"] : o.slug # job[r].key
           /\ \A q \in Workers : q # r /\ HasOrganisation(q) =>
                job[q].key # job[r].key
  PROVE  /\ \A q \in Workers : OrganisationDrafted(q)'
         /\ SlugsReserved' /\ OrganisationIds' /\ OrganisationsOwned'
<1>1. /\ \A q \in Workers : q # r => pc'[q] = pc[q] /\ draft'[q] = draft[q]
      /\ job' = job /\ requests' = requests /\ db' = db
  BY DEF Flush, OrganisationInv, CreationInv, Shape
<1>2. \A q \in Workers : OrganisationDrafted(q)'
  BY <1>1 DEF OrganisationInv, OrganisationDrafted, HasOrganisation
<1>3. SlugsReserved'
  <2>1. \A q \in Workers : q # r => (HasOrganisation(q)' <=> HasOrganisation(q))
    BY <1>1 DEF HasOrganisation
  <2> QED BY <1>1, <2>1 DEF OrganisationInv, SlugsReserved
<1>4. OrganisationIds'
  BY <1>1 DEF OrganisationInv, OrganisationIds
<1> QED BY <1>1, <1>2, <1>3, <1>4, SameOrganisations DEF OrganisationInv

(* The end of a session that stores no organisation, or its own.           *)
LEMMA EndOrganisationInv ==
  ASSUME OrganisationInv, NEW r \in Workers, EndSession(r),
         \/ /\ db'["organisations"] = db["organisations"]
            /\ db'["members"] = db["members"]
         \/ /\ HasOrganisation(r)
            /\ db'["organisations"] =
                 db["organisations"] \cup {OrganisationRow(job[r])}
            /\ db'["members"] = db["members"] \cup {OwnerRow(job[r])}
  PROVE  /\ \A q \in Workers : OrganisationDrafted(q)'
         /\ SlugsReserved' /\ OrganisationIds' /\ OrganisationsOwned'
<1>1. /\ pc'[r] = "idle"
      /\ \A q \in Workers : q # r => /\ pc'[q] = pc[q] /\ job'[q] = job[q]
                                     /\ draft'[q] = draft[q]
      /\ requests' = requests
  BY DEF EndSession, OrganisationInv, CreationInv, Shape
<1>2. \A q \in Workers : OrganisationDrafted(q)'
  BY <1>1 DEF OrganisationInv, OrganisationDrafted, HasOrganisation
<1>3. \A q \in Workers : q # r => (HasOrganisation(q)' <=> HasOrganisation(q))
  BY <1>1 DEF HasOrganisation
<1>4. ~HasOrganisation(r)'
  BY <1>1 DEF HasOrganisation
<1>5. CASE /\ db'["organisations"] = db["organisations"]
           /\ db'["members"] = db["members"]
  <2>1. SlugsReserved'
    BY <1>1, <1>3, <1>4, <1>5 DEF OrganisationInv, SlugsReserved
  <2>2. OrganisationIds'
    BY <1>1, <1>5 DEF OrganisationInv, OrganisationIds
  <2> QED BY <1>2, <1>5, <2>1, <2>2, SameOrganisations DEF OrganisationInv
<1>6. CASE /\ HasOrganisation(r)
           /\ db'["organisations"] =
                db["organisations"] \cup {OrganisationRow(job[r])}
           /\ db'["members"] = db["members"] \cup {OwnerRow(job[r])}
  <2>1. PICK j, new, owner : /\ j = job[r]
                             /\ new = OrganisationRow(j)
                             /\ owner = OwnerRow(j)
    OBVIOUS
  <2>2. /\ new.id = j.id /\ new.slug = j.key /\ new.owner = j.user
        /\ owner = [organisation |-> new.id, user |-> new.owner,
                    role |-> "OWNER"]
        /\ owner.organisation = new.id
    BY <2>1 DEF OrganisationRow, OwnerRow
  <2>3. /\ db'["organisations"] = db["organisations"] \cup {new}
        /\ db'["members"] = db["members"] \cup {owner}
    BY <1>6, <2>1
  <2>4. /\ pc[r] # "idle"
        /\ new.id \in Nat /\ new.id < requests
        /\ \A q \in Workers : q # r /\ pc[q] # "idle" => job[q].id # new.id
        /\ \A o \in db["organisations"] : o.id # new.id /\ o.slug # new.slug
        /\ \A q \in Workers : q # r /\ HasOrganisation(q) => job[q].key # new.slug
        /\ \A m \in db["members"] : m.organisation # new.id
    BY <1>6, <2>1, <2>2
    DEF HasOrganisation, OrganisationInv, SlugsReserved, OrganisationIds,
        CreationInv, OwnIds
  <2>5. SlugsReserved'
    BY <1>1, <1>3, <1>4, <2>3, <2>4 DEF OrganisationInv, SlugsReserved
  <2>6. OrganisationIds'
    BY <1>1, <2>2, <2>3, <2>4 DEF OrganisationInv, OrganisationIds
  <2>7. ASSUME NEW o \in db["organisations"]
        PROVE  /\ OrganisationsUnder(o.slug)' = {o.id}
               /\ {m \in db'["members"] : m.organisation = o.id}
                    = {[organisation |-> o.id, user |-> o.owner,
                        role |-> "OWNER"]}
    <3>1. OrganisationsUnder(o.slug)' = OrganisationsUnder(o.slug)
      BY <2>3, <2>4 DEF OrganisationsUnder
    <3>2. {m \in db'["members"] : m.organisation = o.id}
            = {m \in db["members"] : m.organisation = o.id}
      BY <2>2, <2>3, <2>4
    <3> QED BY <3>1, <3>2 DEF OrganisationInv, OrganisationsOwned
  <2>8. OrganisationsUnder(new.slug)' = {new.id}
    BY <2>3, <2>4 DEF OrganisationsUnder
  <2>9. {m \in db'["members"] : m.organisation = new.id}
          = {[organisation |-> new.id, user |-> new.owner, role |-> "OWNER"]}
    BY <2>2, <2>3, <2>4
  <2>10. OrganisationsOwned'
    BY <2>3, <2>7, <2>8, <2>9 DEF OrganisationsOwned
  <2> QED BY <1>2, <2>5, <2>6, <2>10
<1> QED BY <1>5, <1>6

LEMMA OrganisationStep == OrganisationInv /\ [Next]_vars => OrganisationInv'
<1> SUFFICES ASSUME OrganisationInv, [Next]_vars
             PROVE  /\ \A q \in Workers : OrganisationDrafted(q)'
                    /\ SlugsReserved' /\ OrganisationIds' /\ OrganisationsOwned'
  BY CreationStep DEF OrganisationInv
<1> DEFINE Goal ==
      /\ \A q \in Workers : OrganisationDrafted(q)'
      /\ SlugsReserved' /\ OrganisationIds' /\ OrganisationsOwned'
<1>1. ASSUME NEW r \in Workers, BeginDeal(r) \/ BeginOrganisation(r)
      PROVE  Goal
  BY <1>1, BeginOrganisationInv DEF BeginDeal, BeginOrganisation
<1>2. ASSUME NEW r \in Workers, InsertDeal(r)
      PROVE  Goal
  <2>1. At(r, "keyed", "Deal") /\ Flush(r, "inserted", DealRows(job[r], job[r].user))
          /\ UNCHANGED db
    BY <1>2 DEF InsertDeal
  <2>2. pc'[r] = "inserted" /\ job'[r].kind = "Deal"
    BY <2>1 DEF At, Flush, OrganisationInv, CreationInv, Shape
  <2>3. OrganisationDrafted(r)' /\ ~HasOrganisation(r)'
    BY <2>2 DEF OrganisationDrafted, HasOrganisation
  <2> QED BY <2>1, <2>3, FlushOrganisationInv DEF At
<1>3. ASSUME NEW r \in Workers, DescribeDeal(r)
      PROVE  Goal
  <2>1. /\ At(r, "inserted", "Deal")
        /\ Flush(r, "complete", Described(draft[r], job[r]))
        /\ UNCHANGED db
    BY <1>3 DEF DescribeDeal
  <2>2. pc'[r] = "complete" /\ job'[r].kind = "Deal"
          /\ draft'[r] = Described(draft[r], job[r])
    BY <2>1 DEF At, Flush, OrganisationInv, CreationInv, Shape
  <2>3. draft[r] = DealRows(job[r], job[r].user)
    BY <2>1 DEF At, OrganisationInv, CreationInv, Drafted
  <2>4. draft'[r]["organisations"] = {} /\ draft'[r]["members"] = {}
    BY <2>2, <2>3 DEF Described, DealRows, NoRows, Tables
  <2>5. OrganisationDrafted(r)' /\ ~HasOrganisation(r)'
    BY <2>2, <2>4 DEF OrganisationDrafted, HasOrganisation
  <2> QED BY <2>1, <2>5, FlushOrganisationInv DEF At
<1>4. ASSUME NEW r \in Workers, InsertOrganisation(r)
      PROVE  Goal
  <2> DEFINE rows == [NoRows EXCEPT !["organisations"] =
                {[id |-> job[r].id, slug |-> job[r].key, owner |-> job[r].user]}]
  <2>1. /\ At(r, "keyed", "Organisation")
        /\ Flush(r, "inserted", rows)
        /\ SlugFree(r) /\ SlugInsertable(r)
        /\ UNCHANGED db
    BY <1>4 DEF InsertOrganisation
  <2>2. rows["organisations"] = {OrganisationRow(job[r])}
    BY DEF NoRows, Tables, OrganisationRow
  <2> HIDE DEF rows
  <2>3. pc'[r] = "inserted" /\ job'[r] = job[r] /\ draft'[r] = rows
    BY <2>1 DEF Flush, OrganisationInv, CreationInv, Shape
  <2>4. OrganisationDrafted(r)'
    BY <2>1, <2>2, <2>3 DEF At, OrganisationDrafted, HasOrganisation
  <2>5. \A o \in db["organisations"] : o.slug # job[r].key
    BY <2>1 DEF SlugInsertable, OrganisationsUnder
  <2>6. ASSUME NEW q \in Workers, q # r, HasOrganisation(q)
        PROVE  job[q].key # job[r].key
    <3>1. \A o \in draft[q]["organisations"] : o.slug # job[r].key
      BY <2>1, <2>6 DEF SlugFree
    <3>2. OrganisationRow(job[q]) \in draft[q]["organisations"]
      BY <2>6 DEF OrganisationInv, OrganisationDrafted
    <3> QED BY <3>1, <3>2 DEF OrganisationRow
  <2> QED BY <2>1, <2>4, <2>5, <2>6, FlushOrganisationInv DEF At
<1>5. ASSUME NEW r \in Workers, AddOwner(r)
      PROVE  Goal
  <2> DEFINE rows == [draft[r] EXCEPT !["members"] =
                {[organisation |-> job[r].id, user |-> job[r].user,
                  role |-> "OWNER"]}]
  <2>1. /\ At(r, "inserted", "Organisation")
        /\ Flush(r, "complete", rows)
        /\ UNCHANGED db
    BY <1>5 DEF AddOwner
  <2>2. /\ DOMAIN draft[r] = Tables
        /\ draft[r]["organisations"] = {OrganisationRow(job[r])}
        /\ HasOrganisation(r)
    BY <2>1 DEF At, OrganisationInv, OrganisationDrafted, CreationInv, Drafted,
         HasOrganisation
  <2>3. /\ rows["organisations"] = {OrganisationRow(job[r])}
        /\ rows["members"] = {OwnerRow(job[r])}
    BY <2>2 DEF Tables, OwnerRow
  <2> HIDE DEF rows
  <2>4. pc'[r] = "complete" /\ job'[r] = job[r] /\ draft'[r] = rows
    BY <2>1 DEF Flush, OrganisationInv, CreationInv, Shape
  <2>5. OrganisationDrafted(r)'
    BY <2>1, <2>3, <2>4 DEF At, OrganisationDrafted, HasOrganisation
  <2> QED BY <2>1, <2>2, <2>5, FlushOrganisationInv DEF At
<1>6. ASSUME NEW r \in Workers, Commit(r)
      PROVE  Goal
  <2>1. /\ pc[r] = "complete"
        /\ job[r].kind \in {"Deal", "Organisation"}
        /\ EndSession(r)
        /\ db'["organisations"] = db["organisations"] \cup draft[r]["organisations"]
        /\ db'["members"] = db["members"] \cup draft[r]["members"]
    BY <1>6 DEF Commit, OrganisationInv, CreationInv, OwnIds, Tables
  <2>2. CASE job[r].kind = "Deal"
    <3>1. draft[r]["organisations"] = {} /\ draft[r]["members"] = {}
      BY <2>1, <2>2 DEF OrganisationInv, OrganisationDrafted
    <3>2. db'["organisations"] = db["organisations"]
            /\ db'["members"] = db["members"]
      BY <2>1, <3>1
    <3> QED BY <2>1, <3>2, EndOrganisationInv
  <2>3. CASE job[r].kind = "Organisation"
    <3>1. /\ HasOrganisation(r)
          /\ draft[r]["organisations"] = {OrganisationRow(job[r])}
          /\ draft[r]["members"] = {OwnerRow(job[r])}
      BY <2>1, <2>3 DEF OrganisationInv, OrganisationDrafted, HasOrganisation
    <3>2. /\ db'["organisations"] =
               db["organisations"] \cup {OrganisationRow(job[r])}
          /\ db'["members"] = db["members"] \cup {OwnerRow(job[r])}
      BY <2>1, <3>1
    <3> QED BY <2>1, <3>1, <3>2, EndOrganisationInv
  <2> QED BY <2>1, <2>2, <2>3
<1>7. ASSUME NEW r \in Workers,
             AnswerExisting(r) \/ Refuse(r) \/ Abort(r)
      PROVE  Goal
  <2>1. EndSession(r) /\ db' = db
    BY <1>7 DEF AnswerExisting, Refuse, Abort
  <2> QED BY <2>1, EndOrganisationInv
<1>8. CASE UNCHANGED vars
  <2>1. /\ SlugsReserved' /\ OrganisationIds'
        /\ \A q \in Workers : OrganisationDrafted(q)'
    BY <1>8 DEF vars, OrganisationInv, OrganisationDrafted, HasOrganisation,
         SlugsReserved, OrganisationIds
  <2> QED BY <1>8, <2>1, SameOrganisations DEF vars, OrganisationInv
<1> QED
  BY <1>1, <1>2, <1>3, <1>4, <1>5, <1>6, <1>7, <1>8 DEF Next, Work

(* A slug names one organisation and its creator is its one member and     *)
(* owner, however many requests found the slug free together.              *)
THEOREM OrganisationsKeepOwners == Spec => []OrganisationsOwned
<1>1. OrganisationInv => OrganisationsOwned
  BY DEF OrganisationInv
<1> QED BY <1>1, InitOrganisationInv, OrganisationStep, PTL DEF Spec

---------------------------------------------------------------------------
(* Types                                                                   *)

(* The amounts of an acceptable offer, as a sum.                           *)
LEMMA AllocationsAddUp ==
  ASSUME NEW total, NEW S, NEW f
  PROVE  ValidAllocations(total, S, f) <=>
           /\ S # {}
           /\ \A m \in S : f[m] > 0
           /\ SumOver(f, S) = total
BY DEF ValidAllocations, MapThenSumSet, MapThenFoldSet, SumOver, Sums, One

(* Each amount fits its column, because their sum does.                    *)
LEMMA AmountsFit ==
  ASSUME NEW o \in Offers, NEW u, Acceptable(u, o)
  PROVE  /\ IsFiniteSet(DOMAIN o.amounts)
         /\ \A i \in DOMAIN o.amounts :
              i \in 1..50 /\ o.amounts[i] \in Nat /\ o.amounts[i] \in 1..BigInt
<1>1. /\ BigInt \in Nat /\ o.total \in Nat /\ o.total <= BigInt
      /\ o.amounts \in Seq(Nat \ {0}) /\ Len(o.amounts) \in 1..50
  BY CreationAssumption DEF Acceptable
<1>2. /\ DOMAIN o.amounts = 1..Len(o.amounts)
      /\ \A i \in DOMAIN o.amounts : o.amounts[i] \in Nat \ {0}
  BY <1>1
<1>3. IsFiniteSet(DOMAIN o.amounts)
  BY <1>1, <1>2, FS_Interval
<1>4. SumOver(o.amounts, DOMAIN o.amounts) = o.total
  BY AllocationsAddUp DEF Acceptable
<1>5. ASSUME NEW i \in DOMAIN o.amounts
      PROVE  i \in 1..50 /\ o.amounts[i] \in Nat /\ o.amounts[i] \in 1..BigInt
  <2>1. PICK S, f : S = DOMAIN o.amounts /\ f = o.amounts
    OBVIOUS
  <2>2. IsFiniteSet(S) /\ i \in S /\ (\A x \in S : f[x] \in Nat)
    BY <1>2, <1>3, <2>1
  <2>3. f[i] <= SumOver(f, S)
    BY <2>2, SumBounds
  <2>4. o.amounts[i] <= o.total
    BY <1>4, <2>1, <2>3
  <2>5. PICK a, n, t : a = o.amounts[i] /\ n = Len(o.amounts) /\ t = o.total
    OBVIOUS
  <2>6. /\ n \in 1..50 /\ i \in 1..n
        /\ a \in Nat /\ a # 0 /\ t \in Nat /\ a <= t
        /\ BigInt \in Nat /\ t <= BigInt
    BY <1>1, <1>2, <2>4, <2>5
  <2>7. i \in 1..50 /\ a \in Nat /\ a \in 1..BigInt
    BY <2>6
  <2> QED BY <2>5, <2>7
<1> QED BY <1>3, <1>5

(* What a session of either kind knows of its job.                         *)
LEMMA JobTypes ==
  ASSUME NEW j \in Job
  PROVE  /\ j.id \in Nat /\ j.user \in Users
         /\ j.kind \in {"Deal", "Organisation"}
         /\ j.kind = "Deal" => j.key \in Keys /\ j.offer \in Offers
         /\ j.kind = "Organisation" => j.key \in Slugs
BY DEF Job

LEMMA NoRowsType == NoRows \in Database
BY DEF NoRows, Database, Tables

(* What the first flush of a deal writes has the types of the columns.     *)
LEMMA DealRowsType ==
  ASSUME NEW j \in Job, j.kind = "Deal", Acceptable(j.user, j.offer)
  PROVE  DealRows(j, j.user) \in Database
<1>1. j.id \in Nat /\ j.user \in Users /\ j.offer \in Offers
  BY JobTypes
<1>2. [id |-> j.id, creator |-> j.user, offer |-> j.offer,
       status |-> "DRAFT", version |-> 1] \in Deal
  BY <1>1 DEF Deal, DealStatus
<1>3. [deal |-> j.id, user |-> j.user, role |-> "BUYER",
       wallet |-> j.offer.wallet] \in Party
  BY <1>1 DEF Party, DealRole, Acceptable
<1>4. ASSUME NEW i \in DOMAIN j.offer.amounts
      PROVE  [deal |-> j.id, position |-> i, amount |-> j.offer.amounts[i]]
               \in [deal : Nat, position : 1..50, amount : 1..BigInt]
  BY <1>1, AmountsFit
<1> QED
  BY <1>2, <1>3, <1>4, NoRowsType DEF DealRows, Database, NoRows, Tables

LEMMA DescribedType ==
  ASSUME NEW j \in Job, j.kind = "Deal", NEW rows \in Database
  PROVE  Described(rows, j) \in Database
<1>1. j.id \in Nat /\ j.key \in Keys
  BY JobTypes
<1>2. FirstItem(j.id) \in
        [deal : Nat, type : {"DEAL_CREATED"}, previous : {None}]
  BY <1>1 DEF FirstItem
<1> QED BY <1>1, <1>2 DEF Described, Database

LEMMA MergedType ==
  ASSUME NEW a \in Database, NEW b \in Database
  PROVE  [t \in Tables |-> a[t] \cup b[t]] \in Database
BY DEF Database, Tables

(* A session starts with a job of its kind.                                *)
LEMMA BeginTypes ==
  ASSUME TypeOK, NEW r \in Workers,
         NEW kind, NEW user, NEW key, NEW offer, NEW ids, ids \subseteq Nat,
         [kind |-> kind, id |-> requests, user |-> user, key |-> key,
          offer |-> offer] \in Job,
         Begin(r, kind, user, key, offer, ids)
  PROVE  TypeOK'
<1>1. PICK j : j = [kind |-> kind, id |-> requests, user |-> user, key |-> key,
                    offer |-> offer]
  OBVIOUS
<1>2. j \in Job
  BY <1>1
<1>3. /\ pc' = [pc EXCEPT ![r] = "keyed"]
      /\ job' = [job EXCEPT ![r] = j]
      /\ \E id \in FirstOf(ids) : found' = [found EXCEPT ![r] = id]
      /\ requests' = requests + 1
      /\ UNCHANGED <<db, draft, answers>>
  BY <1>1 DEF Begin
<1>4. FirstOf(ids) \subseteq Nat \cup {None}
  BY DEF FirstOf
<1>5. db' \in Database /\ draft' \in [Workers -> Database]
        /\ answers' \subseteq [key : Keys, deal : Nat, at : Nat]
  BY <1>3 DEF TypeOK
<1>6. pc' \in [Workers -> {"idle", "keyed", "inserted", "complete"}]
        /\ requests' \in Nat
  BY <1>3 DEF TypeOK
<1>7. /\ job' \in [Workers -> Job \cup {None}]
      /\ \A q \in Workers : pc'[q] # "idle" => job'[q] \in Job
  BY <1>2, <1>3 DEF TypeOK
<1>8. found' \in [Workers -> Nat \cup {None}]
  BY <1>3, <1>4 DEF TypeOK
<1> QED BY <1>5, <1>6, <1>7, <1>8 DEF TypeOK

LEMMA FlushTypes ==
  ASSUME TypeOK, NEW r \in Workers, pc[r] # "idle",
         NEW to \in {"inserted", "complete"}, NEW rows \in Database,
         Flush(r, to, rows), UNCHANGED db
  PROVE  TypeOK'
<1>1. /\ pc' = [pc EXCEPT ![r] = to]
      /\ draft' = [draft EXCEPT ![r] = rows]
      /\ UNCHANGED <<db, job, found, answers, requests>>
  BY DEF Flush
<1>2. db' \in Database /\ requests' \in Nat
        /\ answers' \subseteq [key : Keys, deal : Nat, at : Nat]
        /\ found' \in [Workers -> Nat \cup {None}]
        /\ job' \in [Workers -> Job \cup {None}]
  BY <1>1 DEF TypeOK
<1>3. draft' \in [Workers -> Database]
  BY <1>1 DEF TypeOK
<1>4. /\ pc' \in [Workers -> {"idle", "keyed", "inserted", "complete"}]
      /\ \A q \in Workers : pc'[q] # "idle" => job'[q] \in Job
  BY <1>1 DEF TypeOK
<1> QED BY <1>2, <1>3, <1>4 DEF TypeOK

LEMMA EndTypes ==
  ASSUME TypeOK, NEW r \in Workers, EndSession(r), db' \in Database,
         \/ UNCHANGED answers
         \/ /\ job[r] \in Job /\ job[r].kind = "Deal"
            /\ \E deal \in Nat : Answered(r, deal)
  PROVE  TypeOK'
<1>1. /\ pc' = [pc EXCEPT ![r] = "idle"]
      /\ job' = [job EXCEPT ![r] = None]
      /\ found' = [found EXCEPT ![r] = None]
      /\ draft' = [draft EXCEPT ![r] = NoRows]
      /\ requests' = requests
  BY DEF EndSession
<1>2. draft' \in [Workers -> Database]
  BY <1>1, NoRowsType DEF TypeOK
<1>3. /\ job' \in [Workers -> Job \cup {None}]
      /\ found' \in [Workers -> Nat \cup {None}]
      /\ requests' \in Nat
  BY <1>1 DEF TypeOK
<1>4. /\ pc' \in [Workers -> {"idle", "keyed", "inserted", "complete"}]
      /\ \A q \in Workers : pc'[q] # "idle" => job'[q] \in Job
  BY <1>1 DEF TypeOK
<1>5. answers' \subseteq [key : Keys, deal : Nat, at : Nat]
  <2>1. requests \in Nat /\ answers \subseteq [key : Keys, deal : Nat, at : Nat]
    BY DEF TypeOK
  <2>2. CASE UNCHANGED answers
    BY <2>1, <2>2
  <2>3. CASE /\ job[r] \in Job /\ job[r].kind = "Deal"
             /\ \E deal \in Nat : Answered(r, deal)
    <3>1. job[r].key \in Keys
      BY <2>3, JobTypes
    <3> QED BY <2>1, <2>3, <3>1 DEF Answered
  <2> QED BY <2>2, <2>3
<1> QED BY <1>2, <1>3, <1>4, <1>5 DEF TypeOK

LEMMA TypeStep == TypeOK /\ [Next]_vars => TypeOK'
<1> SUFFICES ASSUME TypeOK, [Next]_vars
             PROVE  TypeOK'
  OBVIOUS
<1>1. ASSUME NEW r \in Workers, BeginDeal(r)
      PROVE  TypeOK'
  <2>1. PICK u \in Users, k \in Keys, o \in Offers :
          Begin(r, "Deal", u, k, o, DealsUnder(k))
    BY <1>1 DEF BeginDeal
  <2>2. DealsUnder(k) \subseteq Nat
    BY DEF DealsUnder, TypeOK, Database
  <2>3. [kind |-> "Deal", id |-> requests, user |-> u, key |-> k,
         offer |-> o] \in Job
    BY DEF TypeOK, Job
  <2> QED BY <2>1, <2>2, <2>3, BeginTypes
<1>2. ASSUME NEW r \in Workers, BeginOrganisation(r)
      PROVE  TypeOK'
  <2>1. PICK u \in Users, s \in Slugs :
          Begin(r, "Organisation", u, s, None, OrganisationsUnder(s))
    BY <1>2 DEF BeginOrganisation
  <2>2. OrganisationsUnder(s) \subseteq Nat
    BY DEF OrganisationsUnder, TypeOK, Database
  <2>3. [kind |-> "Organisation", id |-> requests, user |-> u, key |-> s,
         offer |-> None] \in Job
    BY DEF TypeOK, Job
  <2> QED BY <2>1, <2>2, <2>3, BeginTypes
<1>3. ASSUME NEW r \in Workers, AnswerExisting(r)
      PROVE  TypeOK'
  <2>1. /\ job[r] \in Job /\ job[r].kind = "Deal"
        /\ found[r] \in Nat
    BY <1>3 DEF AnswerExisting, At, TypeOK
  <2> QED BY <1>3, <2>1, EndTypes DEF AnswerExisting, TypeOK
<1>4. ASSUME NEW r \in Workers, InsertDeal(r)
      PROVE  TypeOK'
  <2>1. /\ job[r] \in Job /\ job[r].kind = "Deal" /\ pc[r] # "idle"
        /\ Acceptable(job[r].user, job[r].offer)
        /\ Flush(r, "inserted", DealRows(job[r], job[r].user))
        /\ UNCHANGED db
    BY <1>4 DEF InsertDeal, At, TypeOK
  <2> QED BY <2>1, DealRowsType, FlushTypes
<1>5. ASSUME NEW r \in Workers, DescribeDeal(r)
      PROVE  TypeOK'
  <2>1. /\ job[r] \in Job /\ job[r].kind = "Deal" /\ pc[r] # "idle"
        /\ draft[r] \in Database
        /\ Flush(r, "complete", Described(draft[r], job[r]))
        /\ UNCHANGED db
    BY <1>5 DEF DescribeDeal, At, TypeOK
  <2> QED BY <2>1, DescribedType, FlushTypes
<1>6. ASSUME NEW r \in Workers, InsertOrganisation(r)
      PROVE  TypeOK'
  <2>1. /\ job[r] \in Job /\ job[r].kind = "Organisation" /\ pc[r] # "idle"
        /\ UNCHANGED db
        /\ Flush(r, "inserted",
             [NoRows EXCEPT !["organisations"] =
                {[id |-> job[r].id, slug |-> job[r].key, owner |-> job[r].user]}])
    BY <1>6 DEF InsertOrganisation, At, TypeOK
  <2>2. [NoRows EXCEPT !["organisations"] =
           {[id |-> job[r].id, slug |-> job[r].key, owner |-> job[r].user]}]
          \in Database
    BY <2>1, JobTypes, NoRowsType DEF Database
  <2> QED BY <2>1, <2>2, FlushTypes
<1>7. ASSUME NEW r \in Workers, AddOwner(r)
      PROVE  TypeOK'
  <2>1. /\ job[r] \in Job /\ pc[r] # "idle"
        /\ draft[r] \in Database
        /\ UNCHANGED db
        /\ Flush(r, "complete",
             [draft[r] EXCEPT !["members"] =
                {[organisation |-> job[r].id, user |-> job[r].user,
                  role |-> "OWNER"]}])
    BY <1>7 DEF AddOwner, At, TypeOK
  <2>2. [draft[r] EXCEPT !["members"] =
           {[organisation |-> job[r].id, user |-> job[r].user,
             role |-> "OWNER"]}] \in Database
    BY <2>1, JobTypes DEF Database
  <2> QED BY <2>1, <2>2, FlushTypes
<1>8. ASSUME NEW r \in Workers, Commit(r)
      PROVE  TypeOK'
  <2>1. /\ job[r] \in Job
        /\ db \in Database /\ draft[r] \in Database
        /\ db' = [t \in Tables |-> db[t] \cup draft[r][t]]
        /\ EndSession(r)
        /\ IF job[r].kind = "Deal" THEN Answered(r, job[r].id)
           ELSE UNCHANGED answers
    BY <1>8 DEF Commit, TypeOK
  <2>2. db' \in Database
    BY <2>1, MergedType
  <2>3. job[r].id \in Nat
    BY <2>1, JobTypes
  <2> QED BY <2>1, <2>2, <2>3, EndTypes
<1>9. ASSUME NEW r \in Workers, Refuse(r) \/ Abort(r)
      PROVE  TypeOK'
  BY <1>9, EndTypes DEF Refuse, Abort, TypeOK
<1>10. CASE UNCHANGED vars
  BY <1>10 DEF vars, TypeOK
<1> QED
  BY <1>1, <1>2, <1>3, <1>4, <1>5, <1>6, <1>7, <1>8, <1>9, <1>10 DEF Next, Work

(* The tables hold what their columns can, every draft included, and a     *)
(* session at work knows what for.  In particular no amount exceeds a      *)
(* BIGINT: it is part of a total that does not.                            *)
THEOREM CreationTypeCorrect == Spec => []TypeOK
<1>1. Init => TypeOK
  BY NoRowsType DEF Init, TypeOK
<1> QED BY <1>1, TypeStep, PTL DEF Spec

---------------------------------------------------------------------------
(* The deal the settlement starts from                                     *)

(* What InsertDeal demands is known of a request's job from then on, and   *)
(* of the deal it has committed.                                           *)
Demanded ==
  /\ \A d \in db["deals"] : d.offer \in Offers /\ Acceptable(d.creator, d.offer)
  /\ \A r \in Workers :
       pc[r] \in {"inserted", "complete"} /\ job[r].kind = "Deal" =>
         Acceptable(job[r].user, job[r].offer)

FitInv == CreationInv /\ TypeOK /\ Demanded

(* The rows of an acceptable deal add up to its total: each milestone has  *)
(* a position of its own.                                                  *)
LEMMA MilestonesAddUp ==
  ASSUME NEW d, d.offer \in Offers, NEW u, Acceptable(u, d.offer)
  PROVE  LET mine == DealRows(d, u)["milestones"] IN
         ValidAllocations(d.offer.total, mine, [m \in mine |-> m.amount])
<1>1. PICK o, mine, f :
        /\ o = d.offer
        /\ mine = DealRows(d, u)["milestones"]
        /\ f = [m \in mine |-> m.amount]
  OBVIOUS
<1>2. PICK P, e, h :
        /\ P = DOMAIN o.amounts
        /\ e = o.amounts
        /\ h = [i \in P |-> [deal |-> d.id, position |-> i, amount |-> e[i]]]
  OBVIOUS
<1>3. /\ IsFiniteSet(P)
      /\ \A i \in P : e[i] \in Nat /\ e[i] > 0
  BY <1>1, <1>2, AmountsFit
<1>4. P # {} /\ SumOver(e, P) = o.total
  BY <1>1, <1>2, AllocationsAddUp DEF Acceptable
<1>5. mine = {[deal |-> d.id, position |-> i, amount |-> e[i]] : i \in P}
  BY <1>1, <1>2, InsertedTables
<1>6. /\ \A i \in P : h[i] \in mine /\ h[i].position = i /\ h[i].amount = e[i]
      /\ \A m \in mine : \E i \in P : m = h[i]
  BY <1>2, <1>5
<1>7. /\ \A i \in P : h[i] \in mine
      /\ \A m \in mine : \E i \in P : m = h[i]
      /\ \A i, j \in P : h[i] = h[j] => i = j
      /\ \A i \in P : e[i] \in Nat /\ f[h[i]] = e[i]
  BY <1>1, <1>3, <1>6
<1>8. SumOver(f, mine) = SumOver(e, P)
  BY <1>3, <1>7, SumOfImage
<1>9. mine # {} /\ \A m \in mine : f[m] > 0
  BY <1>3, <1>4, <1>7
<1>10. ValidAllocations(o.total, mine, f)
  BY <1>4, <1>8, <1>9, AllocationsAddUp
<1> QED BY <1>1, <1>10

LEMMA FitInvFits == FitInv => FitToSettle
<1> SUFFICES ASSUME FitInv, NEW d \in db["deals"]
             PROVE  LET mine == RowsOf("milestones", d.id) IN
                    /\ ValidAllocations(d.offer.total, mine,
                                        [m \in mine |-> m.amount])
                    /\ d.offer.total <= BigInt
                    /\ \A p \in RowsOf("parties", d.id) :
                         p.wallet # None => p.wallet \in Linked[p.user]
  BY DEF FitToSettle
<1>1. d.offer \in Offers /\ Acceptable(d.creator, d.offer)
  BY DEF FitInv, Demanded
<1>2. /\ RowsOf("milestones", d.id) = DealRows(d, d.creator)["milestones"]
      /\ RowsOf("parties", d.id) = DealRows(d, d.creator)["parties"]
  BY DEF FitInv, CreationInv, DealsComplete
<1>3. PICK mine : mine = RowsOf("milestones", d.id)
  OBVIOUS
<1>4. ValidAllocations(d.offer.total, mine, [m \in mine |-> m.amount])
  <2>1. PICK rows : rows = DealRows(d, d.creator)["milestones"]
    OBVIOUS
  <2>2. ValidAllocations(d.offer.total, rows, [m \in rows |-> m.amount])
    BY <1>1, <2>1, MilestonesAddUp
  <2> QED BY <1>2, <1>3, <2>1, <2>2
<1>5. \A p \in RowsOf("parties", d.id) :
        p.wallet # None => p.wallet \in Linked[p.user]
  BY <1>1, <1>2, InsertedTables DEF Acceptable
<1>6. d.offer.total <= BigInt
  BY <1>1 DEF Acceptable
<1> QED BY <1>3, <1>4, <1>5, <1>6

LEMMA DemandedStep == FitInv /\ [Next]_vars => Demanded'
<1> SUFFICES ASSUME FitInv, [Next]_vars
             PROVE  Demanded'
  OBVIOUS
<1>0. Shape
  BY DEF FitInv, CreationInv
<1>1. ASSUME NEW r \in Workers, BeginDeal(r) \/ BeginOrganisation(r)
      PROVE  Demanded'
  <2>1. /\ db' = db /\ pc'[r] = "keyed"
        /\ \A q \in Workers : q # r => pc'[q] = pc[q] /\ job'[q] = job[q]
    BY <1>0, <1>1 DEF BeginDeal, BeginOrganisation, Begin, Shape
  <2> QED BY <2>1 DEF FitInv, Demanded
<1>2. ASSUME NEW r \in Workers, InsertDeal(r)
      PROVE  Demanded'
  <2>1. /\ db' = db /\ job' = job
        /\ Acceptable(job[r].user, job[r].offer)
        /\ \A q \in Workers : q # r => pc'[q] = pc[q]
    BY <1>0, <1>2 DEF InsertDeal, Flush, Shape
  <2> QED BY <2>1 DEF FitInv, Demanded
<1>3. ASSUME NEW r \in Workers,
             DescribeDeal(r) \/ InsertOrganisation(r) \/ AddOwner(r)
      PROVE  Demanded'
  <2>1. /\ db' = db /\ job' = job
        /\ job[r].kind = "Deal" => pc[r] = "inserted"
        /\ \A q \in Workers : q # r => pc'[q] = pc[q]
    BY <1>0, <1>3
    DEF DescribeDeal, InsertOrganisation, AddOwner, At, Flush, Shape
  <2> QED BY <2>1 DEF FitInv, Demanded
<1>4. ASSUME NEW r \in Workers, EndSession(r),
             \A d \in db'["deals"] :
               \/ d \in db["deals"]
               \/ /\ pc[r] = "complete" /\ job[r].kind = "Deal"
                  /\ d.creator = job[r].user /\ d.offer = job[r].offer
      PROVE  Demanded'
  <2>1. /\ pc'[r] = "idle"
        /\ \A q \in Workers : q # r => pc'[q] = pc[q] /\ job'[q] = job[q]
    BY <1>0, <1>4 DEF EndSession, Shape
  <2>2. ASSUME pc[r] = "complete", job[r].kind = "Deal"
        PROVE  /\ job[r].offer \in Offers
               /\ Acceptable(job[r].user, job[r].offer)
    BY <2>2, JobTypes DEF FitInv, TypeOK, Demanded
  <2> QED BY <1>4, <2>1, <2>2 DEF FitInv, Demanded
<1>5. ASSUME NEW r \in Workers, Commit(r)
      PROVE  Demanded'
  <2>1. /\ pc[r] = "complete" /\ EndSession(r)
        /\ job[r].kind \in {"Deal", "Organisation"}
        /\ db'["deals"] = db["deals"] \cup draft[r]["deals"]
    BY <1>5 DEF Commit, FitInv, CreationInv, OwnIds, Tables
  <2>2. ASSUME NEW d \in draft[r]["deals"]
        PROVE  /\ job[r].kind = "Deal"
               /\ d.creator = job[r].user /\ d.offer = job[r].offer
    <3>1. CASE job[r].kind = "Organisation"
      BY <2>1, <2>2, <3>1 DEF FitInv, CreationInv, Drafted
    <3>2. CASE job[r].kind = "Deal"
      <4>1. draft[r] = Described(DealRows(job[r], job[r].user), job[r])
        BY <2>1, <3>2 DEF FitInv, CreationInv, Drafted
      <4>2. draft[r]["deals"] = DealRows(job[r], job[r].user)["deals"]
        BY <4>1, InsertedTables, DescribedTables
      <4> QED BY <2>2, <3>2, <4>2, InsertedTables
    <3> QED BY <2>1, <3>1, <3>2
  <2> QED BY <1>4, <2>1, <2>2
<1>6. ASSUME NEW r \in Workers, AnswerExisting(r) \/ Refuse(r) \/ Abort(r)
      PROVE  Demanded'
  <2>1. EndSession(r) /\ db' = db
    BY <1>6 DEF AnswerExisting, Refuse, Abort
  <2> QED BY <1>4, <2>1
<1>7. CASE UNCHANGED vars
  BY <1>7 DEF vars, FitInv, Demanded
<1> QED
  BY <1>1, <1>2, <1>3, <1>5, <1>6, <1>7 DEF Next, Work

(* Every deal anybody can see is one the settlement can start from: its    *)
(* stored milestones add up to its total, which the column holds, and its  *)
(* buyer pays from a wallet linked to him.                                 *)
THEOREM DealsFitToSettle == Spec => []FitToSettle
<1>1. Init => FitInv
  <2>1. ASSUME Init PROVE TypeOK /\ Demanded
    <3>1. TypeOK
      BY <2>1, NoRowsType DEF Init, TypeOK
    <3>2. Demanded
      BY <2>1 DEF Init, Demanded, NoRows, Tables
    <3> QED BY <3>1, <3>2
  <2> QED BY <2>1, InitCreationInv DEF FitInv
<1>2. FitInv /\ [Next]_vars => FitInv'
  BY CreationStep, TypeStep, DemandedStep DEF FitInv
<1> QED BY <1>1, <1>2, FitInvFits, PTL DEF Spec
==========================================================================
