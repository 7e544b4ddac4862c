------------------------- MODULE ChainReaderProofs -------------------------
(***************************************************************************)
(* Theorems about ChainReader, for every configuration of endpoints and    *)
(* every list of items that an endpoint may reply with.                    *)
(***************************************************************************)
EXTENDS ChainReader, FiniteSetTheorems, SequenceTheorems, TLAPS

---------------------------------------------------------------------------
(* Sorting a batch                                                         *)

(* Every item has a place of its own.                                      *)
LEMMA Places ==
  ASSUME NEW n \in Nat, NEW items \in Seq(Items), Len(items) = n
  PROVE  /\ \A i \in 1..n : Place(items, i) \in 1..n
         /\ \A i, j \in 1..n :
              Place(items, i) = Place(items, j) => i = j
         /\ \A k \in 1..n : \E i \in 1..n : Place(items, i) = k
<1>0. PICK ids \in [1..n -> Int] : \A i \in 1..n : ids[i] = items[i].id
  <2>1. \A i \in 1..n : items[i].id \in Int
    <3>1. \A i \in 1..n : items[i] \in Items
      BY ElementOfSeq
    <3> QED BY <3>1, Zenon DEF Items
  <2>2. [i \in 1..n |-> items[i].id] \in [1..n -> Int]
    BY <2>1
  <2> QED BY <2>2
<1> DEFINE Before(i) ==
             {j \in 1..n : ids[j] < ids[i] \/ (ids[j] = ids[i] /\ j <= i)}
<1>1. \A i \in 1..n : Place(items, i) = Cardinality(Before(i))
  <2> TAKE i \in 1..n
  <2>1. DOMAIN items = 1..n
    BY LenProperties
  <2>2. {j \in DOMAIN items :
           items[j].id < items[i].id \/ (items[j].id = items[i].id /\ j <= i)}
          = Before(i)
    BY <1>0, <2>1
  <2> QED BY <2>2 DEF Place
<1>2. IsFiniteSet(1..n) /\ Cardinality(1..n) = n
  <2>1. Cardinality(1..n) = IF 1 > n THEN 0 ELSE n - 1 + 1
    BY FS_Interval
  <2> QED BY <2>1, FS_Interval
<1>3. \A i \in 1..n :
        /\ IsFiniteSet(Before(i))
        /\ Cardinality(Before(i)) \in 1..n
  <2> TAKE i \in 1..n
  <2>1. Before(i) \subseteq 1..n /\ i \in Before(i)
    OBVIOUS
  <2> HIDE DEF Before
  <2>2. IsFiniteSet(Before(i)) /\ Cardinality(Before(i)) <= n
    BY <1>2, <2>1, FS_Subset
  <2>3. Cardinality(Before(i)) \in Nat /\ Cardinality(Before(i)) # 0
    BY <2>1, <2>2, FS_CardinalityType, FS_EmptySet
  <2> QED BY <2>2, <2>3
<1>4. ASSUME NEW i \in 1..n, NEW j \in 1..n,
             ids[i] < ids[j] \/ (ids[i] = ids[j] /\ i < j)
      PROVE  Cardinality(Before(i)) # Cardinality(Before(j))
  <2>1. Before(i) \subseteq Before(j)
    <3> SUFFICES ASSUME NEW m \in 1..n,
                        ids[m] < ids[i] \/ (ids[m] = ids[i] /\ m <= i)
                 PROVE  ids[m] < ids[j] \/ (ids[m] = ids[j] /\ m <= j)
      OBVIOUS
    <3>1. ids[m] \in Int /\ ids[i] \in Int /\ ids[j] \in Int
      OBVIOUS
    <3> QED BY <1>4, <3>1
  <2>2. j \in Before(j) /\ j \notin Before(i)
    <3>1. ids[i] \in Int /\ ids[j] \in Int
      OBVIOUS
    <3> QED BY <1>4, <3>1
  <2> HIDE DEF Before
  <2> QED BY <1>3, <2>1, <2>2, FS_Subset
<1>5. \A i, j \in 1..n :
        Cardinality(Before(i)) = Cardinality(Before(j)) => i = j
  <2> TAKE i, j \in 1..n
  <2>1. \/ i = j
        \/ ids[i] < ids[j] \/ (ids[i] = ids[j] /\ i < j)
        \/ ids[j] < ids[i] \/ (ids[j] = ids[i] /\ j < i)
    <3>1. ids[i] \in Int /\ ids[j] \in Int
      OBVIOUS
    <3> QED BY <3>1
  <2> HIDE DEF Before
  <2> QED BY <1>4, <2>1
<1> HIDE DEF Before
<1>6. \A k \in 1..n : \E i \in 1..n : Cardinality(Before(i)) = k
  <2> DEFINE place == [i \in 1..n |-> Cardinality(Before(i))]
  <2>1. place \in Injection(1..n, 1..n)
    BY <1>3, <1>5 DEF Injection, IsInjective
  <2>2. place \in Surjection(1..n, 1..n)
    BY <1>2, <2>1, FS_Injection
  <2> QED BY <2>2 DEF Surjection
<1> QED BY <1>1, <1>3, <1>5, <1>6

LEMMA OrderedPlaces ==
  ASSUME NEW n \in Nat, NEW items \in Seq(Items), Len(items) = n
  PROVE  /\ Ordered(items) \in [1..n -> 1..n]
         /\ \A i \in 1..n : Ordered(items)[Place(items, i)] = i
<1>1. DOMAIN items = 1..n
  BY LenProperties
<1>2. Ordered(items) =
        [k \in 1..n |-> CHOOSE i \in 1..n : Place(items, i) = k]
  BY <1>1 DEF Ordered
<1>3. \A k \in 1..n : \E i \in 1..n : Place(items, i) = k
  BY Places
<1>4. \A k \in 1..n :
        LET i == CHOOSE i \in 1..n : Place(items, i) = k
        IN  i \in 1..n /\ Place(items, i) = k
  BY <1>3
<1>5. \A i \in 1..n : Place(items, i) \in 1..n
  BY Places
<1>6. \A i, j \in 1..n : Place(items, i) = Place(items, j) => i = j
  BY Places
<1> QED BY <1>2, <1>4, <1>5, <1>6

(* The sorted answers are those of the items, each at its place.           *)
LEMMA SortedAnswers ==
  ASSUME NEW n \in Nat, NEW items \in Seq(Items), Len(items) = n
  PROVE  /\ Sorted(items) \in Seq(Answers)
         /\ Len(Sorted(items)) = n
         /\ \A i \in 1..n :
              /\ Place(items, i) \in 1..n
              /\ Sorted(items)[Place(items, i)] = items[i].answer
<1>1. /\ Ordered(items) \in [1..n -> 1..n]
      /\ \A i \in 1..n : Ordered(items)[Place(items, i)] = i
  BY OrderedPlaces
<1>2. Sorted(items) = [k \in 1..n |-> items[Ordered(items)[k]].answer]
  BY DEF Sorted
<1>3. \A i \in 1..n : items[i].answer \in Answers
  <2>1. \A i \in 1..n : items[i] \in Items
    BY ElementOfSeq
  <2> QED BY <2>1, Zenon DEF Items
<1>4. Sorted(items) \in [1..n -> Answers]
  BY <1>1, <1>2, <1>3
<1>5. Sorted(items) \in Seq(Answers)
  BY <1>4, SeqDef, Zenon
<1>6. \A i \in 1..n : Place(items, i) \in 1..n
  BY Places
<1>7. Len(Sorted(items)) = n
  <2>1. DOMAIN Sorted(items) = 1..n
    BY <1>4
  <2>2. Len(Sorted(items)) \in Nat /\ DOMAIN Sorted(items) = 1..Len(Sorted(items))
    BY <1>5, LenProperties
  <2> QED BY <2>1, <2>2
<1>8. ASSUME NEW i \in 1..n
      PROVE  Sorted(items)[Place(items, i)] = items[i].answer
  <2>1. Ordered(items)[Place(items, i)] = i /\ Place(items, i) \in 1..n
    BY <1>1, <1>6
  <2> QED BY <1>2, <2>1, Zenon
<1> QED BY <1>5, <1>6, <1>7, <1>8

LEMMA UpTo ==
  ASSUME NEW a \in Int, NEW q \in Int, NEW i \in Int, NEW j \in Int,
         a = q => j = i
  PROVE  (a < q \/ (a = q /\ j <= i)) <=> a <= q
OBVIOUS

(* A batch with the ids that were asked has each item at the place of its  *)
(* id.                                                                     *)
LEMMA Aligned ==
  ASSUME NEW n \in Nat, NEW items \in Seq(Items), Len(items) = n,
         \A q \in 1..n : \E i \in 1..n : items[i].id = q
  PROVE  \A i \in 1..n : Place(items, i) = items[i].id
<1> DEFINE item == [q \in 1..n |-> CHOOSE i \in 1..n : items[i].id = q]
<1>1. \A q \in 1..n : item[q] \in 1..n /\ items[item[q]].id = q
  OBVIOUS
<1> HIDE DEF item
<1>2. item \in Injection(1..n, 1..n)
  <2>1. item \in [1..n -> 1..n]
    BY <1>1 DEF item
  <2>2. \A p, q \in 1..n : item[p] = item[q] => p = q
    BY <1>1, Zenon
  <2> QED BY <2>1, <2>2 DEF Injection, IsInjective
<1>3. \A i \in 1..n : \E q \in 1..n : item[q] = i
  <2>1. IsFiniteSet(1..n)
    BY FS_Interval
  <2>2. item \in Surjection(1..n, 1..n)
    BY <1>2, <2>1, FS_Injection
  <2> QED BY <2>2 DEF Surjection
<1>4. \A j \in 1..n : items[j].id \in 1..n /\ item[items[j].id] = j
  <2> TAKE j \in 1..n
  <2>1. PICK q \in 1..n : item[q] = j
    BY <1>3
  <2> QED BY <1>1, <2>1
<1> SUFFICES ASSUME NEW i \in 1..n
             PROVE  Place(items, i) = items[i].id
  OBVIOUS
<1> DEFINE q == items[i].id
<1>5. q \in 1..n /\ item[q] = i
  BY <1>4
<1>q. items[i].id = q /\ q \in Int
  BY <1>5
<1> HIDE DEF q
<1> DEFINE Before == {j \in 1..n : items[j].id <= q}
<1>6. Place(items, i) = Cardinality(Before)
  <2>1. DOMAIN items = 1..n
    BY LenProperties
  <2>2. ASSUME NEW j \in 1..n
        PROVE  (items[j].id < items[i].id
                  \/ (items[j].id = items[i].id /\ j <= i))
               <=> items[j].id <= q
    <3>1. items[j].id \in 1..n /\ item[items[j].id] = j
      BY <1>4
    <3>2. items[j].id = q => j = i
      BY <1>5, <3>1
    <3> HIDE DEF Before
    <3>3. items[j].id \in Int
      BY <3>1
    <3>4. (items[j].id < q \/ (items[j].id = q /\ j <= i)) <=> items[j].id <= q
      <4>1. i \in Int /\ j \in Int /\ q \in Int
        BY <1>q
      <4> QED BY <3>2, <3>3, <4>1, UpTo, Zenon
    <3> QED BY <1>q, <3>4
  <2>3. {j \in DOMAIN items :
           items[j].id < items[i].id \/ (items[j].id = items[i].id /\ j <= i)}
          = Before
    BY <2>1, <2>2
  <2> QED BY <2>3 DEF Place
<1> DEFINE first == [p \in 1..q |-> item[p]]
<1>7. first \in Bijection(1..q, Before)
  <2>1. \A p \in 1..q : p \in 1..n /\ p <= q /\ first[p] = item[p]
    BY <1>5
  <2>2. ASSUME NEW p \in 1..q PROVE first[p] \in Before
    <3>1. item[p] \in 1..n /\ items[item[p]].id = p
      BY <1>1, <2>1
    <3> QED BY <2>1, <3>1
  <2>3. ASSUME NEW j \in Before
        PROVE  items[j].id \in 1..q /\ first[items[j].id] = j
    <3>1. j \in 1..n /\ items[j].id <= q
      OBVIOUS
    <3>2. items[j].id \in 1..n /\ item[items[j].id] = j
      BY <1>4, <3>1
    <3>3. items[j].id \in 1..q
      BY <1>5, <3>1, <3>2
    <3> QED BY <2>1, <3>2, <3>3
  <2>4. ASSUME NEW p \in 1..q, NEW r \in 1..q, first[p] = first[r]
        PROVE  p = r
    <3>1. items[item[p]].id = p /\ items[item[r]].id = r
      BY <1>1, <2>1
    <3> QED BY <2>1, <2>4, <3>1
  <2>5. first \in Injection(1..q, Before)
    <3> HIDE DEF Before
    <3> QED BY <2>2, <2>4 DEF Injection, IsInjective
  <2>6. first \in Surjection(1..q, Before)
    <3>1. \A j \in Before : \E p \in 1..q : first[p] = j
      BY <2>3
    <3> HIDE DEF Before
    <3> QED BY <2>2, <3>1 DEF Surjection
  <2> QED BY <2>5, <2>6 DEF Bijection
<1>8. Cardinality(1..q) = q
  <2>1. q \in Int /\ q >= 1 /\ 1 \in Int
    BY <1>5
  <2>2. Cardinality(1..q) = IF 1 > q THEN 0 ELSE q - 1 + 1
    BY <2>1, FS_Interval
  <2> QED BY <2>1, <2>2
<1>9. Cardinality(Before) = Cardinality(1..q)
  <2>1. IsFiniteSet(1..q)
    <3>1. q \in Int /\ 1 \in Int
      BY <1>5
    <3>2. \A a, b \in Int : IsFiniteSet(a..b)
      BY FS_Interval, Zenon
    <3> HIDE DEF Before, first
    <3> QED BY <3>1, <3>2, Zenon
  <2>2. ExistsBijection(1..q, Before)
    BY <1>7 DEF ExistsBijection
  <2> HIDE DEF Before
  <2> QED BY <2>1, <2>2, FS_Bijection
<1> QED BY <1>6, <1>8, <1>9 DEF q

---------------------------------------------------------------------------
(* The answers                                                             *)

(* AnswersHold says nothing of a reply that has not been judged yet, so    *)
(* the invariant adds where the answers come from, and that there is no    *)
(* outcome before the end.                                                 *)
ReaderInv ==
  /\ request \in Requests
  /\ pc \in {"asking", "posted", "replied", "done"}
  /\ reply \in Seq(Items)
  /\ values \in Seq(Answers)
  /\ pc = "replied" => values = Sorted(reply)
  /\ pc # "done" => outcome = Pending
  /\ AnswersHold

LEMMA CompleteHolds ==
  ASSUME ReaderInv, pc = "replied", Complete
  PROVE  /\ Len(reply) = Asked(request.op) /\ Len(values) = Asked(request.op)
         /\ \A i \in DOMAIN reply :
              /\ reply[i].answer # Error
              /\ \E k \in DOMAIN values : values[k] = reply[i].answer
              /\ Conforming => values[reply[i].id] = reply[i].answer
<1>1. PICK n \in Nat : Len(reply) = n
  BY LenProperties DEF ReaderInv
<1>2. reply \in Seq(Items) /\ DOMAIN reply = 1..n /\ values = Sorted(reply)
  BY <1>1, LenProperties DEF ReaderInv
<1>3. /\ Len(values) = n /\ values \in Seq(Answers)
      /\ \A i \in 1..n : /\ Place(reply, i) \in 1..n
                         /\ values[Place(reply, i)] = reply[i].answer
  BY <1>1, <1>2, SortedAnswers
<1>4. n = Asked(request.op) /\ DOMAIN values = 1..n
  BY <1>3, LenProperties DEF Complete
<1>5. \A i \in 1..n :
        /\ reply[i].answer # Error
        /\ \E k \in DOMAIN values : values[k] = reply[i].answer
  BY <1>3, <1>4 DEF Complete
<1>6. ASSUME Conforming, NEW i \in 1..n
      PROVE  values[reply[i].id] = reply[i].answer
  <2>1. \A q \in 1..n : \E j \in 1..n : reply[j].id = q
    BY <1>2, <1>4, <1>6 DEF Conforming
  <2>2. Place(reply, i) = reply[i].id
    BY <1>1, <1>2, <2>1, Aligned
  <2> QED BY <1>3, <2>2
<1> QED BY <1>1, <1>2, <1>3, <1>4, <1>5, <1>6

LEMMA InitReaderInv == Init => ReaderInv
BY EmptySeq DEF Init, ReaderInv, AnswersHold, Pending

(* What AnswersHold speaks of.                                             *)
LEMMA AnswersFrame ==
  UNCHANGED <<request, reply, values, outcome>> => (AnswersHold <=> AnswersHold')
BY DEF AnswersHold, Conforming, OnOurContract, Decodable, Confirmed,
       FirstMatch, Matches

(* Until a reply is accepted there is nothing to hold.                     *)
LEMMA NothingAccepted ==
  ASSUME ReaderInv, UNCHANGED request,
         pc' \in {"asking", "posted", "replied", "done"},
         reply' \in Seq(Items), values' \in Seq(Answers),
         pc' = "replied" => values' = Sorted(reply'),
         pc' # "done" => outcome' = Pending,
         outcome'.kind # "Answer"
  PROVE  ReaderInv'
BY DEF ReaderInv, AnswersHold

(* Nor is there when it ends without an answer.                            *)
LEMMA FinishWithout ==
  ASSUME ReaderInv, NEW result, Finish(result), result.kind # "Answer"
  PROVE  ReaderInv'
BY NothingAccepted DEF Finish, ReaderInv

LEMMA TryNextHolds ==
  ASSUME ReaderInv, pc # "done", TryNext
  PROVE  ReaderInv'
<1>1. Pending.kind = "Pending"
  BY DEF Pending
<1> QED BY <1>1, EmptySeq, NothingAccepted DEF TryNext, ReaderInv

LEMMA ReaderStep == ReaderInv /\ [Next]_vars => ReaderInv'
<1> SUFFICES ASSUME ReaderInv, [Next]_vars
             PROVE  ReaderInv'
  OBVIOUS
<1>0. Pending.kind = "Pending" /\ Refused.kind = "Refused"
        /\ Raised.kind = "Raised"
  BY DEF Pending, Refused, Raised
<1>1. CASE Post
  BY <1>0, <1>1, NothingAccepted DEF Post, ReaderInv
<1>2. CASE Receive
  <2>1. reply' \in Seq(Items)
    <3>1. request.op \in {"Status", "Verify"}
      BY DEF ReaderInv, Requests
    <3> QED BY <1>2, <3>1, ReaderAssumption DEF Receive
  <2>2. Len(reply') \in Nat
    BY <2>1, LenProperties
  <2>3. values' \in Seq(Answers)
    BY <1>2, <2>1, <2>2, SortedAnswers DEF Receive
  <2> QED BY <1>0, <1>2, <2>1, <2>3, NothingAccepted DEF Receive, ReaderInv
<1>3. CASE LoseReply \/ Reject
  BY <1>3, TryNextHolds DEF LoseReply, Reject
<1>4. CASE Break \/ BreakStatus \/ RefuseStatus \/ GiveUp
  BY <1>0, <1>4, FinishWithout DEF Break, BreakStatus, RefuseStatus, GiveUp
<1>5. CASE AcceptEvent
  <2>1. PICK i \in DOMAIN values[1].logs :
          /\ FirstMatch(values[1].logs, i)
          /\ Finish([kind |-> "Answer", log |-> i])
    BY <1>5 DEF AcceptEvent
  <2>2. pc = "replied" /\ request.op = "Verify" /\ Complete /\ Confirmed
    BY <1>5 DEF AcceptEvent
  <2>3. /\ UNCHANGED <<request, tried, reply, values>>
        /\ outcome' = [kind |-> "Answer", log |-> i] /\ pc' = "done"
    BY <2>1 DEF Finish
  <2>4. /\ Len(reply) = Asked(request.op) /\ Len(values) = Asked(request.op)
        /\ \A j \in DOMAIN reply :
             /\ reply[j].answer # Error
             /\ \E k \in DOMAIN values : values[k] = reply[j].answer
             /\ Conforming => values[reply[j].id] = reply[j].answer
    BY <2>2, CompleteHolds
  <2>5. Conforming' = Conforming /\ Confirmed' = Confirmed
        /\ FirstMatch(values[1].logs, i)' = FirstMatch(values[1].logs, i)
    BY <2>3 DEF Conforming, Confirmed, FirstMatch, Matches
  <2>6. AnswersHold'
    BY <2>1, <2>2, <2>3, <2>4, <2>5 DEF AnswersHold
  <2> QED BY <2>3, <2>6 DEF ReaderInv
<1>6. CASE AcceptStatus
  <2>1. /\ pc = "replied" /\ request.op = "Status" /\ Complete
        /\ OnOurContract /\ Decodable
        /\ Finish([kind |-> "Answer", log |-> 0])
    BY <1>6 DEF AcceptStatus, Readable
  <2>2. /\ UNCHANGED <<request, tried, reply, values>>
        /\ outcome' = [kind |-> "Answer", log |-> 0] /\ pc' = "done"
    BY <2>1 DEF Finish
  <2>3. /\ Len(reply) = Asked(request.op) /\ Len(values) = Asked(request.op)
        /\ \A j \in DOMAIN reply :
             /\ reply[j].answer # Error
             /\ \E k \in DOMAIN values : values[k] = reply[j].answer
             /\ Conforming => values[reply[j].id] = reply[j].answer
    BY <2>1, CompleteHolds
  <2>4. Conforming' = Conforming /\ OnOurContract' = OnOurContract
        /\ Decodable' = Decodable
    BY <2>2 DEF Conforming, OnOurContract, Decodable
  <2>5. AnswersHold'
    BY <2>1, <2>2, <2>3, <2>4 DEF AnswersHold
  <2> QED BY <2>2, <2>5 DEF ReaderInv
<1>7. CASE UNCHANGED vars
  BY <1>7, AnswersFrame DEF vars, ReaderInv
<1> QED
  BY <1>1, <1>2, <1>3, <1>4, <1>5, <1>6, <1>7 DEF Next

(* What the caller is told is one batch of one endpoint, complete and      *)
(* without an error, of our chain and contract; when its ids are those     *)
(* that were asked, each answer is under its own question; and a verified  *)
(* event is the first matching log of what is taken for a successful call  *)
(* of the escrow.                                                          *)
THEOREM AcceptedAnswersHold == Spec => []AnswersHold
<1>1. ReaderInv => AnswersHold
  BY DEF ReaderInv
<1> QED BY <1>1, InitReaderInv, ReaderStep, PTL DEF Spec

---------------------------------------------------------------------------
(* The refusals                                                            *)

TriedInv ==
  /\ ReaderInv
  /\ tried \in Seq({Urls[i] : i \in DOMAIN Urls})
  /\ RefusedWhenAllFailed

LEMMA InitTriedInv == Init => TriedInv
BY InitReaderInv, EmptySeq
DEF Init, TriedInv, RefusedWhenAllFailed, Pending

(* A step that asks nobody and refuses nothing.                            *)
LEMMA NobodyAsked ==
  ASSUME TriedInv, ReaderInv', UNCHANGED <<request, tried>>,
         outcome'.kind # "Refused"
  PROVE  TriedInv'
BY DEF TriedInv, RefusedWhenAllFailed, Urls, Tried, Configured

(* A step that refuses, with the reason it has.                            *)
LEMMA RefusedFor ==
  ASSUME TriedInv, ReaderInv', UNCHANGED <<request, tried, reply, values>>,
         \/ \A i \in DOMAIN Urls : Tried(Urls[i])
         \/ ~Configured
         \/ request.op = "Status" /\ reply # <<>> /\ ~OnOurContract
  PROVE  TriedInv'
BY DEF TriedInv, RefusedWhenAllFailed, Urls, Tried, Configured, OnOurContract

LEMMA PostStep ==
  ASSUME TriedInv, ReaderInv', Post
  PROVE  TriedInv'
<1> DEFINE S == {Urls[i] : i \in DOMAIN Urls}
<1>1. PICK i \in DOMAIN Urls : NextUrl(i) /\ tried' = Append(tried, Urls[i])
  BY DEF Post
<1>2. tried \in Seq(S) /\ Urls[i] \in S
  BY DEF TriedInv
<1>3. /\ tried' \in Seq(S)
      /\ DOMAIN tried' = 1..(Len(tried) + 1)
      /\ \A j \in DOMAIN tried : tried'[j] = tried[j]
      /\ tried'[Len(tried) + 1] = Urls[i]
      /\ DOMAIN tried = 1..Len(tried)
      /\ Len(tried) \in Nat
  <2> HIDE DEF S
  <2> QED BY <1>1, <1>2, AppendProperties, LenProperties
<1>4. \A j \in DOMAIN tried : tried[j] # Urls[i]
  BY <1>1 DEF NextUrl, Tried
<1>5. \A j, k \in DOMAIN tried : tried[j] = tried[k] => j = k
  BY DEF TriedInv, RefusedWhenAllFailed
<1>6. \A j, k \in DOMAIN tried' : tried'[j] = tried'[k] => j = k
  BY <1>3, <1>4, <1>5
<1>7. outcome'.kind # "Refused" /\ pc' = "posted" /\ Urls' = Urls
  BY DEF Post, TriedInv, ReaderInv, Pending, Urls
<1> QED BY <1>3, <1>6, <1>7 DEF TriedInv, RefusedWhenAllFailed

LEMMA TriedStep == TriedInv /\ [Next]_vars => TriedInv'
<1> SUFFICES ASSUME TriedInv, [Next]_vars
             PROVE  TriedInv'
  OBVIOUS
<1>1. ReaderInv'
  BY ReaderStep DEF TriedInv
<1>2. Pending.kind = "Pending" /\ Raised.kind = "Raised"
  BY DEF Pending, Raised
<1>3. pc # "done" => outcome = Pending
  BY DEF TriedInv, ReaderInv
<1>4. CASE Post
  BY <1>1, <1>4, PostStep
<1>5. CASE Receive
  BY <1>1, <1>2, <1>3, <1>5, NobodyAsked DEF Receive
<1>6. CASE LoseReply \/ Reject
  BY <1>1, <1>2, <1>3, <1>6, NobodyAsked DEF LoseReply, Reject, TryNext
<1>7. CASE Break \/ BreakStatus
  BY <1>1, <1>2, <1>7, NobodyAsked DEF Break, BreakStatus, Finish
<1>8. CASE AcceptEvent \/ AcceptStatus
  BY <1>1, <1>8, NobodyAsked DEF AcceptEvent, AcceptStatus, Finish
<1>9. CASE RefuseStatus
  <2>1. pc = "replied" /\ Complete /\ request.op = "Status" /\ ~OnOurContract
    BY <1>9 DEF RefuseStatus, Readable
  <2>2. Len(reply) = 6
    BY <2>1, CompleteHolds DEF TriedInv, Asked
  <2>3. reply # <<>>
    BY <2>2
  <2> QED BY <1>1, <1>9, <2>1, <2>3, RefusedFor DEF RefuseStatus, Finish
<1>10. CASE GiveUp
  BY <1>1, <1>10, RefusedFor DEF GiveUp, Finish
<1>11. CASE UNCHANGED vars
  BY <1>1, <1>11
  DEF vars, TriedInv, RefusedWhenAllFailed, Urls, Tried, Configured,
      OnOurContract
<1> QED
  BY <1>4, <1>5, <1>6, <1>7, <1>8, <1>9, <1>10, <1>11 DEF Next

(* No endpoint is asked twice, and a refusal means that every endpoint has *)
(* failed, or that the status was read of another chain or contract.       *)
THEOREM RefusalsJustified == Spec => []RefusedWhenAllFailed
<1>1. TriedInv => RefusedWhenAllFailed
  BY DEF TriedInv
<1> QED BY <1>1, InitTriedInv, TriedStep, PTL DEF Spec

---------------------------------------------------------------------------
(* Types                                                                   *)

Outcomes ==
  [kind : {"Pending", "Refused", "Raised", "Answer"}, log : Nat]

TypedInv == TriedInv /\ outcome \in Outcomes

(* The log that is named is the number of one.                             *)
LEMMA AcceptedTyped ==
  ASSUME TypedInv, pc = "replied", Complete
  PROVE  \A i \in DOMAIN values[1].logs : i \in Nat
<1>1. Len(values) \in {3, 6} /\ values \in Seq(Answers)
  BY DEF Complete, Asked, TypedInv, TriedInv, ReaderInv
<1>2. values[1] \in Answers
  BY <1>1
<1>3. values[1].logs \in Seq(Logs)
  BY <1>2 DEF Answers
<1> QED BY <1>3, LenProperties

LEMMA TypedStep == TypedInv /\ [Next]_vars => TypedInv'
<1> SUFFICES ASSUME TypedInv, [Next]_vars
             PROVE  TypedInv'
  OBVIOUS
<1>1. TriedInv'
  BY TriedStep DEF TypedInv
<1>2. Pending \in Outcomes /\ Refused \in Outcomes /\ Raised \in Outcomes
  BY DEF Outcomes, Pending, Refused, Raised
<1>3. CASE Post \/ Receive \/ LoseReply \/ Reject
  BY <1>1, <1>3 DEF Post, Receive, LoseReply, Reject, TryNext, TypedInv
<1>4. ASSUME NEW result \in Outcomes, Finish(result)
      PROVE  TypedInv'
  BY <1>1, <1>4 DEF Finish, TypedInv
<1>5. CASE Break \/ BreakStatus \/ RefuseStatus \/ GiveUp
  BY <1>2, <1>4, <1>5 DEF Break, BreakStatus, RefuseStatus, GiveUp
<1>6. CASE AcceptEvent
  <2>1. PICK i \in DOMAIN values[1].logs :
          Finish([kind |-> "Answer", log |-> i])
    BY <1>6 DEF AcceptEvent
  <2>2. [kind |-> "Answer", log |-> i] \in Outcomes
    BY <1>6, AcceptedTyped DEF AcceptEvent, Outcomes
  <2> QED BY <1>4, <2>1, <2>2
<1>7. CASE AcceptStatus
  <2>1. [kind |-> "Answer", log |-> 0] \in Outcomes
    BY DEF Outcomes
  <2> QED BY <1>4, <1>7, <2>1 DEF AcceptStatus
<1>8. CASE UNCHANGED vars
  BY <1>1, <1>8 DEF vars, TypedInv
<1> QED
  BY <1>3, <1>5, <1>6, <1>7, <1>8 DEF Next

(* Every variable of a read keeps its type; in particular the log that is  *)
(* reported is the number of one, whatever the endpoints have answered.    *)
THEOREM ReaderTypeCorrect == Spec => []TypeOK
<1>1. Init => TypedInv
  BY InitTriedInv DEF Init, TypedInv, Outcomes, Pending
<1>2. TypedInv => TypeOK
  BY DEF TypedInv, TriedInv, ReaderInv, Outcomes, TypeOK
<1> QED BY <1>1, <1>2, TypedStep, PTL DEF Spec
==========================================================================
