--------------------------- MODULE AccountsProofs ---------------------------
(***************************************************************************)
(* Theorems about Accounts, for every set of sessions, emails and login    *)
(* messages: whoever races, an email and a wallet have one account each,   *)
(* and a login belongs to the account of its wallet.                       *)
(***************************************************************************)
EXTENDS Accounts, TLAPS

---------------------------------------------------------------------------
(* Look-ups                                                                *)

LEMMA FoundIn ==
  ASSUME NEW ids \in SUBSET Nat
  PROVE  /\ Found(ids) \in Nat \cup {None}
         /\ Found(ids) = None => ids = {}
         /\ Found(ids) # None => Found(ids) \in ids
<1>1. CASE ids = {}
  BY <1>1 DEF Found
<1>2. CASE ids # {}
  <2>1. Found(ids) \in ids
    BY <1>2 DEF Found
  <2> QED BY <2>1, AccountsAssumption
<1> QED BY <1>1, <1>2

LEMMA UserFound ==
  ASSUME TypeOK, NEW e
  PROVE  /\ UserOfEmail(e) \in Nat \cup {None}
         /\ UserOfEmail(e) = None => \A u \in users : u.email # e
         /\ UserOfEmail(e) # None => \E u \in users : u.id = UserOfEmail(e)
<1> DEFINE ids == {u.id : u \in {v \in users : v.email = e}}
<1>1. ids \in SUBSET Nat
  BY DEF TypeOK, User
<1>2. UserOfEmail(e) = Found(ids)
  BY DEF UserOfEmail
<1>3. /\ Found(ids) \in Nat \cup {None}
      /\ Found(ids) = None => ids = {}
      /\ Found(ids) # None => Found(ids) \in ids
  BY <1>1, FoundIn
<1> QED BY <1>2, <1>3

LEMMA OwnerFound ==
  ASSUME TypeOK, NEW a
  PROVE  /\ OwnerOf(a) \in Nat \cup {None}
         /\ OwnerOf(a) = None => \A i \in identities : i[1] # a
         /\ OwnerOf(a) # None => <<a, OwnerOf(a)>> \in identities
<1> DEFINE ids == {i[2] : i \in {j \in identities : j[1] = a}}
<1>1. ids \in SUBSET Nat
  BY DEF TypeOK
<1>2. OwnerOf(a) = Found(ids)
  BY DEF OwnerOf
<1>3. /\ Found(ids) \in Nat \cup {None}
      /\ Found(ids) = None => ids = {}
      /\ Found(ids) # None => Found(ids) \in ids
  BY <1>1, FoundIn
<1>4. ASSUME OwnerOf(a) # None
      PROVE  <<a, OwnerOf(a)>> \in identities
  <2>1. PICK i \in identities : i[1] = a /\ i[2] = OwnerOf(a)
    BY <1>2, <1>3, <1>4
  <2>2. i = <<a, OwnerOf(a)>>
    BY <2>1 DEF TypeOK
  <2> QED BY <2>2
<1> QED BY <1>2, <1>3, <1>4

---------------------------------------------------------------------------
(* The invariant                                                           *)

(* A session at work has the request its phase needs.                      *)
AtWork(r) ==
  /\ pc[r] # "idle" => job[r] \in Request
  /\ pc[r] = "known" =>
       /\ job[r].kind \in {"Register", "Login"}
       /\ job[r].email \in Emails
       /\ job[r].nonce = None
  /\ pc[r] \in {"nonce", "wallet", "owner"} => job[r].nonce \in Nonces
  /\ pc[r] = "nonce" => job[r].kind \in {"Verify", "Link"}
  /\ pc[r] = "owner" => job[r].kind = "Link"

(* What it has read is still there, since nothing is deleted.              *)
Viewed(r) ==
  /\ pc[r] = "known" /\ view[r].user # None =>
       \E u \in users : u.id = view[r].user
  /\ pc[r] = "wallet" /\ view[r].user # None =>
       <<Address(r), view[r].user>> \in identities
  /\ pc[r] \in {"nonce", "owner"} /\ job[r].kind = "Link" =>
       job[r].user \in Nat /\ \E u \in users : u.id = job[r].user

(* Rows that are whole once they are added to what is committed.           *)
WholeRows(d) ==
  /\ \A u, v \in d.users : u = v
  /\ \A i, j \in d.identities : i = j
  /\ \A u \in d.users : u.email # None \/ \E i \in d.identities : i[2] = u.id
  /\ \A i \in d.identities : \E u \in users \cup d.users : u.id = i[2]
  /\ \A x \in d.logins :
       /\ \E u \in users \cup d.users : u.id = x.user
       /\ x.nonce # None =>
            /\ <<AddressOf[x.nonce], x.user>> \in identities \cup d.identities
            /\ x.nonce \in d.nonces

Whole(r) ==
  /\ pc[r] = "wallet" =>
       draft[r] = [NoDraft EXCEPT !.nonces = {job[r].nonce}]
  /\ WholeRows(draft[r])

(* Rows that a unique constraint would not have together.                  *)
NoEmailTwice(U, V) == \A u \in U, v \in V : u.email # None => u.email # v.email

NoAddressTwice(I, J) == \A i \in I, j \in J : i[1] # j[1]

(* What it has flushed clashes with nothing that is committed...           *)
FreshRows(d) ==
  NoEmailTwice(d.users, users) /\ NoAddressTwice(d.identities, identities)

(* ... and with nothing that another session has flushed.                  *)
ApartRows(d, e) ==
  /\ NoEmailTwice(d.users, e.users)
  /\ NoAddressTwice(d.identities, e.identities)

Fresh(r) == FreshRows(draft[r])

Apart(r, q) == ApartRows(draft[r], draft[q])

Local(r) == AtWork(r) /\ Viewed(r) /\ Whole(r) /\ Fresh(r)

AccountsInv ==
  /\ TypeOK
  /\ OneAccountEach
  /\ WalletLoginsOwned
  /\ \A r \in Workers : Local(r)
  /\ \A r, q \in Workers : r # q => Apart(r, q)

LEMMA EmptyDraft ==
  /\ NoDraft.users = {} /\ NoDraft.identities = {} /\ NoDraft.logins = {}
  /\ NoDraft.nonces = {}
  /\ NoDraft \in Draft /\ NoView \in View
BY DEF NoDraft, NoView, Draft, View

LEMMA InitAccountsInv == Init => AccountsInv
<1> SUFFICES ASSUME Init
             PROVE  AccountsInv
  OBVIOUS
<1>1. TypeOK
  BY EmptyDraft DEF Init, TypeOK, Nonce
<1>2. OneAccountEach /\ WalletLoginsOwned
  BY DEF Init, OneAccountEach, WalletLoginsOwned
<1>3. \A r \in Workers : Local(r)
  BY EmptyDraft
  DEF Init, Local, AtWork, Viewed, Whole, WholeRows, Fresh, FreshRows,
      NoEmailTwice, NoAddressTwice
<1>4. \A r, q \in Workers : Apart(r, q)
  BY EmptyDraft DEF Init, Apart, ApartRows, NoEmailTwice, NoAddressTwice
<1> QED BY <1>1, <1>2, <1>3, <1>4 DEF AccountsInv

---------------------------------------------------------------------------
(* Steps of one session                                                    *)

Phases == {"idle", "known", "nonce", "wallet", "owner", "flushed"}

(* A step that commits nothing and leaves its session as it should be.     *)
LEMMA OwnStep ==
  ASSUME AccountsInv, NEW r \in Workers, UNCHANGED committed,
         requests' \in Nat,
         NEW phase \in Phases, pc' = [pc EXCEPT ![r] = phase],
         NEW j \in Request \cup {None}, job' = [job EXCEPT ![r] = j],
         NEW w \in View, view' = [view EXCEPT ![r] = w],
         NEW d \in Draft, draft' = [draft EXCEPT ![r] = d],
         Local(r)',
         \A q \in Others(r) : Apart(r, q)'
  PROVE  AccountsInv'
<1>1. TypeOK'
  BY DEF AccountsInv, TypeOK, committed, Phases
<1>2. OneAccountEach' /\ WalletLoginsOwned'
  BY DEF AccountsInv, OneAccountEach, WalletLoginsOwned, committed
<1>3. \A q \in Workers : q # r =>
        pc'[q] = pc[q] /\ job'[q] = job[q] /\ view'[q] = view[q]
          /\ draft'[q] = draft[q]
  BY DEF AccountsInv, TypeOK
<1>4. ASSUME NEW q \in Workers, q # r
      PROVE  Local(q)'
  <2>1. Local(q)
    BY DEF AccountsInv
  <2>2. AtWork(q)' /\ Viewed(q)'
    BY <1>3, <1>4, <2>1 DEF Local, AtWork, Viewed, Address, committed
  <2>3. Whole(q)' /\ Fresh(q)'
    BY <1>3, <1>4, <2>1
    DEF Local, Whole, WholeRows, Fresh, FreshRows, NoEmailTwice,
        NoAddressTwice, committed
  <2> QED BY <2>2, <2>3 DEF Local
<1>5. ASSUME NEW p \in Workers, NEW q \in Workers, p # q
      PROVE  Apart(p, q)'
  <2>1. CASE p = r
    BY <1>5, <2>1 DEF Others
  <2>2. CASE q = r
    <3>1. Apart(r, p)'
      BY <1>5, <2>2 DEF Others
    <3>2. TypeOK'
      BY <1>1
    <3> QED BY <2>2, <3>1 DEF Apart, ApartRows, NoEmailTwice, NoAddressTwice
  <2>3. CASE p # r /\ q # r
    BY <1>3, <1>5, <2>3
    DEF AccountsInv, Apart, ApartRows, NoEmailTwice, NoAddressTwice
  <2> QED BY <2>1, <2>2, <2>3
<1> QED BY <1>1, <1>2, <1>4, <1>5 DEF AccountsInv

(* A session that reads on, with the draft it has.                         *)
LEMMA ReadStep ==
  ASSUME AccountsInv, NEW r \in Workers, UNCHANGED <<committed, draft>>,
         requests' \in Nat,
         NEW phase \in Phases, pc' = [pc EXCEPT ![r] = phase],
         phase # "wallet",
         NEW j \in Request \cup {None}, job' = [job EXCEPT ![r] = j],
         NEW w \in View, view' = [view EXCEPT ![r] = w],
         AtWork(r)', Viewed(r)'
  PROVE  AccountsInv'
<1>1. pc'[r] = phase /\ draft[r] \in Draft
        /\ draft' = [draft EXCEPT ![r] = draft[r]]
  BY DEF AccountsInv, TypeOK
<1>2. Whole(r)' /\ Fresh(r)'
  <2>1. UNCHANGED <<users, identities, draft>> /\ Whole(r) /\ Fresh(r)
    BY DEF AccountsInv, Local, committed
  <2>2. Whole(r)'
    BY <1>1, <2>1 DEF Whole, WholeRows
  <2>3. Fresh(r)'
    BY <2>1 DEF Fresh, FreshRows, NoEmailTwice, NoAddressTwice
  <2> QED BY <2>2, <2>3
<1>3. \A q \in Others(r) : Apart(r, q)'
  BY DEF AccountsInv, Others, Apart, ApartRows, NoEmailTwice, NoAddressTwice
<1>4. Local(r)'
  BY <1>2 DEF Local
<1> QED BY <1>1, <1>3, <1>4, OwnStep

(* A flush of rows that are whole and clash with nothing.                  *)
LEMMA FlushStep ==
  ASSUME AccountsInv, NEW r \in Workers, NEW to \in {"wallet", "flushed"},
         NEW d \in Draft, Flush(r, to, d), pc[r] # "idle",
         NEW w \in View, view' = [view EXCEPT ![r] = w],
         to = "wallet" =>
           /\ job[r].nonce \in Nonces
           /\ w.user # None => <<Address(r), w.user>> \in identities
           /\ d = [NoDraft EXCEPT !.nonces = {job[r].nonce}],
         WholeRows(d), FreshRows(d), \A q \in Others(r) : ApartRows(d, draft[q])
  PROVE  AccountsInv'
<1>1. /\ pc' = [pc EXCEPT ![r] = to] /\ draft' = [draft EXCEPT ![r] = d]
      /\ UNCHANGED <<committed, job, requests>>
  BY DEF Flush
<1>2. /\ pc'[r] = to /\ draft'[r] = d /\ view'[r] = w /\ job'[r] = job[r]
      /\ \A q \in Others(r) : draft'[q] = draft[q]
      /\ job' = [job EXCEPT ![r] = job[r]] /\ job[r] \in Request
      /\ requests' \in Nat
  BY <1>1 DEF AccountsInv, TypeOK, Others, Local, AtWork
<1>3. AtWork(r)' /\ Viewed(r)'
  BY <1>1, <1>2 DEF AtWork, Viewed, Address, committed
<1>4. Whole(r)' /\ Fresh(r)'
  <2>1. UNCHANGED <<users, identities>>
    BY <1>1 DEF committed
  <2>2. WholeRows(draft[r])' /\ FreshRows(draft[r])'
    BY <1>2, <2>1 DEF WholeRows, FreshRows, NoEmailTwice, NoAddressTwice
  <2> QED BY <1>2, <2>2 DEF Whole, Fresh
<1>5. \A q \in Others(r) : Apart(r, q)'
  BY <1>2 DEF Apart, ApartRows, NoEmailTwice, NoAddressTwice, Others
<1> QED BY <1>1, <1>2, <1>3, <1>4, <1>5, OwnStep DEF Local, Phases

(* A session that ends without a commit.                                   *)
LEMMA EndStep ==
  ASSUME AccountsInv, NEW r \in Workers, EndSession(r), UNCHANGED committed
  PROVE  AccountsInv'
<1>1. /\ pc' = [pc EXCEPT ![r] = "idle"] /\ job' = [job EXCEPT ![r] = None]
      /\ view' = [view EXCEPT ![r] = NoView]
      /\ draft' = [draft EXCEPT ![r] = NoDraft]
      /\ requests' \in Nat
  BY DEF EndSession, AccountsInv, TypeOK
<1>2. pc'[r] = "idle" /\ draft'[r] = NoDraft
  BY <1>1 DEF AccountsInv, TypeOK
<1>3. Local(r)'
  BY <1>2, EmptyDraft
  DEF Local, AtWork, Viewed, Whole, WholeRows, Fresh, FreshRows, NoEmailTwice,
      NoAddressTwice
<1>4. \A q \in Others(r) : Apart(r, q)'
  BY <1>2, EmptyDraft DEF Apart, ApartRows, NoEmailTwice, NoAddressTwice
<1> QED BY <1>1, <1>3, <1>4, EmptyDraft, OwnStep DEF Phases

---------------------------------------------------------------------------
(* The actions                                                             *)

LEMMA BeginStep ==
  ASSUME AccountsInv, NEW r \in Workers, NEW phase \in {"known", "nonce"},
         NEW kind \in {"Register", "Login", "Verify", "Link"},
         NEW e \in Emails \cup {None}, NEW n \in Nonces \cup {None},
         NEW u \in Nat \cup {None}, NEW loaded \in View,
         Begin(r, phase, kind, e, n, u, loaded),
         phase = "known" =>
           /\ kind \in {"Register", "Login"} /\ e \in Emails /\ n = None
           /\ loaded.user # None => \E v \in users : v.id = loaded.user,
         phase = "nonce" =>
           /\ kind \in {"Verify", "Link"} /\ n \in Nonces
           /\ kind = "Link" => u \in Nat /\ \E v \in users : v.id = u
  PROVE  AccountsInv'
<1> DEFINE j == [kind |-> kind, id |-> requests, email |-> e, nonce |-> n,
                 user |-> u]
<1>1. requests \in Nat
  BY DEF AccountsInv, TypeOK
<1>2. /\ pc' = [pc EXCEPT ![r] = phase] /\ job' = [job EXCEPT ![r] = j]
      /\ view' = [view EXCEPT ![r] = loaded]
      /\ UNCHANGED <<committed, draft>> /\ requests' \in Nat
  BY <1>1 DEF Begin
<1>3. PICK k : k = j
  OBVIOUS
<1>4. /\ k \in Request /\ k.kind = kind /\ k.email = e /\ k.nonce = n
      /\ k.user = u
  BY <1>1, <1>3 DEF Request
<1> HIDE DEF j
<1>5. pc'[r] = phase /\ job'[r] = k /\ view'[r] = loaded /\ users' = users
  BY <1>2, <1>3 DEF AccountsInv, TypeOK, committed
<1>6. AtWork(r)'
  BY <1>4, <1>5 DEF AtWork
<1>7. Viewed(r)'
  BY <1>4, <1>5 DEF Viewed
<1> QED BY <1>2, <1>3, <1>4, <1>6, <1>7, ReadStep DEF Phases

LEMMA BeginsStep ==
  ASSUME AccountsInv, NEW r \in Workers,
         BeginEmail(r) \/ BeginVerify(r) \/ BeginLink(r)
  PROVE  AccountsInv'
<1>1. TypeOK
  BY DEF AccountsInv
<1>2. ASSUME NEW e \in Emails, NEW kind \in {"Register", "Login"},
             Begin(r, "known", kind, e, None, None,
                   [NoView EXCEPT !.user = UserOfEmail(e)])
      PROVE  AccountsInv'
  <2>1. PICK v : v = [NoView EXCEPT !.user = UserOfEmail(e)]
    OBVIOUS
  <2>2. v \in View /\ (v.user # None => \E u \in users : u.id = v.user)
    BY <1>1, <2>1, UserFound DEF NoView, View
  <2> QED BY <1>2, <2>1, <2>2, BeginStep
<1>3. ASSUME NEW n \in Nonces, NEW kind \in {"Verify", "Link"},
             NEW u \in Nat \cup {None},
             kind = "Link" => u \in Nat /\ \E v \in users : v.id = u,
             Begin(r, "nonce", kind, None, n, u,
                   [NoView EXCEPT !.usable = Usable(n)])
      PROVE  AccountsInv'
  <2>1. PICK v : v = [NoView EXCEPT !.usable = Usable(n)]
    OBVIOUS
  <2>2. Usable(n) \in BOOLEAN
    BY DEF Usable
  <2>3. v \in View
    BY <2>1, <2>2 DEF NoView, View
  <2> QED BY <1>3, <2>1, <2>3, BeginStep
<1>4. CASE BeginEmail(r)
  BY <1>2, <1>4 DEF BeginEmail
<1>5. CASE BeginVerify(r)
  BY <1>3, <1>5 DEF BeginVerify
<1>6. CASE BeginLink(r)
  <2>1. PICK n \in Nonces, x \in logins :
          Begin(r, "nonce", "Link", None, n, x.user,
                [NoView EXCEPT !.usable = Usable(n)])
    BY <1>6 DEF BeginLink
  <2>2. x.user \in Nat /\ \E v \in users : v.id = x.user
    BY DEF AccountsInv, TypeOK, Login, OneAccountEach
  <2> QED BY <1>3, <2>1, <2>2
<1> QED BY <1>4, <1>5, <1>6

(* register                                                                *)
LEMMA RegisterStep ==
  ASSUME AccountsInv, NEW r \in Workers, Register(r)
  PROVE  AccountsInv'
<1>1. PICK j : j = job[r]
  OBVIOUS
<1>2. pc[r] = "known" /\ j \in Request /\ j.email \in Emails /\ j.nonce = None
        /\ view[r] \in View
  BY <1>1 DEF Register, At, AccountsInv, TypeOK, Local, AtWork
<1> DEFINE u == [id |-> j.id, email |-> j.email]
           x == [id |-> j.id, user |-> j.id, nonce |-> j.nonce]
           account == [NoDraft EXCEPT !.users = {u}]
           new == [account EXCEPT !.logins = {x}]
           d == [users |-> {u}, identities |-> {}, logins |-> {x},
                 nonces |-> {}]
<1>3. Flush(r, "flushed", d) /\ view' = [view EXCEPT ![r] = view[r]]
  <2>1. Flush(r, "flushed", new) /\ view' = view
    <3>1. NewSession(r, j.id, account)
      BY <1>1 DEF Register
    <3> HIDE DEF account
    <3> QED BY <1>1, <3>1 DEF NewSession
  <2>2. new = d
    <3> HIDE DEF u, x
    <3>1. account = [users |-> {u}, identities |-> {}, logins |-> {},
                     nonces |-> {}]
      BY DEF NoDraft
    <3> HIDE DEF account
    <3> QED BY <3>1
  <2> HIDE DEF new, d
  <2> QED BY <2>1, <2>2 DEF AccountsInv, TypeOK
<1>4. d \in Draft
  <2>1. u \in User
    BY <1>2 DEF Request, User
  <2>2. x \in Login
    BY <1>2 DEF Request, Login
  <2> HIDE DEF u, x
  <2> QED BY <2>1, <2>2 DEF Draft
<1>5. WholeRows(d)
  <2>1. u.id = j.id /\ u.email # None /\ x.user = j.id /\ x.nonce = None
    BY <1>2, AccountsAssumption
  <2> HIDE DEF u, x
  <2> QED BY <2>1 DEF WholeRows
<1>6. FreshRows(d)
  <2>1. \A v \in users : v.email # j.email
    BY <1>1, UserFound DEF Register, EmailInsertable, AccountsInv
  <2> QED BY <2>1 DEF FreshRows, NoEmailTwice, NoAddressTwice
<1>7. \A q \in Others(r) : ApartRows(d, draft[q])
  BY <1>1 DEF Register, EmailFree, ApartRows, NoEmailTwice, NoAddressTwice
<1> HIDE DEF d
<1> QED BY <1>2, <1>3, <1>4, <1>5, <1>6, <1>7, FlushStep

(* A login of a user who is there: login, and a wallet that is known.      *)
LEMMA LoginStep ==
  ASSUME AccountsInv, NEW r \in Workers,
         \/ LogIn(r)
         \/ KnownWallet(r)
  PROVE  AccountsInv'
<1>1. PICK j, w : j = job[r] /\ w = view[r]
  OBVIOUS
<1> DEFINE x == [id |-> j.id, user |-> w.user, nonce |-> j.nonce]
<1>2. /\ pc[r] \in {"known", "wallet"} /\ j \in Request /\ w \in View
      /\ w.user # None
  BY <1>1 DEF LogIn, KnownWallet, At, AccountsInv, TypeOK, Local, AtWork
<1>3. w.user \in Nat /\ x \in Login
  BY <1>2 DEF View, Request, Login
<1>4. PICK d \in Draft :
        /\ d.users = {} /\ d.identities = {} /\ d.logins = {x}
        /\ pc[r] = "wallet" => d.nonces = {j.nonce}
        /\ Flush(r, "flushed", d) /\ view' = view
  <2>1. CASE LogIn(r)
    <3> DEFINE d == [NoDraft EXCEPT !.logins = {x}]
    <3>1. Flush(r, "flushed", d) /\ view' = view /\ pc[r] = "known"
      BY <1>1, <2>1 DEF LogIn, At, NewSession
    <3>2. d.users = {} /\ d.identities = {} /\ d.logins = {x} /\ d \in Draft
      BY <1>3 DEF NoDraft, Draft
    <3> HIDE DEF d
    <3> QED BY <3>1, <3>2
  <2>2. CASE KnownWallet(r)
    <3> DEFINE d == [draft[r] EXCEPT !.logins = {x}]
    <3>1. Flush(r, "flushed", d) /\ view' = view /\ pc[r] = "wallet"
      BY <1>1, <2>2 DEF KnownWallet, NewSession
    <3>2. draft[r] = [NoDraft EXCEPT !.nonces = {j.nonce}] /\ j.nonce \in Nonces
      BY <1>1, <3>1 DEF AccountsInv, Local, Whole, AtWork
    <3>3. d.users = {} /\ d.identities = {} /\ d.logins = {x}
            /\ d.nonces = {j.nonce} /\ d \in Draft
      BY <1>3, <3>2 DEF NoDraft, Draft
    <3> HIDE DEF d
    <3> QED BY <3>1, <3>3
  <2> QED BY <2>1, <2>2
<1>5. /\ \E u \in users : u.id = w.user
      /\ j.nonce # None => /\ pc[r] = "wallet"
                           /\ <<AddressOf[j.nonce], w.user>> \in identities
  <2>1. CASE pc[r] = "known"
    BY <1>1, <1>2, <2>1 DEF AccountsInv, Local, AtWork, Viewed
  <2>2. CASE pc[r] = "wallet"
    <3>1. <<AddressOf[j.nonce], w.user>> \in identities
      BY <1>1, <1>2, <2>2 DEF AccountsInv, Local, Viewed, Address
    <3>2. \E u \in users : u.id = <<AddressOf[j.nonce], w.user>>[2]
      BY <3>1 DEF AccountsInv, OneAccountEach
    <3> QED BY <2>2, <3>1, <3>2
  <2> QED BY <1>2, <2>1, <2>2
<1>6. WholeRows(d)
  BY <1>4, <1>5 DEF WholeRows
<1>7. FreshRows(d) /\ \A q \in Others(r) : ApartRows(d, draft[q])
  BY <1>4 DEF FreshRows, ApartRows, NoEmailTwice, NoAddressTwice
<1>8. view' = [view EXCEPT ![r] = w]
  BY <1>1, <1>4 DEF AccountsInv, TypeOK
<1> QED BY <1>2, <1>4, <1>6, <1>7, <1>8, FlushStep

(* The first flush of wallet_verify: the nonce alone.                      *)
LEMMA FindWalletStep ==
  ASSUME AccountsInv, NEW r \in Workers, FindWallet(r)
  PROVE  AccountsInv'
<1>1. PICK w : w = [view[r] EXCEPT !.user = OwnerOf(Address(r))]
  OBVIOUS
<1>2. PICK d : d = [NoDraft EXCEPT !.nonces = {job[r].nonce}]
  OBVIOUS
<1>3. /\ pc[r] = "nonce" /\ job[r].nonce \in Nonces /\ view[r] \in View
      /\ TypeOK
  BY DEF FindWallet, At, AccountsInv, Local, AtWork, TypeOK
<1>4. /\ w \in View
      /\ w.user # None => <<Address(r), w.user>> \in identities
  BY <1>1, <1>3, OwnerFound DEF View
<1>5. view' = [view EXCEPT ![r] = w] /\ Flush(r, "wallet", d)
  BY <1>1, <1>2 DEF FindWallet
<1>6. /\ d \in Draft
      /\ d.users = {} /\ d.identities = {} /\ d.logins = {}
  BY <1>2, <1>3 DEF NoDraft, Draft
<1>7. WholeRows(d) /\ FreshRows(d) /\ \A q \in Others(r) : ApartRows(d, draft[q])
  BY <1>6 DEF WholeRows, FreshRows, ApartRows, NoEmailTwice, NoAddressTwice
<1> QED BY <1>2, <1>3, <1>4, <1>5, <1>6, <1>7, FlushStep

(* An identity that AddressFree and the constraint let in.                 *)
LEMMA IdentityFits ==
  ASSUME TypeOK, NEW r \in Workers, AddressFree(r), IdentityInsertable(r),
         NEW d, \A u \in d.users : u.email = None,
         \A i \in d.identities : i[1] = Address(r)
  PROVE  FreshRows(d) /\ \A q \in Others(r) : ApartRows(d, draft[q])
<1>1. \A i \in identities : i[1] # Address(r)
  BY OwnerFound DEF IdentityInsertable
<1>2. \A q \in Others(r) : \A i \in draft[q].identities : i[1] # Address(r)
  BY DEF AddressFree
<1>3. FreshRows(d)
  BY <1>1 DEF FreshRows, NoEmailTwice, NoAddressTwice
<1>4. \A q \in Others(r) : ApartRows(d, draft[q])
  BY <1>2 DEF ApartRows, NoEmailTwice, NoAddressTwice
<1> QED BY <1>3, <1>4

(* wallet_verify of an unknown wallet: account, identity and login.        *)
LEMMA NewWalletStep ==
  ASSUME AccountsInv, NEW r \in Workers, NewWallet(r)
  PROVE  AccountsInv'
<1>1. PICK j, a : j = job[r] /\ a = Address(r)
  OBVIOUS
<1>2. /\ pc[r] = "wallet" /\ j \in Request /\ j.nonce \in Nonces
      /\ draft[r] = [NoDraft EXCEPT !.nonces = {j.nonce}]
      /\ view[r] \in View /\ TypeOK
  BY <1>1 DEF NewWallet, AccountsInv, TypeOK, Local, AtWork, Whole
<1>3. j.id \in Nat /\ a = AddressOf[j.nonce] /\ a \in Addresses
  BY <1>1, <1>2 DEF Request, Address, Addresses
<1>4. PICK u \in User : u = [id |-> j.id, email |-> None]
  BY <1>3 DEF User
<1>5. PICK i \in Addresses \X Nat : i = <<a, j.id>>
  BY <1>3
<1>6. PICK x \in Login : x = [id |-> j.id, user |-> j.id, nonce |-> j.nonce]
  <2>1. [id |-> j.id, user |-> j.id, nonce |-> j.nonce] \in Login
    BY <1>2, <1>3 DEF Login
  <2> QED BY <2>1
<1>7. PICK rows : rows = [draft[r] EXCEPT !.users = {u}, !.identities = {i}]
  OBVIOUS
<1>8. PICK d : d = [rows EXCEPT !.logins = {x}]
  OBVIOUS
<1>9. /\ d.users = {u} /\ d.identities = {i} /\ d.logins = {x}
      /\ d.nonces = {j.nonce}
      /\ d \in Draft
  <2>1. draft[r] \in Draft /\ draft[r].nonces = {j.nonce}
    BY <1>2 DEF TypeOK, NoDraft
  <2>2. rows \in Draft /\ rows.users = {u} /\ rows.identities = {i}
          /\ rows.nonces = {j.nonce}
    BY <1>7, <2>1 DEF Draft
  <2> QED BY <1>8, <2>2 DEF Draft
<1>10. Flush(r, "flushed", d) /\ view' = [view EXCEPT ![r] = view[r]]
  <2>1. NewSession(r, j.id, rows)
    BY <1>1, <1>4, <1>5, <1>7 DEF NewWallet
  <2>2. Flush(r, "flushed", d) /\ view' = view
    BY <1>1, <1>6, <1>8, <2>1 DEF NewSession
  <2> QED BY <1>2, <2>2 DEF TypeOK
<1>11. WholeRows(d)
  <2>1. /\ u.id = j.id /\ x.user = j.id /\ x.nonce = j.nonce /\ i[2] = j.id
        /\ <<AddressOf[x.nonce], x.user>> = i
    BY <1>3, <1>4, <1>5, <1>6
  <2> QED BY <1>9, <2>1 DEF WholeRows
<1>12. FreshRows(d) /\ \A q \in Others(r) : ApartRows(d, draft[q])
  <2>1. u.email = None /\ i[1] = Address(r)
    BY <1>1, <1>4, <1>5
  <2>2. AddressFree(r) /\ IdentityInsertable(r)
    BY DEF NewWallet
  <2> QED BY <1>2, <1>9, <2>1, <2>2, IdentityFits
<1> QED BY <1>2, <1>9, <1>10, <1>11, <1>12, FlushStep

(* wallet_link: the look-up, and the flush of both rows.                   *)
LEMMA LinkStep ==
  ASSUME AccountsInv, NEW r \in Workers, FindOwner(r) \/ LinkWallet(r)
  PROVE  AccountsInv'
<1>1. TypeOK /\ requests \in Nat
  BY DEF AccountsInv, TypeOK
<1>2. CASE FindOwner(r)
  <2>1. PICK w : w = [view[r] EXCEPT !.user = OwnerOf(Address(r))]
    OBVIOUS
  <2>2. /\ pc[r] = "nonce" /\ job[r].kind = "Link" /\ job[r] \in Request
        /\ job[r].nonce \in Nonces /\ view[r] \in View
        /\ job[r].user \in Nat /\ \E u \in users : u.id = job[r].user
    BY <1>2 DEF FindOwner, At, AccountsInv, Local, AtWork, Viewed, TypeOK
  <2>3. w \in View
    BY <1>1, <2>1, <2>2, OwnerFound DEF View
  <2>4. /\ view' = [view EXCEPT ![r] = w] /\ pc' = [pc EXCEPT ![r] = "owner"]
        /\ UNCHANGED <<committed, job, draft, requests>>
    BY <1>2, <2>1 DEF FindOwner
  <2>5. pc'[r] = "owner" /\ job' = [job EXCEPT ![r] = job[r]] /\ users' = users
    BY <1>1, <2>4 DEF TypeOK, committed
  <2>6. AtWork(r)' /\ Viewed(r)'
    BY <2>2, <2>4, <2>5 DEF AtWork, Viewed
  <2> QED BY <1>1, <2>2, <2>3, <2>4, <2>5, <2>6, ReadStep DEF Phases
<1>3. CASE LinkWallet(r)
  <2>1. PICK j, a, w : j = job[r] /\ a = Address(r) /\ w = view[r]
    OBVIOUS
  <2>2. PICK d : d = [NoDraft EXCEPT
                        !.nonces = {j.nonce},
                        !.identities = IF w.user = None
                                         THEN {<<a, j.user>>} ELSE {}]
    OBVIOUS
  <2>3. /\ pc[r] = "owner" /\ j.nonce \in Nonces /\ w \in View
        /\ j.user \in Nat /\ \E u \in users : u.id = j.user
    BY <1>3, <2>1 DEF LinkWallet, AccountsInv, Local, AtWork, Viewed, TypeOK
  <2>4. Flush(r, "flushed", d) /\ view' = [view EXCEPT ![r] = w]
    BY <1>1, <1>3, <2>1, <2>2 DEF LinkWallet, TypeOK
  <2>5. <<a, j.user>> \in Addresses \X Nat
    BY <2>1, <2>3 DEF Address, Addresses
  <2>6. /\ d.users = {} /\ d.logins = {} /\ d.nonces = {j.nonce}
        /\ d.identities = IF w.user = None THEN {<<a, j.user>>} ELSE {}
        /\ d \in Draft
    BY <2>2, <2>3, <2>5 DEF NoDraft, Draft
  <2>7. WholeRows(d)
    BY <2>3, <2>6 DEF WholeRows
  <2>8. FreshRows(d) /\ \A q \in Others(r) : ApartRows(d, draft[q])
    <3>1. CASE w.user = None
      BY <1>1, <1>3, <2>1, <2>6, <3>1, IdentityFits DEF LinkWallet
    <3>2. CASE w.user # None
      BY <2>6, <3>2 DEF FreshRows, ApartRows, NoEmailTwice, NoAddressTwice
    <3> QED BY <3>1, <3>2
  <2> QED BY <2>3, <2>4, <2>6, <2>7, <2>8, FlushStep
<1> QED BY <1>2, <1>3

---------------------------------------------------------------------------
(* The commit                                                              *)

(* What one session commits stays whole, and clashes with nobody.          *)
LEMMA CommitStep ==
  ASSUME AccountsInv, NEW r \in Workers, Commit(r)
  PROVE  AccountsInv'
<1>1. PICK d : d = draft[r]
  OBVIOUS
<1>2. /\ users' = users \cup d.users
      /\ identities' = identities \cup d.identities
      /\ logins' = logins \cup d.logins
      /\ nonce' = [n \in Nonces |->
           IF n \in d.nonces THEN [nonce[n] EXCEPT !.status = "CONSUMED"]
                             ELSE nonce[n]]
      /\ pc' = [pc EXCEPT ![r] = "idle"] /\ job' = [job EXCEPT ![r] = None]
      /\ view' = [view EXCEPT ![r] = NoView]
      /\ draft' = [draft EXCEPT ![r] = NoDraft]
      /\ requests' = requests
  BY <1>1 DEF Commit, EndSession
<1>3. TypeOK /\ d \in Draft /\ WholeRows(d) /\ FreshRows(d)
  BY <1>1 DEF AccountsInv, Local, Whole, Fresh, TypeOK
<1>4. /\ d.users \subseteq User /\ d.identities \subseteq Addresses \X Nat
      /\ d.logins \subseteq Login
  BY <1>3 DEF Draft
<1>5. TypeOK'
  <2>1. nonce' \in [Nonces -> Nonce]
    BY <1>2, <1>3 DEF TypeOK, Nonce
  <2>2. /\ users' \subseteq User /\ identities' \subseteq Addresses \X Nat
        /\ logins' \subseteq Login
    BY <1>2, <1>3, <1>4 DEF TypeOK
  <2> QED BY <1>2, <1>3, <2>1, <2>2, EmptyDraft DEF TypeOK
<1>6. OneAccountEach'
  <2>1. OneAccountEach
    BY DEF AccountsInv
  <2>2. \A u, v \in users' : u.email # None /\ u.email = v.email => u = v
    BY <1>2, <1>3, <2>1
    DEF OneAccountEach, WholeRows, FreshRows, NoEmailTwice
  <2>3. \A i, j \in identities' : i[1] = j[1] => i = j
    BY <1>2, <1>3, <2>1
    DEF OneAccountEach, WholeRows, FreshRows, NoAddressTwice
  <2>4. \A u \in users' : u.email # None \/ \E i \in identities' : i[2] = u.id
    BY <1>2, <1>3, <2>1 DEF OneAccountEach, WholeRows
  <2>5. \A i \in identities' : \E u \in users' : u.id = i[2]
    BY <1>2, <1>3, <2>1 DEF OneAccountEach, WholeRows
  <2>6. \A x \in logins' : \E u \in users' : u.id = x.user
    BY <1>2, <1>3, <2>1 DEF OneAccountEach, WholeRows
  <2> QED BY <2>2, <2>3, <2>4, <2>5, <2>6 DEF OneAccountEach
<1>7. WalletLoginsOwned'
  <2> SUFFICES ASSUME NEW x \in logins', x.nonce # None
               PROVE  /\ <<AddressOf[x.nonce], x.user>> \in identities'
                      /\ nonce'[x.nonce].status = "CONSUMED"
    BY DEF WalletLoginsOwned
  <2>1. x.nonce \in Nonces
    BY <1>2, <1>3, <1>4 DEF TypeOK, Login
  <2>2. nonce[x.nonce] \in Nonce
    BY <1>3, <2>1 DEF TypeOK
  <2>3. \/ nonce[x.nonce].status = "CONSUMED"
        \/ x.nonce \in d.nonces
    BY <1>2, <1>3 DEF AccountsInv, WalletLoginsOwned, WholeRows
  <2>4. nonce'[x.nonce].status = "CONSUMED"
    BY <1>2, <2>1, <2>2, <2>3 DEF Nonce
  <2>5. <<AddressOf[x.nonce], x.user>> \in identities'
    BY <1>2, <1>3 DEF AccountsInv, WalletLoginsOwned, WholeRows
  <2> QED BY <2>4, <2>5
<1>8. /\ pc'[r] = "idle" /\ draft'[r] = NoDraft
      /\ \A q \in Workers : q # r =>
           pc'[q] = pc[q] /\ job'[q] = job[q] /\ view'[q] = view[q]
             /\ draft'[q] = draft[q]
  BY <1>2, <1>3 DEF TypeOK
<1>9. ASSUME NEW q \in Workers
      PROVE  Local(q)'
  <2>1. CASE q = r
    BY <1>8, <2>1, EmptyDraft
    DEF Local, AtWork, Viewed, Whole, WholeRows, Fresh, FreshRows,
        NoEmailTwice, NoAddressTwice
  <2>2. CASE q # r
    <3>1. Local(q) /\ Apart(q, r)
      BY <2>2 DEF AccountsInv
    <3>2. AtWork(q)' /\ Viewed(q)'
      BY <1>2, <1>8, <2>2, <3>1 DEF Local, AtWork, Viewed, Address
    <3>3. Whole(q)'
      BY <1>2, <1>8, <2>2, <3>1 DEF Local, Whole, WholeRows
    <3>4. Fresh(q)'
      BY <1>1, <1>2, <1>8, <2>2, <3>1
      DEF Local, Fresh, FreshRows, Apart, ApartRows, NoEmailTwice,
          NoAddressTwice
    <3> QED BY <3>2, <3>3, <3>4 DEF Local
  <2> QED BY <2>1, <2>2
<1>10. ASSUME NEW p \in Workers, NEW q \in Workers, p # q
       PROVE  Apart(p, q)'
  <2>1. CASE p = r \/ q = r
    BY <1>8, <2>1, EmptyDraft DEF Apart, ApartRows, NoEmailTwice, NoAddressTwice
  <2>2. CASE p # r /\ q # r
    BY <1>8, <1>10, <2>2
    DEF AccountsInv, Apart, ApartRows, NoEmailTwice, NoAddressTwice
  <2> QED BY <2>1, <2>2
<1> QED BY <1>5, <1>6, <1>7, <1>9, <1>10 DEF AccountsInv

(* Messages that are asked for and that run out.                           *)
LEMMA NonceStep ==
  ASSUME AccountsInv, NEW n \in Nonces, IssueNonce(n) \/ Overdue(n)
  PROVE  AccountsInv'
<1>1. /\ UNCHANGED <<users, identities, logins, pc, job, view, draft, requests>>
      /\ \/ /\ nonce[n].status = "NONE"
            /\ nonce' = [nonce EXCEPT ![n].status = "OPEN"]
         \/ nonce' = [nonce EXCEPT ![n].overdue = TRUE]
  BY DEF IssueNonce, Overdue
<1>2. nonce \in [Nonces -> Nonce]
  BY DEF AccountsInv, TypeOK
<1>3. /\ nonce' \in [Nonces -> Nonce]
      /\ \A m \in Nonces :
           nonce[m].status = "CONSUMED" => nonce'[m].status = "CONSUMED"
  <2>1. nonce[n] \in Nonce
    BY <1>2
  <2>2. PICK new \in Nonce :
          /\ nonce' = [nonce EXCEPT ![n] = new]
          /\ nonce[n].status = "CONSUMED" => new.status = "CONSUMED"
    <3>1. CASE nonce[n].status = "NONE"
                 /\ nonce' = [nonce EXCEPT ![n].status = "OPEN"]
      <4>1. [nonce[n] EXCEPT !.status = "OPEN"] \in Nonce
        BY <2>1 DEF Nonce
      <4> QED BY <3>1, <4>1
    <3>2. CASE nonce' = [nonce EXCEPT ![n].overdue = TRUE]
      <4>1. /\ [nonce[n] EXCEPT !.overdue = TRUE] \in Nonce
            /\ [nonce[n] EXCEPT !.overdue = TRUE].status = nonce[n].status
        BY <2>1 DEF Nonce
      <4> QED BY <3>2, <4>1
    <3> QED BY <1>1, <3>1, <3>2
  <2> QED BY <1>2, <2>2
<1>4. TypeOK'
  BY <1>1, <1>3 DEF AccountsInv, TypeOK
<1>5. OneAccountEach'
  BY <1>1 DEF AccountsInv, OneAccountEach
<1>6. WalletLoginsOwned'
  <2>1. \A x \in logins : x.nonce \in Nonces \cup {None}
    BY DEF AccountsInv, TypeOK, Login
  <2> QED BY <1>1, <1>3, <2>1 DEF AccountsInv, WalletLoginsOwned
<1>7. \A q \in Workers : Local(q)'
  <2> TAKE q \in Workers
  <2>1. Local(q)
    BY DEF AccountsInv
  <2>2. AtWork(q)' /\ Viewed(q)'
    BY <1>1, <2>1 DEF Local, AtWork, Viewed, Address
  <2>3. Whole(q)' /\ Fresh(q)'
    BY <1>1, <2>1
    DEF Local, Whole, WholeRows, Fresh, FreshRows, NoEmailTwice, NoAddressTwice
  <2> QED BY <2>2, <2>3 DEF Local
<1>8. \A p, q \in Workers : p # q => Apart(p, q)'
  BY <1>1 DEF AccountsInv, Apart, ApartRows, NoEmailTwice, NoAddressTwice
<1> QED BY <1>4, <1>5, <1>6, <1>7, <1>8 DEF AccountsInv

LEMMA AccountsStep == AccountsInv /\ [Next]_vars => AccountsInv'
<1> SUFFICES ASSUME AccountsInv, [Next]_vars
             PROVE  AccountsInv'
  OBVIOUS
<1>1. ASSUME NEW r \in Workers, Refuse(r) \/ Abort(r)
      PROVE  AccountsInv'
  BY <1>1, EndStep DEF Refuse, Abort
<1>2. CASE UNCHANGED vars
  <2>1. TypeOK' /\ OneAccountEach' /\ WalletLoginsOwned'
    BY <1>2
    DEF vars, committed, AccountsInv, TypeOK, OneAccountEach, WalletLoginsOwned
  <2>2. \A q \in Workers : Local(q)'
    BY <1>2
    DEF vars, committed, AccountsInv, Local, AtWork, Viewed, Address, Whole,
        WholeRows, Fresh, FreshRows, NoEmailTwice, NoAddressTwice
  <2>3. \A p, q \in Workers : p # q => Apart(p, q)'
    BY <1>2
    DEF vars, AccountsInv, Apart, ApartRows, NoEmailTwice, NoAddressTwice
  <2> QED BY <2>1, <2>2, <2>3 DEF AccountsInv
<1>3. ASSUME NEW r \in Workers,
             BeginEmail(r) \/ BeginVerify(r) \/ BeginLink(r)
      PROVE  AccountsInv'
  BY <1>3, BeginsStep
<1>4. ASSUME NEW r \in Workers, Register(r)
      PROVE  AccountsInv'
  BY <1>4, RegisterStep
<1>5. ASSUME NEW r \in Workers, LogIn(r) \/ KnownWallet(r)
      PROVE  AccountsInv'
  BY <1>5, LoginStep
<1>6. ASSUME NEW r \in Workers, FindWallet(r)
      PROVE  AccountsInv'
  BY <1>6, FindWalletStep
<1>7. ASSUME NEW r \in Workers, NewWallet(r)
      PROVE  AccountsInv'
  BY <1>7, NewWalletStep
<1>8. ASSUME NEW r \in Workers, FindOwner(r) \/ LinkWallet(r)
      PROVE  AccountsInv'
  BY <1>8, LinkStep
<1>9. ASSUME NEW r \in Workers, Commit(r)
      PROVE  AccountsInv'
  BY <1>9, CommitStep
<1>10. ASSUME NEW n \in Nonces, IssueNonce(n) \/ Overdue(n)
       PROVE  AccountsInv'
  BY <1>10, NonceStep
<1> QED
  BY <1>1, <1>2, <1>3, <1>4, <1>5, <1>6, <1>7, <1>8, <1>9, <1>10 DEF Next

---------------------------------------------------------------------------
(* The theorems                                                            *)

(* Whoever registers, logs in and links at the same time, an email and a   *)
(* wallet have one account each, and no account is left half made.         *)
THEOREM AccountsStayApart == Spec => []OneAccountEach
<1>1. AccountsInv => OneAccountEach
  BY DEF AccountsInv
<1> QED BY <1>1, InitAccountsInv, AccountsStep, PTL DEF Spec

(* A login by wallet belongs to the account of that wallet, and its nonce  *)
(* is spent.                                                               *)
THEOREM WalletLoginsStayOwned == Spec => []WalletLoginsOwned
<1>1. AccountsInv => WalletLoginsOwned
  BY DEF AccountsInv
<1> QED BY <1>1, InitAccountsInv, AccountsStep, PTL DEF Spec

(* Every variable of the accounts keeps its type.                          *)
THEOREM AccountsTypeCorrect == Spec => []TypeOK
<1>1. AccountsInv => TypeOK
  BY DEF AccountsInv
<1> QED BY <1>1, InitAccountsInv, AccountsStep, PTL DEF Spec
==========================================================================
