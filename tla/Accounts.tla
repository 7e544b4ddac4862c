----------------------------- MODULE Accounts -----------------------------
(***************************************************************************)
(* Accounts, wallets and logins: register, login, wallet_nonce,            *)
(* wallet_verify and wallet_link of api/auth.py as concurrent database     *)
(* sessions.  Each looks something up, and inserts what it did not find.   *)
(*                                                                         *)
(*   register, login:  idle -- SELECT user --> known -- flush --> flushed  *)
(*   verify:           idle -- SELECT nonce --> nonce                      *)
(*                     nonce -- FindWallet --> wallet   UPDATE nonce,      *)
(*                                                      SELECT identity    *)
(*                     wallet -- flush --> flushed      INSERTs            *)
(*   link:             idle -- SELECT nonce --> nonce                      *)
(*                     nonce -- FindOwner --> owner     SELECT identity    *)
(*                     owner -- LinkWallet --> flushed  UPDATE, INSERT     *)
(*   flushed -- Commit --> idle                                            *)
(*                                                                         *)
(* Passwords and signatures are right or the request is refused; cookies   *)
(* and tokens are what the client keeps of a login.  refresh_session and   *)
(* logout write no row.  An id is the number of the request that made the  *)
(* row, for its UUID.                                                      *)
(***************************************************************************)
EXTENDS Integers

CONSTANTS
  Workers,      \* request slots
  Emails,       \* emails people register
  Nonces,       \* login messages people ask for
  AddressOf,    \* the wallet address of each message
  MaxRequests,  \* bound: requests that begin
  None

ASSUME AccountsAssumption ==
  /\ MaxRequests \in Nat
  /\ None \notin Nat
  /\ None \notin Emails
  /\ None \notin Nonces

Addresses == {AddressOf[n] : n \in Nonces}

VARIABLES
  users,       \* the rows of users: id, email
  identities,  \* the rows of wallet_identities: pairs of an address and an id
  logins,      \* the rows of sessions: id, user, the nonce that opened it
  nonce,       \* the rows of auth_nonces
  pc, job,     \* how far each database session is, and with what
  view,        \* what it has read
  draft,       \* the rows it has flushed
  requests     \* requests begun so far

committed == <<users, identities, logins, nonce>>
vars      == <<committed, pc, job, view, draft, requests>>

User    == [id : Nat, email : Emails \cup {None}]
Login   == [id : Nat, user : Nat, nonce : Nonces \cup {None}]
Nonce   == [status : {"NONE", "OPEN", "CONSUMED"}, overdue : BOOLEAN]
Request == [kind : {"Register", "Login", "Verify", "Link"}, id : Nat,
            email : Emails \cup {None}, nonce : Nonces \cup {None},
            user : Nat \cup {None}]
View    == [user : Nat \cup {None}, usable : BOOLEAN]
Draft   == [users : SUBSET User, identities : SUBSET (Addresses \X Nat),
            logins : SUBSET Login, nonces : SUBSET Nonces]

NoView  == [user |-> None, usable |-> FALSE]
NoDraft == [users |-> {}, identities |-> {}, logins |-> {}, nonces |-> {}]

Init ==
  /\ users = {}
  /\ identities = {}
  /\ logins = {}
  /\ nonce = [n \in Nonces |-> [status |-> "NONE", overdue |-> FALSE]]
  /\ pc = [r \in Workers |-> "idle"]
  /\ job = [r \in Workers |-> None]
  /\ view = [r \in Workers |-> NoView]
  /\ draft = [r \in Workers |-> NoDraft]
  /\ requests = 0

---------------------------------------------------------------------------
(* Rows as a SELECT sees them, and what an INSERT or an UPDATE waits for   *)

(* The first column of the SELECT's row, or None.                          *)
Found(ids) == IF ids = {} THEN None ELSE CHOOSE id \in ids : TRUE

UserOfEmail(e) == Found({u.id : u \in {v \in users : v.email = e}})

OwnerOf(a) == Found({i[2] : i \in {j \in identities : j[1] = a}})

Address(r) == AddressOf[job[r].nonce]

Others(r) == Workers \ {r}

EmailFree(r) ==
  \A q \in Others(r) : \A u \in draft[q].users : u.email # job[r].email

NonceFree(r) == \A q \in Others(r) : job[r].nonce \notin draft[q].nonces

AddressFree(r) ==
  \A q \in Others(r) : \A i \in draft[q].identities : i[1] # Address(r)

(* The unique constraints, once the rows it waited for are committed.      *)
EmailInsertable(r) == UserOfEmail(job[r].email) = None

(* MUTANT of IdentityInsertable: wallet_identities has no constraint.      *)
IdentityUnconstrained(r) == TRUE

IdentityInsertable(r) == OwnerOf(Address(r)) = None

---------------------------------------------------------------------------
(* Steps of a session                                                      *)

Begin(r, phase, kind, e, n, u, loaded) ==
  /\ pc[r] = "idle"
  /\ requests < MaxRequests
  /\ requests' = requests + 1
  /\ pc' = [pc EXCEPT ![r] = phase]
  /\ job' = [job EXCEPT ![r] = [kind |-> kind, id |-> requests, email |-> e,
                                nonce |-> n, user |-> u]]
  /\ view' = [view EXCEPT ![r] = loaded]
  /\ UNCHANGED <<committed, draft>>

At(r, phase, kind) == pc[r] = phase /\ job[r].kind = kind

Flush(r, to, rows) ==
  /\ pc' = [pc EXCEPT ![r] = to]
  /\ draft' = [draft EXCEPT ![r] = rows]
  /\ UNCHANGED <<committed, job, requests>>

(* _new_session: the row of sessions, with whatever is still unflushed.    *)
NewSession(r, user, rows) ==
  /\ UNCHANGED view
  /\ Flush(r, "flushed",
       [rows EXCEPT !.logins = {[id |-> job[r].id, user |-> user,
                                 nonce |-> job[r].nonce]}])

(* register and login                                                      *)

BeginEmail(r) ==
  \E e \in Emails, kind \in {"Register", "Login"} :
    Begin(r, "known", kind, e, None, None,
          [NoView EXCEPT !.user = UserOfEmail(e)])

Register(r) ==
  /\ At(r, "known", "Register")
  /\ view[r].user = None
  /\ EmailFree(r)
  /\ EmailInsertable(r)
  /\ NewSession(r, job[r].id,
       [NoDraft EXCEPT !.users = {[id |-> job[r].id, email |-> job[r].email]}])

LogIn(r) ==
  /\ At(r, "known", "Login")
  /\ view[r].user # None
  /\ NewSession(r, view[r].user, NoDraft)

(* wallet_nonce: one INSERT; the message is new, so it waits for nobody.   *)
IssueNonce(n) ==
  /\ nonce[n].status = "NONE"
  /\ nonce' = [nonce EXCEPT ![n].status = "OPEN"]
  /\ UNCHANGED <<users, identities, logins, pc, job, view, draft, requests>>

Usable(n) == nonce[n].status = "OPEN" /\ ~nonce[n].overdue

(* wallet_verify, and wallet_link by a user who is logged in.              *)
BeginVerify(r) ==
  \E n \in Nonces :
    Begin(r, "nonce", "Verify", None, n, None,
          [NoView EXCEPT !.usable = Usable(n)])

BeginLink(r) ==
  \E n \in Nonces, x \in logins :
    Begin(r, "nonce", "Link", None, n, x.user,
          [NoView EXCEPT !.usable = Usable(n)])

(* MUTANT of FindWallet: the nonce is not marked consumed.                 *)
FindWalletUnconsumed(r) ==
  /\ At(r, "nonce", "Verify")
  /\ view[r].usable
  /\ view' = [view EXCEPT ![r].user = OwnerOf(Address(r))]
  /\ Flush(r, "wallet", NoDraft)

(* consumed_at is set whatever the row has become since it was read.       *)
FindWallet(r) ==
  /\ At(r, "nonce", "Verify")
  /\ view[r].usable
  /\ NonceFree(r)
  /\ view' = [view EXCEPT ![r].user = OwnerOf(Address(r))]
  /\ Flush(r, "wallet", [NoDraft EXCEPT !.nonces = {job[r].nonce}])

KnownWallet(r) ==
  /\ pc[r] = "wallet"
  /\ view[r].user # None
  /\ NewSession(r, view[r].user, draft[r])

(* MUTANT of NewWallet: the new user has not been flushed, so it has no id *)
(* for the identity.                                                       *)
NewWalletUnflushed(r) ==
  /\ pc[r] = "wallet"
  /\ view[r].user = None
  /\ AddressFree(r)
  /\ IdentityInsertable(r)
  /\ NewSession(r, job[r].id,
       [draft[r] EXCEPT !.users = {[id |-> job[r].id, email |-> None]},
                        !.identities = {<<Address(r), None>>}])

NewWallet(r) ==
  /\ pc[r] = "wallet"
  /\ view[r].user = None
  /\ AddressFree(r)
  /\ IdentityInsertable(r)
  /\ NewSession(r, job[r].id,
       [draft[r] EXCEPT !.users = {[id |-> job[r].id, email |-> None]},
                        !.identities = {<<Address(r), job[r].id>>}])

FindOwner(r) ==
  /\ At(r, "nonce", "Link")
  /\ view[r].usable
  /\ view' = [view EXCEPT ![r].user = OwnerOf(Address(r))]
  /\ pc' = [pc EXCEPT ![r] = "owner"]
  /\ UNCHANGED <<committed, job, draft, requests>>

(* One flush of an UPDATE and an INSERT; that it may hold one of the rows  *)
(* while it waits for the other shows nowhere but in waiting.              *)
LinkWallet(r) ==
  /\ pc[r] = "owner"
  /\ view[r].user \in {None, job[r].user}
  /\ NonceFree(r)
  /\ view[r].user = None => AddressFree(r) /\ IdentityInsertable(r)
  /\ UNCHANGED view
  /\ Flush(r, "flushed",
       [NoDraft EXCEPT
          !.nonces = {job[r].nonce},
          !.identities = IF view[r].user = None
                           THEN {<<Address(r), job[r].user>>} ELSE {}])

---------------------------------------------------------------------------
(* The end of a request                                                    *)

EndSession(r) ==
  /\ pc' = [pc EXCEPT ![r] = "idle"]
  /\ job' = [job EXCEPT ![r] = None]
  /\ view' = [view EXCEPT ![r] = NoView]
  /\ draft' = [draft EXCEPT ![r] = NoDraft]
  /\ UNCHANGED requests

Commit(r) ==
  /\ pc[r] = "flushed"
  /\ users' = users \cup draft[r].users
  /\ identities' = identities \cup draft[r].identities
  /\ logins' = logins \cup draft[r].logins
  /\ nonce' = [n \in Nonces |->
       IF n \in draft[r].nonces THEN [nonce[n] EXCEPT !.status = "CONSUMED"]
                                ELSE nonce[n]]
  /\ EndSession(r)

(* Known email or wrong password; a nonce that is no use or a signature    *)
(* that is wrong; another's wallet; the unique constraints.                *)
Refuse(r) ==
  /\ \/ pc[r] = "known" /\ (view[r].user # None \/ job[r].kind = "Login")
     \/ At(r, "known", "Register") /\ ~EmailInsertable(r)
     \/ pc[r] = "nonce"
     \/ pc[r] = "wallet" /\ view[r].user = None /\ ~IdentityInsertable(r)
     \/ pc[r] = "owner" /\ view[r].user \notin {None, job[r].user}
     \/ pc[r] = "owner" /\ view[r].user = None /\ ~IdentityInsertable(r)
  /\ EndSession(r)
  /\ UNCHANGED committed

(* The process or the connection is lost.                                  *)
Abort(r) ==
  /\ pc[r] # "idle"
  /\ EndSession(r)
  /\ UNCHANGED committed

(* Ten minutes pass.                                                       *)
Overdue(n) ==
  /\ nonce[n].status = "OPEN"
  /\ ~nonce[n].overdue
  /\ nonce' = [nonce EXCEPT ![n].overdue = TRUE]
  /\ UNCHANGED <<users, identities, logins, pc, job, view, draft, requests>>

Next ==
  \/ \E r \in Workers :
       \/ BeginEmail(r) \/ BeginVerify(r) \/ BeginLink(r)
       \/ Register(r) \/ LogIn(r)
       \/ FindWallet(r) \/ KnownWallet(r) \/ NewWallet(r)
       \/ FindOwner(r) \/ LinkWallet(r)
       \/ Commit(r) \/ Refuse(r) \/ Abort(r)
  \/ \E n \in Nonces : IssueNonce(n) \/ Overdue(n)

Spec == Init /\ [][Next]_vars

---------------------------------------------------------------------------
(* Properties                                                              *)

(* Every variable keeps its type; the phases of a session are those above. *)
TypeOK ==
  /\ users \subseteq User
  /\ identities \subseteq Addresses \X Nat
  /\ logins \subseteq Login
  /\ nonce \in [Nonces -> Nonce]
  /\ pc \in [Workers -> {"idle", "known", "nonce", "wallet", "owner", "flushed"}]
  /\ job \in [Workers -> Request \cup {None}]
  /\ view \in [Workers -> View]
  /\ draft \in [Workers -> Draft]
  /\ requests \in Nat

(* Whoever registers or logs in at the same time: an email and a wallet    *)
(* have one account each, an account has one of them, and wallets and      *)
(* logins belong to accounts that exist.  The loser of a race leaves no    *)
(* half-made account behind.                                               *)
OneAccountEach ==
  /\ \A u, v \in users : u.email # None /\ u.email = v.email => u = v
  /\ \A i, j \in identities : i[1] = j[1] => i = j
  /\ \A u \in users : u.email # None \/ \E i \in identities : i[2] = u.id
  /\ \A i \in identities : \E u \in users : u.id = i[2]
  /\ \A x \in logins : \E u \in users : u.id = x.user

(* A login by wallet belongs to the account that holds that wallet, and    *)
(* the nonce that opened it is spent.                                      *)
WalletLoginsOwned ==
  \A x \in logins :
    x.nonce # None =>
      /\ <<AddressOf[x.nonce], x.user>> \in identities
      /\ nonce[x.nonce].status = "CONSUMED"

(* "Login request expired or already used": a nonce opens one login.       *)
NonceUsedOnce ==
  \A x, y \in logins : x.nonce # None /\ x.nonce = y.nonce => x = y
==========================================================================
