# A verification of the Arcscrow backend

The Arcscrow backend is a FastAPI application that keeps the off-chain record
of escrow deals: who the parties are, what they signed, what was paid into and
released from the escrow contract on the Arc chain, and an evidence log. The
money moves on chain; the backend believes a confirmed event, never a caller,
and updates its database rows. Two gunicorn processes serve the requests
(`src/Dockerfile:13`), each request in a database session of its own. The
database is PostgreSQL in production and SQLite by default and in the tests
(`src/README.md`, `app/core/config.py:19`, `tests/conftest.py:4`).

What can go wrong here is almost never in one handler and almost always
between two of them. Every handler loads rows, awaits (the database, an Arc
RPC), computes new values from the loaded rows, and writes them. Nothing is
locked for update and no row carries an optimistic version check that the
database enforces. This project models the sessions statement by statement,
states what the interleavings leave true and what they do not, checks both with
TLC on small instances and proves the central parts with TLAPS for all
instances.

## 1. Inventory

| component | source (`src/`) | state it keeps | operations | hard behaviours |
|---|---|---|---|---|
| Deal rules | `app/deals/service.py`, enums and checks in `app/db/models.py` | none | transition table, funding rule, allocation rule | zero, ceiling and threshold boundaries |
| Deal settlement | `app/api/workflow.py`, `app/api/deals.py` | `deals`, `milestones`, `deal_parties.accepted_at`, `disputes`, `blockchain_events` | register, accept agreement, fund, submit, approve, release, dispute, change status | lost updates, repeats of one event, stale version checks, late events, rollback |
| Evidence chain | `app/evidence/service.py` | `evidence_items` | append | two appends after the same item, with and without the lock of the deal; a column narrower than what is stored in it |
| Invitations | `app/api/invitations.py` | `deal_invitations`, `deal_parties`, `notifications`, `deals.status` | invite, reissue, accept, expire | two answers to one invitation, the last two joins at once, expiry during an answer |
| Deal creation | `app/api/deals.py` (`create_deal`) | `deals`, `deal_parties`, `milestones`, `agreement_versions`, `outbox_events`, the first evidence | create with an idempotency key | two retries at once, a crash between the flushes |
| Chain reader | `app/chain/service.py`, `app/api/chain.py` | none (RPC) | read the contract's status, verify an event, endpoints in turn | order, completeness and ids of batch answers, fallback, faults nobody catches |
| Authentication | `app/api/auth.py`, `app/core/security.py`, `app/api/dependencies.py` | `users`, `sessions`, `auth_nonces`, `wallet_identities` | register, login, wallet nonce, verify, link, refresh, logout | a nonce consumed twice, two first logins, refresh after logout |
| Chat | `app/chat/websocket.py`, `app/api/messages.py` | `deal_messages`, rooms in process memory, pooled database connections | connect, send, broadcast, history | two connections of one user, a dead peer during a broadcast, the room changing under it, sockets that keep a database connection |
| Workspace | `app/api/workspace.py` | profiles, `notifications`, `organisations`, members | read, update, create organisation | slug taken meanwhile |
| Wallet providers, AI | `app/wallets`, `app/ai`, their APIs | none | adapters to external services | none of their own |
| Jobs, shell, deployment | `app/jobs`, `app/main.py`, `app/core`, `deploy/` | none | configuration | none |

How they interact: deal creation produces the deal; invitations and joins, which
ask for no status of it, go on beside the settlement and may move a deal that is
being settled back to AWAITING_SIGNATURES; all of them append to the evidence of
the deal; the settlement asks the chain reader to verify every report; authentication decides
who the caller is; chat and workspace share only users and deals. Components
meet in the database alone: there are no internal messages or callbacks.

What makes each correct:

- rules: a transition is one of the table; funding stays within the total and
  full funding activates a deal;
- settlement: a fact is on record only with its confirmed event; money columns
  agree with the events and the milestones; a failed request leaves nothing
  behind; a request comes to an answer;
- evidence: every item follows an earlier one; two items follow the same one only
  if one of them was appended without the lock of the deal row, by an invitation
  or a join that left that row alone;
- invitations: parties, answers and evidence agree; one answer per invitation;
  an acceptance whose rows are current when it commits moves the deal to the
  signatures exactly if it is the last;
- deal creation: a deal appears whole and fit to be settled, and a request that
  begins after an answer under its key makes no other deal; workspace: a slug
  names one organisation, with its owner;
- chain reader: what is accepted is as many answers as questions, from one batch,
  none an error, about our chain, contract and deal; in a batch with the ids that
  were asked each answer is under its own question; and a refusal means that
  every endpoint failed;
- authentication: an email and a wallet have one account each, a nonce is used
  once;
- chat: whatever was seen live is in the history, which lists a message after all
  its author had received when he wrote it; a broadcast that ends has
  reached everybody still there; database connections come back; turns end.

## 2. Modules

| module | models |
|---|---|
| `DealRules` | enumerations, transition table, funding and allocation rules, the effect of each handler on the deal row; pure operators |
| `EvidenceChain` | the item `append_evidence` links to, and what a chain without forks is |
| `ColumnUpdates` | which columns an UPDATE writes when a session flushes a row it loaded earlier |
| `Settlement` | the eight handlers that settle a deal, beside the invitations and joins that touch the same deal, parties and evidence, as interleaved sessions on either database |
| `SettlementLedger` | money columns against events; refinement mapping to `SerialLedger` |
| `SerialLedger` | the abstract specification: each confirmed event recorded at most once, atomically, on the deal as it is |
| `MCSettlement` | a small deal and its chain for TLC |
| `Invitations`, `MCInvitations` | invitations and joining, as interleaved sessions |
| `Accounts`, `MCAccounts` | registration, logins, wallet nonces and identities, as interleaved sessions |
| `Creation`, `MCCreation` | deals under idempotency keys and organisations under slugs, as interleaved sessions |
| `ChatRoom`, `MCChatRoom` | the handlers of one deal's connections on several processes, several of one user among them, with rooms, broadcasts, pooled connections and restarts |
| `ChainReader`, `MCChainReader` | one read of the chain over a list of endpoints that answer late, incompletely, in any order, under any ids, wrongly or not at all |
| `SettlementProofs` | theorems about `Settlement`: types, ceiling, columns, evidence, events |
| `SettlementLedgerProofs` | theorems about `SettlementLedger`: the refinement and the money columns |
| `InvitationsProofs`, `AccountsProofs`, `CreationProofs`, `ChatRoomProofs`, `ChainReaderProofs` | theorems about those modules |
| `FiniteSums` | lemmas about sums over finite sets, for the theorems about money |

A definition whose comment begins `MUTANT of X` is a faulty variant of `X`, one
for each checked property: put in the place of `X` it makes TLC find that
property violated. Nothing else uses them.

### The session model

A request of `Settlement` is a transaction that reads what is committed:

    idle -> row (SELECT deals) -> loaded (SELECT parties, milestones)
         -> verified (Arc RPC, SELECT blockchain_events)
         -> flushed (autoflush: the UPDATE locks the deal row) -> idle (COMMIT)

A transition by hand and an invitation go from `loaded` to `flushed`; a join is

    idle -> checked (SELECT deal_parties) -> joined (INSERT, SELECT deals)
         -> flushed -> idle (COMMIT)

- `view[r]` holds the rows the request loaded (sessions do not expire them,
  `app/db/session.py:8`), `draft[r]` the rows it has flushed, `deal`,
  `milestone`, `events`, ... what is committed.
- A handler computes its draft from its view: `deal.released_amount +=
  milestone.amount` becomes an absolute value. At the commit, `Column` writes the
  columns that differ from the loaded ones and leaves the others as they are by
  then.
- `lock` is the row lock of the deal, which every settling handler needs because
  every one increments `version`. `append_evidence` begins with a SELECT, which
  flushes that UPDATE first: that is the only thing that orders two appends. An
  invitation or a join that leaves the deal row alone appends without it
  (`AppendInvitationItem`), and its item may follow the one another item follows.
  `locked` remembers on each item whether its session held the lock.
- `database` is PostgreSQL or SQLite. On SQLite the lock is that of the whole
  database: every session that has written holds it, so there the evidence is one
  chain. On PostgreSQL the width of a column is enforced (`Storable`): the
  evidence of a reported event names it by its transaction hash, 66 characters
  for a column of 64, and such a request is refused at its last statement. Hence
  on PostgreSQL only approvals, disputes, transitions, invitations and joins
  commit (run `hash_width`); on SQLite everything does. `Databases` says which of
  the two a run is about.
- Invitations and joins are here as far as they touch what the settlement uses:
  `Late` are the parties who join while the deal is being settled. Which
  invitations are pending is the business of `Invitations`; here an invitation or
  a join may move the deal or not.
- Unique constraints are guards of the flush (`EventInsertable`, `Insertable`,
  `Joinable`); where they fail, the request rolls back (`Refuse`).
- `Abort` is a crash or a lost connection at any point.
- The caller is abstracted to the roles and wallets among the parties
  (`MayReport`): some party may make the report, or the request is refused. The
  chain is a set of confirmed events (`Chain`), each identified by its
  transaction hash and log index. Hashes, amounts in token units, texts and
  token addresses are model values or small numbers.

`Invitations` has the same structure with finer steps, because its handlers
read the invitation, the membership, the deal and the pending invitations in
separate statements and lock the invitation before the deal. Its locks are read
off the phases of the sessions, as PostgreSQL has them. Other handlers that move
the deal meanwhile are represented by `ChangeStatus`. Expiry is noticed before
anything is asked about the caller, so anybody who answers an overdue invitation
makes it EXPIRED (`Lapse`), whether it is his or not.

`Accounts` follows the same pattern for look-up-then-insert: what a session read
(`view`) decides what it inserts (`draft`), and only the unique constraints stand
between two sessions that read the same. Passwords and signatures are right or
the request is refused; `refresh_session` and `logout` write no row.

`Creation` has look-up, flush, second flush and commit as steps. The flushes are
two because `append_evidence` selects, and so flushes what names the deal; a
crash between them must leave nothing. The slug has a unique constraint, the
idempotency key has none. Ids are the numbers of the requests, in place of
UUIDs, which lets a property speak of "before" and "after". `DealsComplete` and
`FitToSettle` together are what `Settlement` assumes of the deal it starts from
(`DealAssumption`).

### The chat

`ChatRoom` is not a session model: a handler is a coroutine that lives as long
as its connection. The author of a message is a user, who may have several
connections, to several processes (`User`); `via` remembers which one a message
came through, and `seen` what its author had received when he sent it. `pc` says
whether a handler waits for its client, has flushed a message, or is in the loop
of a broadcast; `outbound` is that loop's copy of the room and who is left of it,
because every `await send_json` lets other handlers run. The database session of a connection is opened by the membership SELECT
and returned to the pool only with the first commit or at the end, which is what
`holding` counts against `PoolSize`. A send to a peer that is gone is lost, or
raises in the SENDER's handler, which the sender then ends with: as a disconnect
of its own, leaving the room, or as an error nobody catches, staying in it. Rooms
are per process (`Process`): a message reaches the sockets of one process live
and the others by the history. `Restart` loses a process with its rooms.

### The chain reader

`ChainReader` is one read, `read_contract_status` or `verify_contract_event` of
`chain/service.py`: it posts a batch to the endpoints in turn, sorts the answers
by id, compares their number and looks at one after another. The code checks
neither that the ids were asked nor that they are distinct, so `Replies` has
batches with entries missing, in another order, repeated, under ids nobody
asked or one too many, and `Sorted` says what becomes of them: items of one id
stay in the order of arrival. An endpoint may also be of another chain, answer
null or an error, or nothing. `Break` and `BreakStatus` are the errors no handler
catches (answers that are no objects, an error beyond the questions, values that
do not decode); they end the read with neither result nor refusal. The
settlement takes the result of a read as a step of its own, `verified` or
refused.

## 3. Runs

Deadlock is not checked, because users may send nothing more; that no request
is stuck are the liveness properties `RequestsFinish`, `TurnsEnd` and `ReadEnds`.

| run | sessions, requests | question | answer |
|---|---|---|---|
| `settlement_retries` | 2, 3 | what do races, crashes, repeated reports, invitations and joins leave true, on either database? | `FundedWithinTotal`, `EvidenceChained`, `ChainBacked`, `ColumnsIsolated` hold, no column is ahead of the evidence (`TotalsNotOverstated`), and every request is answered (`RequestsFinish`) |
| `settlement_serial` | 1, 4 | and one at a time, where everything commits (SQLite)? | `TotalsExact`, and the settlement implements `SerialLedger` (`LedgerSpec`) |
| `transition_race` | 2, 3 | does a transition apply to the version its caller named? | no: `TransitionSeesCurrentDeal` is violated |
| `event_replay` | 1, 3 | does an event count once, even without a race, on PostgreSQL? | no: a dispute reported twice is counted twice (`TotalsConfirmed`) |
| `hash_width` | 1, 3 | is a report that has passed its checks answered, on PostgreSQL? | no: the INSERT of its evidence is refused (`CheckedReportsAnswered`) |
| `invitations_race` | 2, 4 | do parties, answers, evidence and the deal's status agree under races, expiry and crashes? | `JoinsRecorded`, `AnsweredStaysAnswered`, `SigningFollowsLastJoin`, `RequestsFinish` hold |
| `invitation_used_twice` | 2, 4 | is an invitation answered once? | no: two acceptances that both found it pending both succeed |
| `accounts_race` | 2, 4 | what do concurrent registrations, logins and links leave? | `OneAccountEach`, `WalletLoginsOwned` hold |
| `nonce_used_twice` | 2, 3 | does a login message open one session? | no: two verifications that both read it open both succeed |
| `creation_race` | 2, 3 | what do two creations under one key or slug leave, with crashes? | `DealsComplete`, `FitToSettle`, `OnlyRacesDuplicate`, `OrganisationsOwned`, `RequestsFinish` hold |
| `chat_room` | 3 connections, 2 messages | what do clients see while peers come, go, break and processes restart? | `SeenInHistory`, `BroadcastReaches`, `ConnectionsReturned`, `TurnsEnd` hold |
| `chain_reader` | 1 read | what is accepted of endpoints that fail in any way and reply under any ids? | `AnswersHold`, `RefusedWhenAllFailed`, `ReadEnds` hold |

The violated properties are the findings of `PROJECT.json`; each quotes the
line of the repository it takes its statement from. The properties of
`settlement_serial` are the other half of them: what the code means, and keeps as
long as requests do not overlap and no event is reported twice; with two
sessions or with retries both fail.

Three statements a reader may expect are weaker on purpose, because the code does
not keep more:

- `EvidenceChained` allows a fork where one of the two items was appended without
  the lock. `TotalsConfirmed` counts disputes as well as payments because on
  PostgreSQL a dispute, which appends no evidence, is what gets committed.
- `JoinsRecorded` tolerates that EXPIRED is written over ACCEPTED by a session
  that found the invitation overdue before, and that a second answer overwrites
  `accepted_by`: the answer stays on record as a party and as evidence. The second
  answer itself is `invitation_used_twice`.
- `SigningFollowsLastJoin` speaks of acceptances whose deal and count are still as
  they read them. Two last acceptances at once see each other's invitation pending
  and neither moves the deal; and one that loaded the deal in AWAITING_SIGNATURES
  writes no status, also when a manager has moved the deal meanwhile.

### Bounds, and why they suffice

- Two sessions: every disagreement between handlers found in the source is one
  of a pair (one reads, the other commits, the first writes). Requests are
  bounded by `MaxRequests` (3 or 4): with two sessions, 3 requests allow one to
  commit before, between and after the statements of another, and a repeat.
- The deal has a buyer, a seller, an observer (who need not sign) and an approver
  who joins while it is being settled, two milestones of 1 and 2 units and a total of 3 at a threshold of 50 %. The first
  payment stays below the threshold, both together reach the total, and repeating
  the larger would exceed it. Both releases complete the deal; one milestone can
  also be submitted, approved and disputed. `settlement_retries` takes one event
  of each kind that can race another and both payments (`RacingChain`), on both
  databases; the submission and the second release write the same columns.
- Each milestone is released on chain at most once, as the contract pays each
  once (`ReleasedOnce`, which TLC checks of the instance). `Retries = TRUE` lets
  any event be reported any number of times.
- Invitations: two of the same role; one person can answer both, one of them also
  the other's (email and wallet); one address has an account.
- Accounts: one email and two login messages for one wallet; every race is
  about one email or one wallet, and four requests let an account be
  registered, linked and used while another request races each step.
- Creation: two users of whom one has a wallet, two keys, one slug, and three
  offers: one in order, one whose milestones do not add up, one too large for its
  column. Three requests let two race under a key and a third begin after an
  answer. That two racing requests do duplicate a key is allowed by
  `OnlyRacesDuplicate` and happens in the run.
- Chat: two users, of whom one has a connection to each process. Two connections
  to one process compete for its one database connection, a third is served by the other process. One of the two may be down while the
  other sends, and the sender is a peer of its own room, so a broadcast has a
  live and a dead peer. Two messages are enough for an order. A third connection
  to one process takes more than ten times the states; the theorems cover it.
- Chain reader: three endpoints of which two are the same, or one with an
  address missing from the configuration. The three answers about a transaction
  come in every order with any missing, and under repeated and unasked ids, one too
  many among them; the six about the contract in seven arrangements of the same
  kinds. Logs differ from the one that is looked for in one field each.
- Statuses by hand (`Targets`): three for the serial settlement (expire, archive,
  declare signed), one for the races, and two for the invitations (reopen the
  negotiation, declare signed), chosen for what they can disturb.

### Fairness

`FairSpec` asks that a session that can take its next step does: the event loop
runs it (weak fairness of `Proceed`). It is strong for the steps that write
(`Write`), which may have to wait for a lock: PostgreSQL grants locks in the order
of arrival, and on SQLite the wait for the database ends by a timeout, which ends
the request too. The RPC ends by timeouts of its own, answered or refused.
Nothing is assumed about users or crashes: `Abort` needs no fairness.

`Creation` is strongly fair to the steps of a session for the same reason: an
INSERT waits for the uncommitted row of another. In `ChatRoom` the steps that end
a turn are weakly fair: a commit ends, and a send to a peer that takes nothing
ends because the server's pings find it out; nobody has to write, leave or fail.
In `ChainReader` the request goes on (weak fairness of `Next`): the ten seconds of
httpx bound each connect, write and read, not the whole post, so `ReadEnds` also
takes for granted that a reply has an end; an endpoint that sent one byte every
nine seconds for ever would keep the read from ending.

## 4. Theorems

Each is proved for every value of the constants: any number of sessions,
parties, milestones, events, connections, processes, endpoints, and every value of
the bounds. The assumptions are those the modules name, and the two theorems about
requests that do not overlap say so in their hypotheses: one session
(`Workers = {r}`), and what else the run of the same property fixes. Every safety and action
property of a passing run is stated by one of them.

| property of a run | theorem | invariant |
|---|---|---|
| `TypeOK` of each module | `TypeCorrect`, `InvitationsTypeCorrect`, `AccountsTypeCorrect`, `CreationTypeCorrect`, `ChatTypeCorrect`, `ReaderTypeCorrect` | see below |
| `FundedWithinTotal` | `FundingCeiling` | `FundedInv` |
| `ColumnsIsolated` | `CommitsAreIsolated` | `IsolatedInv` |
| `EvidenceChained` | `EvidenceForksOnlyUnlocked` | `EvidenceInv` |
| `ChainBacked` | `BackedByChain` | `BackedInv` |
| `TotalsNotOverstated` | `TotalsStayCovered` | `CoveredInv` |
| `TotalsExact` | `SerialTotalsAreExact` | `ExactInv` |
| `LedgerSpec` | `SerialRequestsKeepTheLedger` | `SerialInv` |
| `JoinsRecorded`, `AnsweredStaysAnswered` | `JoinsStayRecorded`, `AnswersAreFinal` | `InvitationsInv` |
| `SigningFollowsLastJoin` | `LastJoinsSign` | `InvitationsInv`, `Signing` |
| `OneAccountEach`, `WalletLoginsOwned` | `AccountsStayApart`, `WalletLoginsStayOwned` | `AccountsInv` |
| `DealsComplete`, `OnlyRacesDuplicate` | `DealsAppearWhole`, `AnsweredKeysHold` | `CreationInv`, `KeyInv` |
| `FitToSettle` | `DealsFitToSettle` | `FitInv` |
| `OrganisationsOwned` | `OrganisationsKeepOwners` | `OrganisationInv` |
| `SeenInHistory`, `BroadcastReaches`, `ConnectionsReturned` | `SeenStaysInHistory`, `BroadcastsReach`, `PoolHolds` | `SeenInv`, `ReachInv`, `PoolInv` |
| `AnswersHold`, `RefusedWhenAllFailed` | `AcceptedAnswersHold`, `RefusalsJustified` | `ReaderInv`, `TriedInv` |

### Settlement

On either database, with or without retries, late parties and joins, from `ChainAssumption` (events are well formed and
identified by id), `DealAssumption` (what `create_deal` validated; the milestones
are finitely many) and `EnvironmentAssumption`:

- `TypeCorrect`. Strengthened by `AtWork`: a session past idle has a
  job, without which the fields a handler reads have no type. Lemma
  `HandlersUpdate` reduces the eight handlers to the one way they flush,
  `UpdateDeal`, with a draft of the right type; `AppendStep` and `InvitationStep` do
  the same for invitations and joins.
- `FundingCeiling`. Not inductive alone: a commit writes a
  draft that was computed earlier. The invariant says that the
  committed, every loaded and every flushed row respects the ceiling; the step
  for funding is the guard `CanFund` on the loaded row, and because the value
  written is the value checked, the lost update cannot break it.
- `CommitsAreIsolated`. A draft differs from the view in the columns of its own
  handler only, and the commit writes what differs.
- `EvidenceForksOnlyUnlocked`. Every item follows an earlier one; two items linked
  under the lock of the deal row never follow the same one; and on SQLite no two
  do. The invariant says of a flushed item that it follows a committed one and was
  stamped when no other was, and, if it is linked under the lock, that its session
  holds the lock and that it follows the last committed locked item or something
  after it (`Pending`); of two committed locked items it says that the later
  follows the earlier or something after it (`ChainInv`). Items linked without the
  lock may follow what any other item follows, and do.
- `BackedByChain`. The invariant says of every view that it is
  backed by the stored events (which only grow, lemma `Monotone`) and of every
  draft that it is backed by them with the event the request reports added;
  the commit adds exactly that event.
- `FullFundingActivates`: for every threshold the schema admits, a payment that
  completes the total activates the deal.

No proof of this section or the next uses the width of the evidence column
(`Storable` is never expanded). The theorems therefore also hold of a schema with
a wider one, where reports commit under PostgreSQL's row locks.

### The money columns and the ledger

- `TotalsStayCovered`, for any number of sessions: no money column is ahead of the
  evidence and of the disputed milestones. A commit may write a sum computed from
  rows that have changed since, so the invariant speaks of every copy: committed and
  loaded rows are covered by what is committed, a flushed row by that and the
  item or dispute of its own request. Coverage survives the commits of others
  because evidence and disputes only grow.
- `SerialRequestsKeepTheLedger`: with one session and `Retries = FALSE` every step
  of the settlement, of late invitations and joins too, is a step of `SerialLedger`
  or a stutter. The invariant says
  that the one session holds no stale row (`Current`), reports nothing that is
  stored, and has flushed what the ledger's rule makes of the committed rows
  (`FlushedStep`). The log of the ledger is the
  evidence in the order of its instants; it grows at its end because the pending
  item is later than every committed one (lemmas on `Rank`).
- `SerialTotalsAreExact`: under the same hypotheses and `ReleasedOnce`, the columns
  are equal to what events, milestones and disputes add up to. The release
  needs both halves of the invariant: the amount is added to the deal and
  ASSIGNED to the milestone, which agree only because a released milestone has
  its event stored and no other event releases it. Two sessions, or a repeated
  report, break exactness (`event_replay`), not coverage.

The sums are `MapThenSumSet` of the community modules, a fold over CHOSEN
elements. The induction theorems of the library take operators, which the provers
cannot instantiate, so `FiniteSums` argues without them: of the subsets of a
finite set with some property one is minimal (`MinimalSubset`, from the
well-founded order of its subsets); hence the recursive function of the fold exists and is unique, and
the sum does not depend on the order (`SumRemove`). The other modules cite
`SumAdd`, `SumUpdate`, `SumMonotone`, `SumAtMost` and `SumOfImage`.

### Invitations

`InvitationsInv` says of every session what it has read and flushed (`Local`),
that one session at a time holds the row of an invitation, with the locks read
off the phases (`Exclusive`), and that an invitation nobody has answered names
nobody. `JoinsRecorded` is then kept because a session flushes party, answer and
evidence together and what it flushed still fits the rows others committed:
nobody deletes a party, and nobody writes a row whose lock another holds.
`AnswersAreFinal` is a theorem about steps: the UPDATE of a reissue writes only
the columns that differ from the row it loaded, and the status is not one.

`LastJoinsSign` is about steps too. Its `Signing` says what an acceptance that has
counted the pending invitations has flushed: the deal moved if it counted none,
the deal as loaded otherwise. At a commit on a deal and a count that are still
current this decides what the deal becomes, for any number of sessions; without
that condition it is false (section 3).

### Accounts

`AccountsInv` says of every session that what it has read is still
there (nothing is deleted), that its rows are whole once they are added to what
is committed (`WholeRows`), that they clash with nothing committed (`Fresh`) and
with nothing another session has flushed (`Apart`). `Apart` is what the unique
constraints and their waits give; with it the commit of one session keeps the
others `Fresh`. Lemmas `ReadStep`, `FlushStep`, `EndStep` and `CommitStep` reduce
the actions to four kinds.

### Creation

- `DealsAppearWhole`. `CreationInv` says that a
  request has an id of its own, which no stored deal has (`OwnIds`), and what a
  session of each phase has flushed (`Drafted`). The commit then adds exactly the
  rows of one new deal.
- `AnsweredKeysHold`. `KeyInv` adds that a request that
  found nothing under its key began before any client had an answer for it: an
  answer has its outbox row, and outbox rows stay.
- `OrganisationsKeepOwners`. `OrganisationInv` adds that a flushed slug is neither
  stored nor flushed by anybody else (`SlugsReserved`), although many requests
  have found it free.
- `CreationTypeCorrect` and `DealsFitToSettle`. The handler checks that the total is
  what the milestones add up to and that it fits its column, not that each
  amount does; that follows from the sum (`AmountsFit`). The stored rows add up
  because each milestone has a position of its own (`MilestonesAddUp`). This is
  what `DealAssumption` takes for granted in the settlement.

### Chat

The invariant has three parts. `SeenInv`: a flushed message is stamped later than
all its author had received, on any connection, and is not stored yet; one that is
being sent is stored, and whoever is left to be sent to does not have it. Between
two connections of one user nothing more holds: the later stamp may be the first
broadcast. `ReachInv`: whoever is sent to has connected, and
connects only once. `PoolInv`: whoever has written has given his connection back.

### Chain reader

- `AcceptedAnswersHold`: whatever an endpoint replies. Sorting only permutes a batch
  (`Places`: the place of an item is the number of items sorted up to it, and each
  item has one of its own), so every item sent is read under some question and an error
  anywhere is seen. The core for a batch with the ids that were asked
  (`Conforming`) is lemma `Aligned`: the items sorted up to question q are then as
  many as the questions up to q, so each answer stands under its own. Of a batch
  with other ids nothing more is claimed: the code takes it in the order of its ids.
- `RefusalsJustified`: the loop has tried every endpoint
  when it gives up.
- `ReaderTypeCorrect`, with `TypedInv`: an outcome is a list of answers and the
  number of a log whatever the endpoints said.

### Only model-checked

Liveness: `RequestsFinish` of the settlement, the invitations and the creations,
`TurnsEnd` and `ReadEnds` need fairness and `ENABLED`, which are out of the prover's
reach; TLC checks them on the instances above. The five violations are
counterexamples of their runs.

## 5. Not modelled

- Read-only endpoints, texts, layouts, logging: nothing to disturb.
- Wallet providers and the AI assistant keep no state; the Celery worker has no
  task; migrations run outside the program.
- `refunded_amount`: no code assigns it, so it is 0 in the comparison that
  reads it.
- PostgreSQL's deadlock detector. The settlement and the invitations never need
  it (`RequestsFinish`). `wallet_link` and `wallet_verify` of one message may,
  depending on the order in which the ORM flushes; `Accounts` takes both rows of
  a link in one step and states no liveness, so this hazard has no property.
- SQLite outside the settlement: the other session models have PostgreSQL's row
  locks. SQLite's lock of the whole database admits fewer interleavings.
- `read_notification` and `update_profile`: each sets one column of a row that
  only its owner writes. Lists change nothing.
- The decoding of amounts and hashes in the chain reader: which log is chosen and
  whose it is are modelled, its numbers are model values in the settlement.
- A deal that is ARCHIVED by hand and then reported on takes the status the late
  event gives it. The model has these steps; nothing in the repository says
  whether the transition table binds the handlers, so no property is stated.
- That an invitation once EXPIRED or ACCEPTED can never be made again for the same
  address and role, and that EXPIRED may be written over ACCEPTED: the model has
  both, and nothing in the repository says what should happen instead.

## 6. Plan

Done: rules, settlement, evidence, the serial ledger and its refinement;
invitations; accounts; deal creation and organisations; chat; chain reader; the
theorems of section 4.

Left:

1. The theorem that a deal of which `DealsComplete` and `FitToSettle` hold
   satisfies `DealAssumption`, which joins `Creation` and `Settlement`.
2. What `ReleasedOnce` is needed for, as a theorem without it: which columns stay
   exact when a milestone is paid twice.
