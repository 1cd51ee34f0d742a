# A verification of the Àjọ backend

TLA+ models of the parts of Àjọ that move money, decide whose turn it is or let
somebody in: the double-entry ledger and what clients read of it, the settlement
of wallet payments, the formation of a savings circle and the money of an active
one, users and their sessions, and the pipeline that every request goes through.
TLC checks them on small instances; for nearly every safety property among the
results TLAPS proves the same for every instance.

Source paths are relative to `src/`. `PROJECT.json` maps every definition to
the lines it models and lists the hazards the properties are for.

## The system

A FastAPI application over Postgres, Redis and payment providers. Every HTTP
request runs in one SQLAlchemy session and one READ COMMITTED transaction
(`app/db/engine.py::session_scope`): it commits after the handler, or rolls
back as a whole. Requests run concurrently in several processes; nothing but
the database orders them. Only `post_entry()` takes a lock (a transaction-level
advisory lock, then `FOR UPDATE`); elsewhere unique constraints and row locks
of `UPDATE`s are all there is.

| component | state | operations | talks to | model |
| --- | --- | --- | --- | --- |
| ledger core (`app/db/ledger.py`, `modules/ledger`) | `ledger_account.balance_minor`, `journal_entry`, `posting` | `post_entry()`, `replay_balances()` | called by wallets and circles | `Ledger`, `Journal`, `LedgerProofs` |
| wallets (`modules/wallets`) | `wallet`; payments and entries through others | top-up, withdrawal, settlement | payments, ledger | `Settlement`, `Transfer`, `SettlementProofs` |
| payments (`modules/payments/service.py`, `repo.py`) | `payment_object`, `partner_event`, `recon_break` | create, webhook processing, reconcile | rails | `Settlement`, `CircleMoney` |
| rails (`fake_rail.py`, `stripe_rail.py`, `truelayer_rail.py`) | the provider's object per idempotency key | create, collect, pay out, fetch, verify | HTTP | their answers, in `Settlement` and `CircleMoney` |
| provider webhooks (`modules/provider_webhooks`) | none of its own | Stripe and TrueLayer events | payments, wallets, circles | `Settlement`, `CircleMoney` |
| circles (`modules/circles`) | `circle`, members, invites, agreements, draw, cycles, contributions, payouts, arrears, shortfalls | the life of a circle | ledger, payments | `CircleFormation`, `CircleMoney`, and `CircleFormationProofs`, `CircleMoneyProofs` |
| ledger queries (`modules/ledger/service.py`, `modules/wallets`) | none; a client's cursor | activity pages, statements | ledger core | `LedgerQueries`, `LedgerQueriesProofs` |
| dates (in `modules/circles`, `modules/wallets`) | none | due dates, statement periods | circles, queries | `Calendar`, `CalendarProofs` |
| identity (`modules/identity`) | users, refresh token families, token versions | register, login, refresh, logout, password change, sessions | members, wallets, screening | `Identity`, `IdentityProofs` |
| members, screening (`modules/members`, `modules/screening`) | the member's row | created and screened at registration | identity | in `Identity` |
| idempotency, rate limit (`app/core`) | Redis keys | middleware, fixed window | Redis | `Requests`, `RequestsProofs` |
| jobs (`app/workers`) | session's pending jobs, `failed_jobs` | flush after commit, retry | Redis | not modelled |
| notifications, tools, configuration, logging, migrations | output, scripts, schema | | | not modelled |

What makes these parts hard is the same everywhere: a request decides from
something it read and writes it later.

* SQLAlchemy never refreshes an object that the session already holds. A
  balance read by code before `post_entry()` stays what it was, even though
  `post_entry()` selects the row `FOR UPDATE` afterwards.
* `now()` is the start of the transaction, so `created_at` does not order
  entries by the time at which they were posted.
* A provider is called before the transaction commits. Its webhook may come
  before that commit, or the transaction may fail and leave the object behind.
* A webhook checks the payment's state and updates it in two statements.
* `circle.state`, member counts and agreement counts are read without a lock; so
  is the refresh token that is about to be rotated.
* An error rolls back everything its request wrote, also what was meant to stay.
* The answer of a handler leaves before the session's dependency commits, and the
  idempotency middleware stores it before that.

What each part has to guarantee is stated by the properties below.

## The models

Every model has the form: shared variables are committed rows; per-session
variables are what a session has read and not yet committed; each action is
what a request does between two points at which another request can interfere;
`Rollback` can end a session wherever it stands (an error, a unique violation,
a crash: they all leave the same state). A guard that asks for a key or row not
to be there yet is a unique constraint; the request that meets it rolls back.

### Ledger (`app/db/ledger.py`, `modules/ledger`)

`Begin`, `ReadAccount` (a caller's `get_account_by_code()`), `PostEntry`
(validation, advisory lock, `FOR UPDATE`, previous hash, insert), `ApplyLine`
(one turn of the loop over the postings, with the sign check), `Commit`,
`Rollback`. A session may post several entries. `view` and `loaded` are the
session's identity map; `Commit` writes the absolute balances of the accounts
it touched, as the flush does. The identity map holds objects weakly, but the
callers keep the platform and wallet accounts in local variables until
`post_entry()` returns; those are `ReadFirst`. A circle's accounts are only
held by `ensure_circle_accounts()` while it runs, so they are read fresh. The runs
have accounts of both kinds: `available` stands for one that is read fresh (a
wallet's own would be in `ReadFirst`; the theorems hold for any `ReadFirst`).

An entry's key stands for its hash, which covers the key. `rank` is the order
of the random ids that break ties of `created_at`.

`Journal` is the abstract specification: an append-only sequence of balanced
entries with unique keys and links to earlier entries. `Ledger` implements it
(`JournalIsAppendOnly`), whatever happens to the balances.

### Settlement (`modules/wallets`, `payments`, `provider_webhooks`)

One idempotency key is one top-up or withdrawal, its provider object and its
`payment_object` row. A command is `CallRail` then `CommitCommand`, or loses to
another command with the same key (`DuplicateCommand`), or finds its row and
writes its own answer over it (`OverwritePayment`). A webhook is
`ReceiveEvent` (store, fetch), `CheckPayment`, then `UpdatePayment` and
`CommitUpdate`, or `CommitBreak`. `UpdatePayment` holds the row's lock.
`ProviderStep` and `CreateObject` are the provider: it keeps a status of its own
kind, per rail, and `map_payment_intent_state`, `map_payment_state` and
`map_payout_state` make states of them, as the rails do. What a status says about
the money at the provider is stated apart from those maps (`Outcome`), so that a
wrong map is found. Only Stripe and TrueLayer have webhooks, so the module's payments
are theirs: a fake object lives as long as the request that made it and never gets
past its first state (its numbering is in `Requests`, its payouts in `CircleMoney`).
A retry at a provider is answered as the first request was (`Answers`): with the
status the object was created in, so an answer is the state of now or not a final one.

`post_entry()` refuses to take out of the member's pending account more than it
holds. `short` are the keys whose amount is not there: the stale flush that
`MaterializedIsReplay` finds can take it away, and a later one bring it back
(`PendingChanges`). While a key is short, every delivery of its final event is rolled
back, the event and the break included (`RefuseEntry`). Failures of any other kind are
`Rollback`.

`Transfer` is the abstract specification: the money of a key becomes pending
once and leaves once, to the end the provider reported (`TransfersMoveOnce`).

### CircleFormation (`modules/circles/service.py`, lines 98 to 281 and 611 to 662)

From the created circle to its schedule. `Join`, `AddMember`, `CommitJoin` are
`join()` up to its first count, up to its second, and its commit; `Lock` is `lock()`
up to its count of the members, `CountAgreements` its other count; `Agree`, `Lock`,
`CommitDraw`, `RevealDraw` have a commit each; `GenerateCycle` is one turn of
`generate_schedule()`, which reads the members again every time. The commitment hash
is represented by the payout order that its salt and members give: a reveal succeeds
exactly if the members are those of the commitment. Cancellation has no operation in
the code, nor has a return to `draft`. `late` is not state of the program: it notes
who was joining (`Joining`) when a `lock()` counted the members, so that a property
can say that nobody else becomes a member too many.

### CircleMoney (`modules/circles/service.py`, lines 287 to 560)

An active circle, over the fake rail (a payout is in the ledger at once) or a
provider (the payout is sent, a webhook settles it). `CollectDue` reads the
due contributions and `CommitCollect` commits the batch; `ExecutePayout` reads,
sums and calls the rail, `CommitPaid` or `CommitSent` commit; `ReceiveEvent`,
`CheckPayment`, `ReadPayout`, `CommitWebhook` are the webhook, of which any number
may come for a payout and overlap: `ReadPayout` is what `settle_payout_if_ready()`
reads, and `SettlePayoutIfReady` what it writes from it; `FailLate` and `Complete` have
a commit each; `Tick` is the date. Contributions of a circle are equal, so
amounts count contributions. Only the fake rail can collect. The provider keeps
one object per idempotency key and refuses the key with another amount: that is
an assumption about the provider, and `LedgerPaysWhatWasSent` depends on it.
Which object row a collection is attached to is not modelled. Due dates are the
dates of `Calendar`, from the last day of a month on.

### Identity (`modules/identity`)

Users, families of refresh tokens and access tokens by version, for requests that
are each cut where another can come in between: `InsertUser`, `FindAccount`,
`EnsureAccount`, `Register` (the platform account of the ledger is shared by all
members and created by the first); `ReadCredentials`, `Login`; `ReadToken`,
`ReadOwner`, `Refresh`; `Authenticate`, then `LogoutAll`, `ChangePassword` or
`RevokeSession`; `Logout`. The version of a user that a request read is the
one it counts from, and the one that its access token carries. `RolledBack` is what
an `AppError` leaves of the revocation before it: nothing. `Expire` and `Crash`
happen at any time.

### Requests (`app/core/idempotency.py`, `app/core/rate_limit.py`, `app/main.py`)

A mutating request from the Redis `GET` to its answer. `Replay`, `Miss`,
`TakeLock`, `InProgress` and `FailOpen` are the middleware before the handler;
`Count`, `StartWindow`, `NoLimit` the limiter of `/auth`; `Store`, `Unlock`,
`Raise` the middleware afterwards. Three handlers stand for all: one that inserts
a row every time (`CreateCircle`), one kept single by a unique column
(`Register`), and a top-up over the fake rail (`FindRow`, `Topup`,
`TopupAgain`), whose registry is built anew for every request and numbers its
objects from 1. `Commit` and `CommitFails` may come before or after the answer.
Locks and answers expire, Redis fails at any call, and a process can die.
Causes that take a guarantee away are recorded (`Causes`), so that a property can
say that nothing else does.

### LedgerQueries and Calendar

`LedgerQueries` extends `Ledger` with a client that pages through a wallet's
activity (`FirstPage`, `NextPage`, the cursor of `created_at` and posting id) and
reads a statement (`ReadStatement`) while sessions post, commit and roll back.
A circle's ledger and statement run the same two queries. `Calendar` is the
arithmetic of `add_months()`, `parse_period()` and `parse_statement_period()` on
dates; how the text of a period is parsed is left out.

## The runs

| run | instance | checks |
| --- | --- | --- |
| `ledger_concurrent` | 2 sessions, a wallet of 2 accounts and the platform's, 3 valid and 4 rejected entries, 3 transactions, a client that reads | `TypeOK`, `LiabilityNonNegative`, `SingleWriter`, `JournalIsAppendOnly`, `PagesAreComplete`, `StatementStands`, `StatementIsBalance` |
| `ledger_replay` | 2 sessions, 3 accounts, 5 valid and 4 rejected entries | `MaterializedIsReplay` is violated |
| `ledger_chain` | the same, 1 session | `LinearChain` is violated |
| `settlement` | a card top-up, a bank top-up and a withdrawal, one of them per behaviour; 2 sessions, 2 transactions that fail in passing | `TypeOK`, `FinalEventsAccountedFor`, `TransfersMoveOnce`, `SettlementReachesLedger` |
| `settlement_reopen` | a card top-up, 2 sessions, no failed transaction | `WebhookKeepsTerminal` is violated |
| `settlement_failed_topup` | a card top-up, 1 session | `FailedTopupIsReturned` is violated |
| `circle_formation` | target 2, 3 people, 3 invites, 3 sessions | `TypeOK`, `UnagreedWereJoining`, `OnlyLateMembersMissOut`, `RecipientsPay`, `DrawIsBinding` |
| `circle_reopen` | 2 invites, 2 sessions | `ValidTransitions` is violated |
| `circle_money` | 2 members, 2 cycles from 31 January 2028, 2 sessions, both rails | `TypeOK`, `PayoutIsCovered`, `LedgerPaysWhatWasSent`, `RowsMatchJournal`, `CompletedIsExplained`, `PayoutIsFinal` |
| `identity` | 2 users, 2 passwords, 3 refresh tokens, 2 requests at a time, 2 password changes or logouts of all, 1 expiry | `TypeOK`, `OneSessionPerFamily`, `CutEndsSessions`, `ChangeEndsAccess`, `ActiveIsRefreshable`, `OnlyFirstCollide` |
| `identity_reuse` | the same | `ReuseRevokesFamily` is violated |
| `requests` | a circle, a registration, two top-ups; 3 requests, 2 at a time, 2 faults, limit 1 | `TypeOK`, `OneEffectPerKey`, `OverlapIsExplained`, `CreatedIsCommitted`, `AnswersAgree`, `CounterExpires` |

Deadlock checking is off except in the `identity` runs: a system without requests
stands still, and the bounds on transactions, requests and keys end the
behaviours.

Why the bounds are enough to meet the interesting cases. The hazards are races of
two requests, so two sessions meet them; `MaxStarts = 3` lets a session interleave
with two others one after the other, and `Ranks` lets a transaction post two entries
in either order of ids. Two entries credit one account, so an update can be lost,
and both debit one with money for one. A page of one posting makes every posting a
page boundary. `MaxKeys = 1` in `settlement`: payments of different keys share
neither row nor object, so one key at a time, on each rail, meets what can happen to
a payment. `MaxRollbacks` bounds only transactions that fail in passing (a refusal
by `post_entry()` is not bounded); one is enough to leave a provider object without
a row and have the command repeated, the second can fail its webhook as well. Three
people for a target of two is the smallest circle that can be overfull, with one
session left for the owner. Two cycles are the fewest at which one can be paid out
while the other is not, and two members the fewest for a partial collection; from 31
January the due date has to be moved to 29 February. Three refresh tokens are a
login with two rotations, a token rotated twice, or two logins; the second user only
registers, logs in and refreshes (`Cuts`), which shows that users leave each other
alone and race for the platform account. Three requests are a request, its retry and
a third one that meets what the retry left; two faults are a failure and a failure
while recovering from it. The `mutants` of `PROJECT.json` show for each property a
plausible mistake in the code which the same instance finds.

Symmetry is used for sessions and requests, for people other than the owner,
invites, passwords, tokens and top-up keys, where only invariants and action
properties are checked; never for liveness.

### Fairness

Only `settlement` assumes any, for `SettlementReachesLedger`. `WF` on each session's
own steps: a handler that started runs to its end, be it a commit, a refusal
(`RefuseEntry`) or another failure, of which there are `MaxRollbacks` at most. `SF` on
the delivery of the events of each key: a provider sends an event again until it
gets a 2xx answer, and other requests do not keep all sessions busy for ever.
Nothing forces a provider to make progress, a client to repeat a command or an
operator to act on a break. Nor does anything make `post_entry()` take an entry that
it refuses: an amount that a stale flush took out of the pending account can be
missing for good, and every delivery then fails as the first did. The property
therefore asks that from some moment on the key is not `short`; the code does not
guarantee that, as `ledger_replay` shows.

### What the runs show

What holds:

* No interleaving drives a liability negative (I5), even with stale balances.
* The journal stays append-only, balanced and linked to committed entries.
* An account's balance is where its statements end, at whatever date they are cut
  (`StatementIsBalance`). The only accounts that can differ are those that callers
  read before `post_entry()`, after a flush of an outdated copy; a circle's
  accounts never do.
* Paging through an activity gives every posting that was there at the first page
  exactly once, although later commits appear in the past. A statement of a past
  period stays, unless a session that started in the period was still open.
* A payment moves once, to the end its provider reported, and no consumed final
  event is lost without an entry or a break.
* Of "one immutable agreement per active member" (`docs/architecture.md:242`) this is
  left: no more members of a locked circle lack an agreement than were joining when
  `lock()` counted, and only such members can owe contributions without a payout of
  their own. That does happen: in a circle for two a third person's join passes its
  count, a second member joins, both agree, the owner locks, and then the third
  person's join commits: three members, two agreements.
* The schedule is the committed order, once, and every recipient pays in every cycle.
* A cycle never pays out more than it collected; payout rows, cycles and the
  journal agree; the ledger pays what the provider was sent. A completed circle
  paid out every cycle and recorded a shortfall for what was still due. No number of
  overlapping webhooks takes a recorded payout back.
* A settlement of a payment whose client got an answer reaches the ledger or a
  break, provided that the pending account holds its amount from some moment on.
* A family of refresh tokens has one session that can go on, a password change or
  a logout of all ends the sessions from before, and a password change ends access
  tokens from before. What takes this away is exactly an overlap: two requests
  that read one token before either rotates it; a login or a refresh in flight
  while sessions are cut; two password changes of a user that count from the same
  version, after which the older access tokens stay valid.
* What `GET /auth/sessions` calls active is what a refresh takes, and only the first
  registrations of a system can collide over the platform's account.
* A key takes effect once if a unique row sees to it. A circle is created again
  after an expired lock, a lost answer, or if a retry looked for the answer before
  it was there and took the lock after it was freed: the middleware does not look
  again. Answers to a key agree but for those cases.
* Who was told "created" finds it, unless the commit failed after the answer, or
  the fake rail gave a second top-up the object, and so the row, of the first: it
  then posts nothing.
* A limiter's counter ends with its window unless something fails between `INCR`
  and `EXPIRE`.

What does not, the six findings:

* `MaterializedIsReplay` (I6, `docs/ledger.md:72`): `locked_accounts()` gets
  back the stale object that the caller had read, and the flush overwrites a
  concurrent update.
* `LinearChain` (`docs/ledger.md:76`): `latest_entry_hash()` orders by the start
  of the transaction and then by a random id, so the hash chain forks.
* `WebhookKeepsTerminal` (`docs/payments.md:83`): the check of the state and its
  update are apart, so that a webhook that fetched "processing" puts back what
  another one has settled in between.
* `FailedTopupIsReturned` (`docs/ledger.md:151`): a failed top-up stays pending.
* `ValidTransitions` (`docs/architecture.md:232`): a slow join, lock or reveal
  writes its next state over a later one.
* `ReuseRevokesFamily` (`docs/architecture.md:262`): the refusal of a refresh token
  that was used before rolls back the revocation of its family.

Known and not stated as a property: of two commands with one key (the lock of the
idempotency middleware expired, or Redis failed) the second writes the answer it got
over the payment's state, a terminal one included (`OverwritePayment`); the ledger is
safe from it (`TransfersMoveOnce`). A circle that two joins overfilled before it was
locked can never lock, and a payout that failed keeps its circle from completing; nothing
in the code resolves either. A late failure before the payout is recorded as a
shortfall twice. `BUILD_SHEET.md` (M2-17) asks for arrears before completion
where `complete()` looks at the cycles only.

## The proofs

Every proof has the same plan. None of the properties is inductive: a request
commits what it decided from something it read earlier, so that the rows alone do
not say why the commit is safe. The invariant `IInv` of a module says what a
request that is still under way relies on, and that nothing others commit takes
it away. TLC checked each `IInv` on the run of its module before it was proved.
`Invariance` is `Spec => []IInv`, by a lemma `InitIInv`, one lemma per action and
`NextIInv`; every other theorem about a specification follows from it.

### The ledger

`LedgerProofs` proves, for any accounts, keys, entries, sessions and ranks that
satisfy the assumptions of `Ledger`:

| theorem | states |
| --- | --- |
| `TypeCorrect` | `Spec => []TypeOK` |
| `LiabilitySafe` | `Spec => []LiabilityNonNegative` |
| `WriterHoldsLock` | `Spec => []SingleWriter` |
| `Refinement` | `Spec => JournalIsAppendOnly`, that is `J!Spec` |

Neither `LiabilityNonNegative` nor `JournalIsAppendOnly` is inductive. `Commit`
writes a session's views into the rows, so the views of liabilities have to be
non-negative too, in every session at all times (`ViewNonNegative`); that the
line being applied exists and names an account needs `PostingInv` and
`KnownAccounts`. The journal grows by good entries because the entries in
flight are good behind the committed ones (`PendingIsGood`); that stays true
only as long as nobody else commits, which is `SingleWriter`. The invariant
`IInv` is the conjunction of these with `TypeOK` and the goodness of the
journal. There is one lemma per
action (`BeginIInv` to `RollbackIInv`), two about appending entries
(`AppendGood`, `EntriesOfAppend`) and one about steps that leave the entries
alone (`UnchangedIsGood`).

The assumptions are those named in `Ledger`: accounts are accounts and have a
type, requests name different accounts in their lines, the sentinels are no key
and no session, the bound is a number.

### The formation of a circle

`CircleFormationProofs` proves, for any target, people, invites and sessions:

| theorem | states |
| --- | --- |
| `TypeCorrect` | `Spec => []TypeOK` |
| `UnagreedBounded` | `Spec => []UnagreedWereJoining` |
| `OthersReceive` | `Spec => []OnlyLateMembersMissOut` |
| `RecipientsPayAlways` | `Spec => []RecipientsPay` |
| `DrawBinds` | `Spec => DrawIsBinding` |

A request commits a state that it decided on earlier, so none of these is inductive
in the committed rows alone. The argument is that what a request relied on cannot be
taken back: members and agreements only grow, and a stored draw never changes. The
invariant `IInv` therefore says of requests under way what the properties say of
rows: who is about to agree is a member (`AgreeingMembers`); once a `lock()` has
counted its members, these and whoever is `late` are all there can be, because a
circle that was full lets no further join begin (`CountIsKept`); who is about to
commit the lock or to reveal has seen enough agreements (`EnoughAgreed`), so that at
most the late ones lack theirs; a schedule that is still being generated follows the
draw, and everybody in the draw is still a member, so that each of its cycles has
all recipients among its payers (`ScheduleFollowsDraw`). `WorkKeepsRest` is the step
that most actions share. There is one lemma per action; the assumptions are
`CircleAssumption`: finitely many people, the owner one of them, and a target of at
least two.

### Settlement

`SettlementProofs` proves, for any keys, flows, rails, sessions and numbers of
failed transactions:

| theorem | states |
| --- | --- |
| `TypeCorrect` | `Spec => []TypeOK` |
| `FinalEventsAccounted` | `Spec => []FinalEventsAccountedFor` |
| `Refinement` | `Spec => TransfersMoveOnce`, that is `T!Spec` |

The argument is that the end of a payment at its provider stays: `StatusMeaning` and
`FinalStatus` derive it from the steps and the maps of every rail, `Reported` says
it of a state that was seen at some time, and `ReportsKept` that no later step
contradicts it. Every session that fetched a state (`WorkStands`), every row and
entry (`RowsStand`) and every event (`EventsStand`) rests on it. A transfer then
leaves `pending` by one entry because a second final entry would contradict the
report of the first.

The assumptions are those of `Settlement`: every key has a flow and a rail, Stripe
only takes top-ups, and the bounds are numbers.

### The money of a circle

`CircleMoneyProofs` proves, for any number of members, any first due date, any
sessions and either rail:

| theorem | states |
| --- | --- |
| `TypeCorrect` | `Spec => []TypeOK` |
| `PayoutCovered` | `Spec => []PayoutIsCovered` |
| `LedgerFollowsProvider` | `Spec => []LedgerPaysWhatWasSent` |
| `JournalMatched` | `Spec => []RowsMatchJournal` |
| `CompletionExplained` | `Spec => []CompletedIsExplained` |
| `PayoutsAreFinal` | `Spec => PayoutIsFinal` |

`execute_payout()` counts the collected contributions and pays that number later.
The invariant says of a counted amount that it stays covered (`Covered`): the
entries of collections only become more, and the contributions still due only fewer,
so that what is missing never exceeds the shortfall (`CoveredKept`,
`CountIsCovered`; `PayoutPosted` for the entry itself). Over a provider the amount
is also that of the provider's object (`SentFor`), and a final answer stays
(`Told`), so that two webhooks that read one payout write the same over it.
`CycleRows` and `SlotRows` are `RowsMatchJournal` for one cycle and for one
contribution, which is the part that a step disturbs. The theorems about finite sets
give the cardinalities.

The assumptions: a circle has members, its start is a date of `Calendar`, and the
value that stands for "no row" is not a row.

### Identity

`IdentityProofs` proves, for any users, passwords, tokens and requests:

| theorem | states |
| --- | --- |
| `TypeCorrect` | `Spec => []TypeOK` |
| `SingleSession` | `Spec => []OneSessionPerFamily` |
| `CutsEndSessions` | `Spec => []CutEndsSessions` |
| `ChangesEndAccess` | `Spec => []ChangeEndsAccess` |
| `ActiveRefreshes` | `Spec => []ActiveIsRefreshable` |
| `LateOnesDoNotCollide` | `Spec => OnlyFirstCollide` |

That a family has one session that can go on is about its last token: one token
has no successor (`OneIsLast`), unless two requests rotated the same one. A request
that is about to rotate has read a token of its user's whose family no cut has
ended, or was in flight at that cut (`Rotating`, `Spared`), so that rotation never
brings a session back. The version of a user counts the password changes, as do the
version of an access token and the one that a request has read, as long as no two
changes overlapped (`VersionsStand`). `EmailsApart` has at most one registration
under way for an e-mail: the unique index makes the second wait, or fail.

The assumptions: the value that stands for "none" is no e-mail, password or token,
and the bounds are numbers.

### Requests

`RequestsProofs` proves, for any keys, any sets of requests, arrivals, failures
and any limit:

| theorem | states |
| --- | --- |
| `TypeCorrect` | `Spec => []TypeOK` |
| `EffectsOnce` | `Spec => []OneEffectPerKey` |
| `OverlapsExplained` | `Spec => []OverlapIsExplained` |
| `CreatedCommitted` | `Spec => []CreatedIsCommitted` |
| `SameAnswers` | `Spec => []AnswersAgree` |
| `CountersExpire` | `Spec => []CounterExpires` |

For a key to which nothing on the list of causes has happened, the middleware works:
one request at most is being served, and it holds the lock (`LockStands`); an effect
has its answer stored, or about to be, and every client got that one
(`AnswerStands`). Each action either keeps this or adds its cause. What unique rows
guarantee does not depend on causes (`OnceStands`, `TopupsStand`), and neither does
`PromiseStands`, of which `CreatedIsCommitted` is a part. That the counter stays
within its type needs `CountStands`: the requests that are counted and those that
may still be are no more than have arrived.

The assumptions: a key has one kind, the value that stands for "none" is no key,
request or status, the limit is positive and the bounds are numbers.

### Reading the ledger

`LedgerQueriesProofs` proves, for any ledger, wallet and page size:

| theorem | states |
| --- | --- |
| `QueryInvariance` | `QuerySpec => []QueryInv` |
| `BalanceInvariance` | `QuerySpec => []BalanceInv` |
| `StatementsStay` | `QuerySpec => []StatementStands` |
| `StatementsEndAtBalance` | `QuerySpec => []StatementIsBalance` |
| `PagesComplete` | `QuerySpec => []PagesAreComplete` |

A client's reads leave the ledger alone (`LedgerStands`), so that the ledger's `IInv`
holds here as well.

*Statements stay.* Entries in flight are dated by the start of their transaction
(`PendingDates`); nobody who is at work has started, or will start, in a period that
was over and without open sessions when it was read (`PeriodIsOver`); so the rows
before its end stay the same set (`EarlyStays`), and with them the sum.

*Statements end at the balance.* `BalanceInv` says why a commit that writes absolute
balances adds what it posted: a copy that a session has read under the advisory lock
is the committed balance and what the session itself has posted, but for a line that
`post_entry()` has still to apply (`CopyStands`), and the session holds the lock
until it ends (`ViewStands`), so that nobody moves the committed balance behind it.
A copy read before `post_entry()` has no such guarantee; `overwritten` notes the
accounts that were flushed with an outdated one. For all others the balance is what
the committed entries post (`BalancesStand`), and the rows of a statement add up to
that wherever they are cut (`ClosingIsPostings`).

*Sums.* The library's sums recurse over a set in the order of `CHOOSE`. What they
compute is proved by induction over the subsets of a finite set, as sets and not as
predicates (`StrongInduction`, from the library's well-founded orders): the recursion
has one solution, and it adds up in any order (`RecursionIsAdditive`,
`RecursionIsSum`, `SumOfUnion`). That rows and entries have the same sum
(`SumOfRowsOf`) needs that two entries never share a row, which is what the primary
key of `posting` and the unique key of `journal_entry` give.

*Pages.* A listing by cursor is right because `(created_at, id)` is a total order
(`OlderIsTotal`), so that the row at the i-th place is there and unique (`Places`): a
page holds what is newest behind the cursor and nothing behind the next cursor
(`PageOf`). `PageInv` says of a listing that the ids it gave are of different
committed rows, none of them behind the cursor, and that none is missing up to it.
Commits between two pages may add rows before the cursor, but none that the client
was promised (`ListingKept`), and the next page continues (`TurnPage`).

Assumed, as `QueryAssumption`: the ids of postings are unique, every line of a
request has one, a page has at least one row, and no row is the absent cursor.

### The calendar

`CalendarProofs` proves, for every date from year 0 on and every number of months:

| theorem | states |
| --- | --- |
| `DueDatesExist` | `add_months()` gives a date that exists |
| `DueDatesIncrease` | a later cycle is due on a later date |
| `PeriodsAgree` | a circle's and a wallet's period of a month are the same days |
| `PeriodsPartition` | every date is in the period of exactly one month |

`CircleMoney` takes its due dates from `add_months()`: the theorems say that they
exist and come in the order of the cycles, from any start. That periods partition
the dates is what makes the closing balance of a statement the opening balance of
the next. The argument is the number of the month (`MonthsCount`): `add_months()`
adds to it, and the day only matters within one month.

### What is not proved

Every safety property and every action property that a passing run checks is also
stated by a theorem. Model-checked only is `SettlementReachesLedger`, which is
liveness. The violated properties of the findings are false, so there is nothing to
prove about them.

## Not modelled

* Jobs: `enqueue_after_commit()` has no caller, so the queue is always empty. If it
  had one: jobs are taken from the session before they are enqueued
  (`workers/jobs.py:47`), and an error in the middle loses the rest.
* `PaymentsService.reconcile()`, the rails' mandates and onboarding, and
  `reversed_entry_id` have no caller. Signing, HTTP and parsing are I/O.
* The change of a profile (one row of one user), notifications, health, logging,
  configuration, tools and migrations; unique constraints of the migrations are
  guards of the models.
* The wallet row that a query creates for a member without one; registration
  creates one for every member.
* The rate limits other than that of registration: they differ in the numbers. The
  limit on a user's writes is only applied by the identity router.
* The ends of the calendar: a statement of `0000-01` or of `9999-12` has no date
  to start or end at and is answered with 500 (`wallets/service.py:627`).
* Payment idempotency keys are unique over all members
  (`wallets/service.py:378`); the models take a key per command.

## Plan

1. State what is left of the other findings as properties with their causes, as
   `Requests` does: when a linear chain, a replayed balance or a state that stays is
   guaranteed after all, and prove those.
2. Extend the models where the code grows: jobs once something enqueues one,
   reconciliation once something calls it.
