------------------------------- MODULE Ledger -------------------------------
(***************************************************************************)
(* The double-entry ledger primitive of app/db/ledger.py, as concurrent    *)
(* database sessions use it.                                               *)
(*                                                                         *)
(* Every HTTP request runs in one session and one Postgres transaction     *)
(* (app/db/engine.py::session_scope, READ COMMITTED).  A request reads     *)
(* some accounts by code, then calls post_entry() one or more times, then  *)
(* the transaction commits or rolls back as a whole.  post_entry() takes a *)
(* transaction-level advisory lock, selects the accounts FOR UPDATE and    *)
(* applies the lines to the ORM objects it got back.                       *)
(*                                                                         *)
(* Two facts of SQLAlchemy and Postgres decide how this behaves:           *)
(*  - a SELECT never overwrites an object that is already in the session's *)
(*    identity map (no populate_existing), so an account the request had   *)
(*    read earlier keeps the balance it was read with, FOR UPDATE or not;  *)
(*    the flush then writes that balance plus the delta as an absolute     *)
(*    value;                                                               *)
(*  - now() is the start time of the transaction, so the created_at of an  *)
(*    entry is not the time at which it was posted, and the entries of one *)
(*    transaction share it.                                                *)
(***************************************************************************)
EXTENDS Integers, Sequences, FiniteSets, FiniteSetsExt

CONSTANTS
  AccountIds,   \* account ids that a posting may name
  Accounts,     \* the rows of ledger_account
  AccountType,  \* account -> taxonomy
  ReadFirst,    \* accounts that callers load before they call post_entry()
  Keys,         \* journal idempotency keys
  NoEntry,      \* previous_hash IS NULL
  Requests,     \* the entries that callers submit
  Workers,      \* concurrent sessions
  NoWorker,     \* nobody holds the advisory lock
  Ranks,        \* order of the random uuid primary keys
  MaxStarts     \* bound: transactions that start in one behaviour

AccountTypes == {"asset", "liability", "income", "expense", "equity"}
Line == [account : AccountIds, side : {"debit", "credit"}, amount : Int]
Request == [key : Keys, lines : Seq(Line)]

ASSUME AccountAssumption ==
  /\ Accounts \subseteq AccountIds
  /\ AccountType \in [Accounts -> AccountTypes]
  /\ ReadFirst \subseteq Accounts
ASSUME RequestAssumption ==
  /\ Requests \subseteq Request
  \* Each caller names different accounts in the lines of an entry.
  /\ \A r \in Requests : \A i, j \in DOMAIN r.lines :
       r.lines[i].account = r.lines[j].account => i = j
ASSUME SentinelAssumption ==
  /\ NoEntry \notin Keys
  /\ NoWorker \notin Workers
ASSUME BoundAssumption ==
  /\ Ranks \subseteq Nat
  /\ MaxStarts \in Nat

VARIABLES
  balance,     \* committed ledger_account.balance_minor
  journal,     \* committed journal entries with their postings, in commit order
  chainLock,   \* holder of pg_advisory_xact_lock(2701001)
  clock,       \* the database's clock
  phase,       \* what each session is doing
  startedAt,   \* now() of each session's transaction
  loaded,      \* accounts in each session's identity map
  view,        \* the balances of those objects
  pending,     \* entries flushed but not yet committed, in post order
  nextLine     \* next posting of the entry being applied

vars == <<balance, journal, chainLock, clock, phase, startedAt, loaded, view,
          pending, nextLine>>

(* A row of journal_entry with its postings.  compute_entry_hash covers the *)
(* unique idempotency key, so the key stands for the hash of the entry.     *)
Entry == [key : Keys, prev : Keys \cup {NoEntry}, createdAt : Nat,
          rank : Ranks, lines : Seq(Line)]

-----------------------------------------------------------------------------
(* Pure helpers of app/db/ledger.py.                                        *)

LinesOn(lines, side) == {i \in DOMAIN lines : lines[i].side = side}

Total(lines, side) ==
  MapThenSumSet(LAMBDA i : lines[i].amount, LinesOn(lines, side))

ValidPostings(lines) ==
  /\ Len(lines) >= 2
  /\ \A i \in DOMAIN lines : lines[i].amount > 0
  /\ Total(lines, "debit") = Total(lines, "credit")

DebitNormal(a) == AccountType[a] \in {"asset", "expense"}

AccountDelta(line) ==
  IF (line.side = "debit") <=> DebitNormal(line.account)
  THEN line.amount ELSE -line.amount

PostingsTo(a) ==
  {p \in UNION {{i} \X DOMAIN journal[i].lines : i \in DOMAIN journal} :
     journal[p[1]].lines[p[2]].account = a}

ReplayBalance(a) ==
  MapThenSumSet(LAMBDA p : AccountDelta(journal[p[1]].lines[p[2]]), PostingsTo(a))

-----------------------------------------------------------------------------
EntriesOf(seq) == {seq[i] : i \in DOMAIN seq}
KeysOf(seq) == {seq[i].key : i \in DOMAIN seq}
Current(w) == pending[w][Len(pending[w])]

(* What a statement of w's transaction sees of the journal.                 *)
Visible(w) == EntriesOf(journal) \cup EntriesOf(pending[w])

Newer(e, f) ==
  \/ e.createdAt > f.createdAt
  \/ e.createdAt = f.createdAt /\ e.rank > f.rank

(* ORDER BY created_at DESC, id DESC LIMIT 1                                *)
LatestEntryHash(w, prev) ==
  IF Visible(w) = {}
  THEN prev = NoEntry
  ELSE \E e \in Visible(w) :
         /\ prev = e.key
         /\ \A f \in Visible(w) : ~Newer(f, e)

(* Variant: only the last entry of the transaction is written back.         *)
TouchedLast(w) == {Current(w).lines[i].account : i \in DOMAIN Current(w).lines}

(* The accounts with a changed balance, which the flush writes.             *)
Touched(w) ==
  UNION {{e.lines[i].account : i \in DOMAIN e.lines} : e \in EntriesOf(pending[w])}

Init ==
  /\ balance = [a \in Accounts |-> 0]
  /\ journal = <<>>
  /\ chainLock = NoWorker
  /\ clock = 0
  /\ phase = [w \in Workers |-> "idle"]
  /\ startedAt = [w \in Workers |-> 0]
  /\ loaded = [w \in Workers |-> {}]
  /\ view = [w \in Workers |-> [a \in Accounts |-> 0]]
  /\ pending = [w \in Workers |-> <<>>]
  /\ nextLine = [w \in Workers |-> 1]

(* The first statement of a request starts its transaction.                 *)
Begin(w) ==
  /\ phase[w] = "idle"
  /\ clock < MaxStarts
  /\ clock' = clock + 1
  /\ phase' = [phase EXCEPT ![w] = "open"]
  /\ startedAt' = [startedAt EXCEPT ![w] = clock + 1]
  /\ UNCHANGED <<balance, journal, chainLock, loaded, view, pending, nextLine>>

ReadBefore(w, a) == a \in ReadFirst \ loaded[w]

(* LedgerService.get_account_by_code() before the posting.                  *)
ReadAccount(w, a) ==
  /\ phase[w] = "open"
  /\ ReadBefore(w, a)
  /\ loaded' = [loaded EXCEPT ![w] = @ \cup {a}]
  /\ view' = [view EXCEPT ![w][a] = balance[a]]
  /\ UNCHANGED <<balance, journal, chainLock, clock, phase, startedAt, pending,
                 nextLine>>

(* locked_accounts(): rows come back fresh unless already in the identity map. *)
LockedAccounts(w, named) ==
  /\ loaded' = [loaded EXCEPT ![w] = @ \cup named]
  /\ view' = [view EXCEPT ![w] =
                [a \in Accounts |-> IF a \in named \ loaded[w] THEN balance[a] ELSE @[a]]]

(* Variant: pg_try_advisory_xact_lock() with its answer ignored.            *)
TryLockChain(w) == chainLock' = IF chainLock = NoWorker THEN w ELSE chainLock

(* lock_ledger_hash_chain(): waits for the transaction that holds the lock.  *)
LockChain(w) == chainLock \in {NoWorker, w} /\ chainLock' = w

(* Variant: ids without a row are not looked for.                           *)
NamesUnchecked(named) == TRUE

(* len(accounts) == len(account_ids)                                        *)
NamesExist(named) == named \subseteq Accounts

(* Variant: journal_entry.idempotency_key is not unique.                    *)
KeyUnchecked(w, key) == TRUE

(* The unique index on journal_entry.idempotency_key.                       *)
KeyFree(w, key) == key \notin KeysOf(journal) \cup KeysOf(pending[w])

(* post_entry() up to the flush of the journal_entry row.  Once the advisory *)
(* lock is granted nobody else writes the ledger until this transaction      *)
(* ends, so the statements up to that flush are one step.                    *)
PostEntry(w, r, prev, rank) ==
  LET named == {r.lines[i].account : i \in DOMAIN r.lines}
  IN /\ phase[w] = "open"
     /\ ValidPostings(r.lines)
     /\ LockChain(w)
     /\ NamesExist(named)
     /\ KeyFree(w, r.key)
     /\ LatestEntryHash(w, prev)
     /\ \A e \in EntriesOf(pending[w]) : e.rank # rank
     /\ LockedAccounts(w, named)
     /\ pending' = [pending EXCEPT ![w] = Append(@,
                      [key |-> r.key, prev |-> prev, createdAt |-> startedAt[w],
                       rank |-> rank, lines |-> r.lines])]
     /\ phase' = [phase EXCEPT ![w] = "posting"]
     /\ nextLine' = [nextLine EXCEPT ![w] = 1]
     /\ UNCHANGED <<balance, journal, clock, startedAt>>

(* Variant: the check looks at the wrong taxonomy.                          *)
AssetStaysPositive(a, updated) == AccountType[a] = "asset" => updated >= 0

(* negative_liability_error                                                 *)
LiabilityStaysPositive(a, updated) == AccountType[a] = "liability" => updated >= 0

(* One turn of the loop over the postings; the last one ends post_entry().  *)
ApplyLine(w) ==
  /\ phase[w] = "posting"
  /\ LET line == Current(w).lines[nextLine[w]]
         updated == view[w][line.account] + AccountDelta(line)
     IN /\ LiabilityStaysPositive(line.account, updated)
        /\ view' = [view EXCEPT ![w][line.account] = updated]
  /\ IF nextLine[w] = Len(Current(w).lines)
     THEN phase' = [phase EXCEPT ![w] = "open"] /\ UNCHANGED nextLine
     ELSE nextLine' = [nextLine EXCEPT ![w] = @ + 1] /\ UNCHANGED phase
  /\ UNCHANGED <<balance, journal, chainLock, clock, startedAt, loaded, pending>>

ReleaseLock(w) == chainLock' = IF chainLock = w THEN NoWorker ELSE chainLock

CloseSession(w) ==
  /\ phase' = [phase EXCEPT ![w] = "idle"]
  /\ loaded' = [loaded EXCEPT ![w] = {}]
  /\ view' = [view EXCEPT ![w] = [a \in Accounts |-> 0]]
  /\ pending' = [pending EXCEPT ![w] = <<>>]
  /\ nextLine' = [nextLine EXCEPT ![w] = 1]
  /\ UNCHANGED <<clock, startedAt>>

(* session.commit(): the flushed absolute balances become the rows' values. *)
Commit(w) ==
  /\ phase[w] = "open"
  /\ pending[w] # <<>>
  /\ balance' = [a \in Accounts |-> IF a \in Touched(w) THEN view[w][a] ELSE balance[a]]
  /\ journal' = journal \o pending[w]
  /\ ReleaseLock(w)
  /\ CloseSession(w)

(* session.rollback(): an AppError of post_entry() (invalid postings,       *)
(* unknown account, negative liability), a unique violation, any exception  *)
(* of the handler, or a crash of the process.                               *)
Rollback(w) ==
  /\ phase[w] # "idle"
  /\ ReleaseLock(w)
  /\ CloseSession(w)
  /\ UNCHANGED <<balance, journal>>

Next ==
  \E w \in Workers :
    \/ Begin(w)
    \/ \E a \in Accounts : ReadAccount(w, a)
    \/ \E r \in Requests, prev \in Keys \cup {NoEntry}, rank \in Ranks :
         PostEntry(w, r, prev, rank)
    \/ ApplyLine(w)
    \/ Commit(w)
    \/ Rollback(w)

Spec == Init /\ [][Next]_vars

-----------------------------------------------------------------------------
Phases == {"idle", "open", "posting"}

(* Types of the state, and that a session being posted to has a line left.  *)
TypeOK ==
  /\ balance \in [Accounts -> Int]
  /\ journal \in Seq(Entry)
  /\ chainLock \in Workers \cup {NoWorker}
  /\ clock \in 0..MaxStarts
  /\ phase \in [Workers -> Phases]
  /\ startedAt \in [Workers -> 0..MaxStarts]
  /\ loaded \in [Workers -> SUBSET Accounts]
  /\ view \in [Workers -> [Accounts -> Int]]
  /\ pending \in [Workers -> Seq(Entry)]
  /\ nextLine \in [Workers -> Nat \ {0}]

(* I5 of docs/ledger.md: post_entry() never leaves a liability account with *)
(* a negative balance, whatever the other sessions had cached or committed. *)
LiabilityNonNegative ==
  \A a \in Accounts : AccountType[a] = "liability" => balance[a] >= 0

(* Only the holder of the advisory lock has entries in flight, so what      *)
(* latest_entry_hash() and the unique index see cannot change under it.     *)
SingleWriter ==
  \A w \in Workers : pending[w] # <<>> => chainLock = w

(* I6 of docs/ledger.md: "Replaying postings from genesis produces the      *)
(* materialized balances", for every account.                               *)
MaterializedIsReplay == \A a \in Accounts : balance[a] = ReplayBalance(a)

(* docs/ledger.md, Hash Chain: "Each journal entry stores a SHA-256 hash    *)
(* over deterministic entry content and the previous journal hash": every   *)
(* entry links to the one that was posted just before it.                   *)
LinearChain ==
  \A i \in 2..Len(journal) : journal[i].prev = journal[i - 1].key

J == INSTANCE Journal WITH Balanced <- ValidPostings

(* Commits implement the append-only journal of docs/ledger.md: committed   *)
(* entries stay as they are, new ones are balanced, use a fresh key and     *)
(* link to an entry that is committed, never to one that was rolled back.   *)
JournalIsAppendOnly == J!Spec

=============================================================================
