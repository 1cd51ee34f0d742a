---------------------------- MODULE LedgerQueries ----------------------------
(***************************************************************************)
(* What clients read of the ledger while sessions go on posting: the       *)
(* activity of a wallet, page by page with a cursor, and the statement of  *)
(* a period (LedgerService.list_account_activity(), account_statement();   *)
(* WalletService.activity_for_member(), statement_for_member()).           *)
(*                                                                         *)
(* Every page and every statement is a request of its own and sees what is *)
(* committed by then.  The order and the periods go by created_at, which   *)
(* is when a transaction started: entries appear in the past.              *)
(***************************************************************************)
EXTENDS Ledger

CONSTANTS
  Codes,       \* the accounts of one wallet
  PostingId,   \* key -> the random ids of the entry's postings, as numbers
  PageLimit,   \* rows per page
  None         \* no cursor, no statement

ASSUME QueryAssumption ==
  /\ Codes \subseteq Accounts
  /\ PageLimit \in Nat \ {0}
  /\ None \notin [id : Nat, createdAt : Nat, delta : Int]
  /\ PostingId \in [Keys -> Seq(Nat)]
  \* Every posting has an id, the primary key of its row.
  /\ \A r \in Requests : Len(r.lines) <= Len(PostingId[r.key])
  /\ \A k, l \in Keys : \A i \in DOMAIN PostingId[k], j \in DOMAIN PostingId[l] :
       PostingId[k][i] = PostingId[l][j] => k = l /\ i = j

VARIABLES
  listing,     \* a client's listing: its cursor and the rows it was given
  statement,   \* a statement that a client has read
  overwritten  \* history: accounts that a flush has set to an outdated balance

queries == <<listing, statement, overwritten>>

\* The join of posting, journal_entry and ledger_account.
Rows(codes) ==
  UNION {{[id |-> PostingId[e.key][j], createdAt |-> e.createdAt,
           delta |-> AccountDelta(e.lines[j])] :
            j \in {j \in DOMAIN e.lines : e.lines[j].account \in codes}} :
         e \in EntriesOf(journal)}

-----------------------------------------------------------------------------
(* GET /wallet/activity *)

Older(p, q) ==
  \/ p.createdAt < q.createdAt
  \/ p.createdAt = q.createdAt /\ p.id < q.id

\* Variant: the cursor is only compared by time.
OlderByTime(p, cursor) == cursor # None => p.createdAt < cursor.createdAt

BeforeCursor(p, cursor) == cursor # None => Older(p, cursor)

\* ORDER BY created_at DESC, id DESC LIMIT limit: as many rows come before the
\* i-th one as are newer.
ListAccountActivity(codes, limit, cursor) ==
  LET rows == {p \in Rows(codes) : BeforeCursor(p, cursor)}
      size == Cardinality(rows)
  IN [i \in 1..(IF size < limit THEN size ELSE limit) |->
        CHOOSE p \in rows : Cardinality({q \in rows : Older(p, q)}) = i - 1]

\* One row more than the page tells whether there is a next one.
Page(given, known, cursor) ==
  LET rows == ListAccountActivity(Codes, PageLimit + 1, cursor)
      page == SubSeq(rows, 1, IF Len(rows) < PageLimit THEN Len(rows) ELSE PageLimit)
  IN [given |-> given \o [i \in DOMAIN page |-> page[i].id],
      known |-> known,
      cursor |-> IF Len(rows) > PageLimit THEN page[PageLimit] ELSE None]

FirstPage ==
  /\ listing = None
  /\ listing' = Page(<<>>, {p.id : p \in Rows(Codes)}, None)
  /\ UNCHANGED <<vars, statement, overwritten>>

NextPage ==
  /\ listing # None
  /\ listing.cursor # None
  /\ listing' = Page(listing.given, listing.known, listing.cursor)
  /\ UNCHANGED <<vars, statement, overwritten>>

-----------------------------------------------------------------------------
(* GET /statements/{period} *)

Sum(rows) == MapThenSumSet(LAMBDA p : p.delta, rows)

\* Variant: the first moment of the next period belongs to both.
StartsUpTo(p, time) == p.createdAt <= time

StartsBefore(p, time) == p.createdAt < time

\* account_statement() of the period from start to end, end excluded.
AccountStatement(codes, start, end) ==
  LET rows == {p \in Rows(codes) : StartsBefore(p, end)}
      opening == Sum({p \in rows : p.createdAt < start})
      movement == Sum({p \in rows : ~(p.createdAt < start)})
  IN [opening |-> opening, movement |-> movement, closing |-> opening + movement]

Now == clock + 1

\* A client reads the statement of a period that is over: nothing starts in it
\* any more, but sessions that started in it may still be at work.
ReadStatement(end) ==
  /\ statement = None
  /\ end <= Now
  /\ statement' = [end |-> end,
                   closing |-> AccountStatement(Codes, 0, end).closing,
                   open |-> {w \in Workers : phase[w] # "idle" /\ startedAt[w] < end}]
  /\ UNCHANGED <<vars, listing, overwritten>>

-----------------------------------------------------------------------------
\* What an entry posts to a, what several do, and what w itself has posted.
Posted(e, a) ==
  MapThenSumSet(LAMBDA i : AccountDelta(e.lines[i]), {i \in DOMAIN e.lines : e.lines[i].account = a})

Postings(entries, a) == MapThenSumSet(LAMBDA e : Posted(e, a), entries)

Own(w, a) == Postings(EntriesOf(pending[w]), a)

\* w's copy of the balance started from another value than the committed one.
Outdated(w, a) == view[w][a] # balance[a] + Own(w, a)

LedgerStep ==
  /\ Next
  /\ overwritten' = overwritten \cup
       UNION {{a \in Touched(w) : Outdated(w, a)} :
              w \in {w \in Workers : journal' # journal /\ phase[w] # phase'[w]}}
  /\ UNCHANGED <<listing, statement>>

QueryInit ==
  /\ Init
  /\ listing = None
  /\ statement = None
  /\ overwritten = {}

QueryNext ==
  \/ LedgerStep
  \/ FirstPage \/ NextPage
  \/ \E end \in 1..(MaxStarts + 1) : ReadStatement(end)

QuerySpec == QueryInit /\ [][QueryNext]_<<vars, queries>>

-----------------------------------------------------------------------------
(* What holds *)

\* Paging gives every posting that was there at the first page exactly once,
\* although entries are committed between the pages, some of them
\* with a created_at before the cursor, and although postings tie in created_at.
PagesAreComplete ==
  listing # None =>
    /\ \A i, j \in DOMAIN listing.given : listing.given[i] = listing.given[j] => i = j
    /\ \A p \in Rows(Codes) :
         /\ p.id \in listing.known /\ (listing.cursor # None => ~Older(p, listing.cursor))
         => p.id \in EntriesOf(listing.given)

\* The statement of a period that is over stays as it was read, unless a session
\* that had started in the period was still open: its entries appear in it later.
StatementStands ==
  statement # None =>
    \/ AccountStatement(Codes, 0, statement.end).closing = statement.closing
    \/ statement.open # {}

\* The balance of an account is where its statements end, whatever the period they
\* are cut at; only an account that callers read before post_entry() (GET
\* /wallet/balance reads the same rows) can differ, after a flush of an outdated one.
StatementIsBalance ==
  \A a \in Accounts, start \in 0..Now :
    \/ balance[a] = AccountStatement({a}, start, Now).closing
    \/ a \in overwritten \cap ReadFirst

=============================================================================
