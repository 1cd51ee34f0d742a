---------------------------- MODULE LedgerProofs ----------------------------
(***************************************************************************)
(* Proofs about Ledger, for every set of accounts, requests, sessions and  *)
(* keys: the inductive invariant, the safety invariants that follow from   *)
(* it, and that Ledger implements Journal.                                 *)
(***************************************************************************)
EXTENDS Ledger, TLAPS

(* While lines are being applied there is an entry, and a next line in it.  *)
PostingInv ==
  \A w \in Workers :
    /\ phase[w] = "posting" =>
         /\ pending[w] # <<>>
         /\ nextLine[w] <= Len(Current(w).lines)
    /\ phase[w] = "idle" => pending[w] = <<>>

(* Lines in flight name accounts that exist.                                *)
KnownAccounts ==
  \A w \in Workers : \A e \in EntriesOf(pending[w]) :
    \A i \in DOMAIN e.lines : e.lines[i].account \in Accounts

(* No session holds a negative balance of a liability account.              *)
ViewNonNegative ==
  \A w \in Workers, a \in Accounts :
    AccountType[a] = "liability" => view[w][a] >= 0

AllGood(j) == \A i \in DOMAIN j : J!GoodEntry(j, i)

(* What a session would commit now extends the journal by good entries.     *)
PendingIsGood == \A w \in Workers : AllGood(journal \o pending[w])

IInv ==
  /\ TypeOK
  /\ SingleWriter
  /\ PostingInv
  /\ KnownAccounts
  /\ LiabilityNonNegative
  /\ ViewNonNegative
  /\ AllGood(journal)
  /\ PendingIsGood

-----------------------------------------------------------------------------
(* A good journal stays good when an entry with a fresh key that links to   *)
(* one of its entries is appended.                                          *)
LEMMA AppendGood ==
  ASSUME NEW j \in Seq(Entry), NEW e \in Entry,
         AllGood(j),
         ValidPostings(e.lines),
         \A h \in DOMAIN j : j[h].key # e.key,
         IF j = <<>> THEN e.prev = NoEntry
                     ELSE \E h \in DOMAIN j : e.prev = j[h].key
  PROVE  AllGood(Append(j, e))
<1> DEFINE k == Append(j, e)
<1>1. /\ k \in Seq(Entry)
      /\ Len(k) = Len(j) + 1
      /\ \A i \in 1..Len(j) : k[i] = j[i]
      /\ k[Len(j) + 1] = e
  OBVIOUS
<1>2. DOMAIN k = 1..(Len(j) + 1) /\ DOMAIN j = 1..Len(j) /\ Len(j) \in Nat
  BY <1>1
<1> HIDE DEF k
<1>3. ASSUME NEW i \in DOMAIN k PROVE J!GoodEntry(k, i)
  <2>1. CASE i <= Len(j)
    <3>1. i \in DOMAIN j /\ J!GoodEntry(j, i)
      BY <1>2, <2>1 DEF AllGood
    <3>2. \A h \in 1..i : k[h] = j[h]
      BY <1>1, <1>2, <2>1
    <3>3. QED
      BY <1>2, <3>1, <3>2 DEF J!GoodEntry, J!LinksBack
  <2>2. CASE i = Len(j) + 1
    <3>1. ValidPostings(k[i].lines)
      BY <1>1, <2>2
    <3>2. \A h \in 1..(i - 1) : k[h].key # k[i].key
      BY <1>1, <1>2, <2>2
    <3>3. J!LinksBack(k, i)
      <4>1. CASE j = <<>>
        BY <1>1, <1>2, <2>2, <4>1 DEF J!LinksBack
      <4>2. CASE j # <<>>
        BY <1>1, <1>2, <2>2, <4>2 DEF J!LinksBack
      <4>3. QED
        BY <4>1, <4>2
    <3>4. QED
      BY <3>1, <3>2, <3>3 DEF J!GoodEntry
  <2>3. QED
    BY <1>2, <1>3, <2>1, <2>2
<1>4. QED
  BY <1>3 DEF AllGood, k

LEMMA EntriesOfAppend ==
  ASSUME NEW S, NEW s \in Seq(S), NEW x \in S
  PROVE  EntriesOf(Append(s, x)) = EntriesOf(s) \cup {x}
<1> DEFINE t == Append(s, x)
<1>1. /\ DOMAIN t = 1..(Len(s) + 1) /\ DOMAIN s = 1..Len(s)
      /\ Len(s) \in Nat
      /\ \A i \in 1..Len(s) : t[i] = s[i]
      /\ t[Len(s) + 1] = x
  OBVIOUS
<1> HIDE DEF t
<1>2. ASSUME NEW y \in EntriesOf(t) PROVE y \in EntriesOf(s) \cup {x}
  BY <1>1 DEF EntriesOf
<1>3. ASSUME NEW y \in EntriesOf(s) \cup {x} PROVE y \in EntriesOf(t)
  <2>1. CASE y \in EntriesOf(s)
    BY <1>1, <2>1 DEF EntriesOf
  <2>2. CASE y = x
    <3>1. Len(s) + 1 \in DOMAIN t
      BY <1>1
    <3>2. QED
      BY <1>1, <2>2, <3>1 DEF EntriesOf
  <2>3. QED
    BY <1>3, <2>1, <2>2
<1>4. QED
  BY <1>2, <1>3 DEF t

-----------------------------------------------------------------------------
LEMMA InitIInv == Init => IInv
<1> SUFFICES ASSUME Init PROVE IInv
  OBVIOUS
<1> USE DEF Init
<1>1. TypeOK
  BY BoundAssumption DEF TypeOK, Phases
<1>2. SingleWriter /\ PostingInv
  BY DEF SingleWriter, PostingInv
<1>3. KnownAccounts
  BY DEF KnownAccounts, EntriesOf
<1>4. LiabilityNonNegative /\ ViewNonNegative
  BY DEF LiabilityNonNegative, ViewNonNegative
<1>5. AllGood(journal) /\ PendingIsGood
  BY DEF AllGood, PendingIsGood
<1>6. QED
  BY <1>1, <1>2, <1>3, <1>4, <1>5 DEF IInv

(* A step that writes neither the journal nor an entry in flight keeps them  *)
(* good.                                                                    *)
LEMMA UnchangedIsGood ==
  ASSUME AllGood(journal), PendingIsGood, UNCHANGED <<journal, pending>>
  PROVE  AllGood(journal)' /\ PendingIsGood'
<1>1. journal' = journal /\ pending' = pending
  OBVIOUS
<1>2. AllGood(journal')
  BY <1>1
<1>3. \A u \in Workers : AllGood(journal' \o pending'[u])
  BY <1>1 DEF PendingIsGood
<1>4. QED
  BY <1>2, <1>3 DEF PendingIsGood

(* Begin starts a transaction and touches no entry and no balance.          *)
LEMMA BeginIInv ==
  ASSUME IInv, NEW w \in Workers, Begin(w)
  PROVE  IInv'
<1> USE DEF IInv, Begin
<1>1. TypeOK'
  BY BoundAssumption DEF TypeOK, Phases
<1>2. SingleWriter'
  BY DEF SingleWriter
<1>3. PostingInv'
  BY DEF TypeOK, PostingInv, Current
<1>4. KnownAccounts'
  BY DEF KnownAccounts, EntriesOf
<1>5. LiabilityNonNegative' /\ ViewNonNegative'
  BY DEF LiabilityNonNegative, ViewNonNegative
<1>6. AllGood(journal)' /\ PendingIsGood'
  BY UnchangedIsGood
<1>7. QED
  BY <1>1, <1>2, <1>3, <1>4, <1>5, <1>6

(* A balance read into the identity map is a committed one.                 *)
LEMMA ReadAccountIInv ==
  ASSUME IInv, NEW w \in Workers, NEW a \in Accounts, ReadAccount(w, a)
  PROVE  IInv'
<1> USE DEF IInv, ReadAccount, ReadBefore
<1>1. TypeOK'
  BY DEF TypeOK, Phases
<1>2. SingleWriter'
  BY DEF SingleWriter
<1>3. PostingInv'
  BY DEF TypeOK, PostingInv, Current
<1>4. KnownAccounts'
  BY DEF KnownAccounts, EntriesOf
<1>5. LiabilityNonNegative' /\ ViewNonNegative'
  BY DEF TypeOK, LiabilityNonNegative, ViewNonNegative
<1>6. AllGood(journal)' /\ PendingIsGood'
  BY UnchangedIsGood
<1>7. QED
  BY <1>1, <1>2, <1>3, <1>4, <1>5, <1>6

(* post_entry() flushes a good entry while it holds the advisory lock.      *)
LEMMA PostEntryIInv ==
  ASSUME IInv, NEW w \in Workers, NEW r \in Requests,
         NEW prev \in Keys \cup {NoEntry}, NEW rank \in Ranks,
         PostEntry(w, r, prev, rank)
  PROVE  IInv'
<1> USE DEF LockChain, NamesExist, KeyFree
<1> DEFINE e == [key |-> r.key, prev |-> prev, createdAt |-> startedAt[w],
                 rank |-> rank, lines |-> r.lines]
           named == {r.lines[i].account : i \in DOMAIN r.lines}
<1>1. /\ TypeOK /\ r \in Request /\ e \in Entry
      /\ Len(r.lines) \in Nat /\ Len(r.lines) >= 2
  <2>1. TypeOK /\ r \in Request
    BY RequestAssumption DEF IInv
  <2>2. r.key \in Keys /\ r.lines \in Seq(Line)
    BY <2>1 DEF Request
  <2>3. startedAt[w] \in Nat
    BY <2>1, BoundAssumption DEF TypeOK
  <2>4. e \in Entry
    BY <2>2, <2>3 DEF Entry
  <2>5. Len(r.lines) >= 2
    BY DEF PostEntry, ValidPostings
  <2>6. QED
    BY <2>1, <2>2, <2>4, <2>5
<1>2. pending' = [pending EXCEPT ![w] = Append(@, e)]
  BY DEF PostEntry
<1>3. /\ pending'[w] = Append(pending[w], e)
      /\ pending'[w] \in Seq(Entry)
      /\ pending[w] \in Seq(Entry)
      /\ journal \in Seq(Entry)
      /\ \A u \in Workers : u # w => pending'[u] = pending[u]
  BY <1>1, <1>2 DEF TypeOK
<1>4. EntriesOf(pending'[w]) = EntriesOf(pending[w]) \cup {e}
  <2> HIDE DEF e
  <2>1. QED
    BY <1>1, <1>3, EntriesOfAppend
<1>5. TypeOK'
  <2>1. view' \in [Workers -> [Accounts -> Int]] /\ loaded' \in [Workers -> SUBSET Accounts]
    BY <1>1 DEF TypeOK, PostEntry, LockedAccounts
  <2>2. pending' \in [Workers -> Seq(Entry)]
    BY <1>1, <1>2, <1>3 DEF TypeOK
  <2>3. QED
    BY <1>1, <2>1, <2>2 DEF TypeOK, PostEntry, Phases
<1>6. SingleWriter'
  <2>1. chainLock' = w /\ chainLock \in {NoWorker, w}
    BY DEF PostEntry
  <2>2. \A u \in Workers : u # w => pending'[u] = <<>>
    BY <1>3, <2>1, SentinelAssumption DEF IInv, SingleWriter
  <2>3. QED
    BY <2>1, <2>2 DEF SingleWriter
<1>7. PostingInv'
  <2>1. ASSUME NEW u \in Workers, u # w
        PROVE  /\ phase'[u] = phase[u] /\ pending'[u] = pending[u]
               /\ nextLine'[u] = nextLine[u]
    BY <1>1, <1>3, <2>1 DEF TypeOK, PostEntry
  <2>2. /\ phase'[w] = "posting" /\ nextLine'[w] = 1
        /\ pending'[w] # <<>>
        /\ pending'[w][Len(pending'[w])] = e
    <3>1. phase'[w] = "posting" /\ nextLine'[w] = 1
      BY <1>1 DEF TypeOK, PostEntry
    <3>2. pending'[w] # <<>> /\ pending'[w][Len(pending'[w])] = e
      BY <1>1, <1>3
    <3>3. QED
      BY <3>1, <3>2
  <2>3. QED
    BY <1>1, <2>1, <2>2 DEF IInv, PostingInv, Current
<1>8. KnownAccounts'
  <2>1. \A i \in DOMAIN e.lines : e.lines[i].account \in Accounts
    BY DEF PostEntry
  <2>2. ASSUME NEW u \in Workers, NEW x \in EntriesOf(pending'[u])
        PROVE  x = e \/ \E v \in Workers : x \in EntriesOf(pending[v])
    BY <1>3, <1>4, <2>2
  <2>3. QED
    <3> HIDE DEF e
    <3>1. ASSUME NEW u \in Workers, NEW x \in EntriesOf(pending[u])'
          PROVE  \A i \in DOMAIN x.lines : x.lines[i].account \in Accounts
      <4>1. x \in EntriesOf(pending'[u])
        BY <3>1 DEF EntriesOf
      <4>2. QED
        BY <2>1, <2>2, <4>1 DEF IInv, KnownAccounts
    <3>2. QED
      BY <3>1 DEF KnownAccounts
<1>9. LiabilityNonNegative' /\ ViewNonNegative'
  <2>1. balance' = balance /\ LockedAccounts(w, named)
    BY DEF PostEntry
  <2> HIDE DEF named
  <2>2. ASSUME NEW u \in Workers, NEW a \in Accounts
        PROVE  view'[u][a] \in {view[u][a], balance[a]}
    BY <1>1, <2>1 DEF TypeOK, LockedAccounts
  <2>3. QED
    BY <2>1, <2>2 DEF IInv, LiabilityNonNegative, ViewNonNegative
<1>10. AllGood(journal)' /\ PendingIsGood'
  <2>1. journal' = journal
    BY DEF PostEntry
  <2>2. DEFINE j == journal \o pending[w]
  <2>3. /\ j \in Seq(Entry)
        /\ journal \o pending'[w] = Append(j, e)
        /\ \A h \in DOMAIN j : j[h] \in Visible(w)
        /\ \A x \in Visible(w) : \E h \in DOMAIN j : j[h] = x
    <3>1. j \in Seq(Entry) /\ journal \o pending'[w] = Append(j, e)
      BY <1>1, <1>3
    <3>2. \A h \in DOMAIN j : j[h] \in Visible(w)
      BY <1>3 DEF Visible, EntriesOf
    <3>3. \A x \in Visible(w) : \E h \in DOMAIN j : j[h] = x
      <4>1. ASSUME NEW h \in DOMAIN journal PROVE h \in DOMAIN j /\ j[h] = journal[h]
        BY <1>3
      <4>2. ASSUME NEW h \in DOMAIN pending[w]
            PROVE  Len(journal) + h \in DOMAIN j /\ j[Len(journal) + h] = pending[w][h]
        BY <1>3
      <4>3. QED
        BY <4>1, <4>2 DEF Visible, EntriesOf
    <3>4. QED
      BY <3>1, <3>2, <3>3
  <2>4. AllGood(j)
    BY DEF IInv, PendingIsGood
  <2>5. \A h \in DOMAIN j : j[h].key # e.key
    BY <2>3 DEF PostEntry, Visible, EntriesOf, KeysOf
  <2>6. LatestEntryHash(w, prev) /\ ValidPostings(e.lines)
    BY DEF PostEntry
  <2>7. IF j = <<>> THEN e.prev = NoEntry
                    ELSE \E h \in DOMAIN j : e.prev = j[h].key
    <3>1. CASE j = <<>>
      <4>1. Visible(w) = {}
        BY <2>3, <3>1
      <4>2. QED
        BY <2>6, <3>1, <4>1 DEF LatestEntryHash
    <3>2. CASE j # <<>>
      <4>1. Visible(w) # {}
        BY <2>3, <3>2
      <4>2. QED
        BY <2>3, <2>6, <3>2, <4>1 DEF LatestEntryHash
    <3>3. QED
      BY <3>1, <3>2
  <2>8. AllGood(journal \o pending'[w])
    <3> HIDE DEF j, e
    <3>1. AllGood(Append(j, e))
      BY <1>1, <2>3, <2>4, <2>5, <2>6, <2>7, AppendGood
    <3>2. QED
      BY <2>3, <3>1
  <2>9. ASSUME NEW u \in Workers PROVE AllGood(journal \o pending'[u])
    <3>1. CASE u = w
      BY <2>8, <3>1
    <3>2. CASE u # w
      BY <1>3, <3>2 DEF IInv, PendingIsGood
    <3>3. QED
      BY <3>1, <3>2
  <2>10. QED
    BY <2>1, <2>9 DEF IInv, PendingIsGood
<1>11. QED
  BY <1>5, <1>6, <1>7, <1>8, <1>9, <1>10 DEF IInv

(* The sign check of the loop keeps liability balances non-negative.        *)
LEMMA ApplyLineIInv ==
  ASSUME IInv, NEW w \in Workers, ApplyLine(w)
  PROVE  IInv'
<1> DEFINE line == Current(w).lines[nextLine[w]]
<1>0. UNCHANGED <<balance, journal, chainLock, clock, startedAt, loaded, pending>>
  BY DEF ApplyLine
<1>1. /\ TypeOK /\ phase[w] = "posting"
      /\ Current(w) \in Entry /\ Current(w) \in EntriesOf(pending[w])
      /\ nextLine[w] \in DOMAIN Current(w).lines
      /\ line \in Line /\ line.account \in Accounts
  <2>1. TypeOK /\ phase[w] = "posting" /\ pending[w] # <<>> /\ pending[w] \in Seq(Entry)
    BY DEF IInv, TypeOK, ApplyLine, PostingInv
  <2>2. Current(w) \in Entry /\ Current(w) \in EntriesOf(pending[w])
    BY <2>1 DEF Current, EntriesOf
  <2>3. nextLine[w] \in DOMAIN Current(w).lines
    BY <2>1, <2>2 DEF IInv, TypeOK, PostingInv, Entry
  <2>4. line \in Line
    BY <2>2, <2>3 DEF Entry
  <2>5. line.account \in Accounts
    BY <2>2, <2>3 DEF IInv, KnownAccounts
  <2>6. QED
    BY <2>1, <2>2, <2>3, <2>4, <2>5
<1> DEFINE updated == view[w][line.account] + AccountDelta(line)
<1>2. updated \in Int
  BY <1>1 DEF TypeOK, AccountDelta, Line
<1>3. /\ AccountType[line.account] = "liability" => updated >= 0
      /\ view' = [view EXCEPT ![w][line.account] = updated]
  BY DEF ApplyLine, LiabilityStaysPositive
<1> HIDE DEF updated
<1>4. TypeOK'
  <2>1. view' \in [Workers -> [Accounts -> Int]]
    BY <1>1, <1>2, <1>3 DEF TypeOK
  <2>2. phase' \in [Workers -> Phases] /\ nextLine' \in [Workers -> Nat \ {0}]
    <3>1. \/ phase' = [phase EXCEPT ![w] = "open"] /\ nextLine' = nextLine
          \/ nextLine' = [nextLine EXCEPT ![w] = @ + 1] /\ phase' = phase
      BY DEF ApplyLine
    <3>2. phase \in [Workers -> Phases] /\ nextLine \in [Workers -> Nat \ {0}]
      BY <1>1 DEF TypeOK
    <3>3. "open" \in Phases /\ nextLine[w] + 1 \in Nat \ {0}
      BY <3>2 DEF Phases
    <3>4. QED
      BY <3>1, <3>2, <3>3
  <2>3. QED
    BY <1>0, <1>1, <2>1, <2>2 DEF TypeOK
<1>5. SingleWriter' /\ KnownAccounts'
  BY DEF IInv, SingleWriter, KnownAccounts, EntriesOf, ApplyLine
<1>6. PostingInv'
  <2>1. Len(Current(w).lines) \in Nat /\ nextLine[w] <= Len(Current(w).lines)
    BY <1>1 DEF Entry
  <2>2. ASSUME NEW u \in Workers, u # w
        PROVE  phase'[u] = phase[u] /\ nextLine'[u] = nextLine[u]
    BY <1>1, <2>2 DEF TypeOK, ApplyLine
  <2>3. \/ phase'[w] = "open"
        \/ /\ nextLine[w] # Len(Current(w).lines)
           /\ nextLine'[w] = nextLine[w] + 1
           /\ phase'[w] = "posting"
    BY <1>1 DEF TypeOK, ApplyLine
  <2>4. nextLine[w] \in Nat \ {0}
    BY <1>1 DEF TypeOK
  <2>5. PostingInv /\ pending' = pending
    BY <1>0 DEF IInv
  <2>6. ASSUME NEW u \in Workers
        PROVE  /\ phase'[u] = "posting" =>
                    /\ pending[u] # <<>>
                    /\ nextLine'[u] <= Len(pending[u][Len(pending[u])].lines)
               /\ phase'[u] = "idle" => pending[u] = <<>>
    <3>1. CASE u = w
      <4>1. pending[w] # <<>> /\ Current(w) = pending[w][Len(pending[w])]
        BY <1>1, <2>5 DEF PostingInv, Current
      <4>2. phase'[w] = "posting" => nextLine'[w] <= Len(Current(w).lines)
        BY <2>1, <2>3, <2>4
      <4>3. QED
        BY <2>3, <3>1, <4>1, <4>2
    <3>2. CASE u # w
      BY <2>2, <2>5, <3>2 DEF PostingInv, Current
    <3>3. QED
      BY <3>1, <3>2
  <2>7. QED
    BY <2>5, <2>6 DEF PostingInv, Current
<1>7. LiabilityNonNegative' /\ ViewNonNegative'
  BY <1>1, <1>2, <1>3
     DEF IInv, TypeOK, LiabilityNonNegative, ViewNonNegative, ApplyLine
<1>8. AllGood(journal)' /\ PendingIsGood'
  BY <1>0, UnchangedIsGood DEF IInv
<1>9. QED
  BY <1>4, <1>5, <1>6, <1>7, <1>8 DEF IInv

(* Commit publishes balances and entries the session had already checked.   *)
LEMMA CommitIInv ==
  ASSUME IInv, NEW w \in Workers, Commit(w)
  PROVE  IInv'
<1>1. TypeOK /\ chainLock = w /\ chainLock' = NoWorker
  BY DEF IInv, SingleWriter, Commit, ReleaseLock
<1>2. /\ phase' = [phase EXCEPT ![w] = "idle"]
      /\ loaded' = [loaded EXCEPT ![w] = {}]
      /\ view' = [view EXCEPT ![w] = [a \in Accounts |-> 0]]
      /\ pending' = [pending EXCEPT ![w] = <<>>]
      /\ nextLine' = [nextLine EXCEPT ![w] = 1]
      /\ UNCHANGED <<clock, startedAt>>
  BY DEF Commit, CloseSession
<1>3. /\ journal' = journal \o pending[w]
      /\ balance' = [a \in Accounts |-> IF a \in Touched(w) THEN view[w][a] ELSE balance[a]]
  BY DEF Commit
<1>4. \A u \in Workers : pending'[u] = <<>>
  BY <1>1, <1>2, SentinelAssumption DEF IInv, TypeOK, SingleWriter
<1>5. TypeOK'
  <2>1. journal' \in Seq(Entry) /\ pending' \in [Workers -> Seq(Entry)]
    BY <1>1, <1>2, <1>3 DEF TypeOK
  <2>2. balance' \in [Accounts -> Int]
    BY <1>1, <1>3 DEF TypeOK
  <2>3. QED
    BY <1>1, <1>2, <2>1, <2>2 DEF TypeOK, Phases
<1>6. SingleWriter' /\ PostingInv' /\ KnownAccounts'
  BY <1>1, <1>2, <1>4
     DEF IInv, TypeOK, SingleWriter, PostingInv, KnownAccounts, EntriesOf, Current
<1>7. LiabilityNonNegative' /\ ViewNonNegative'
  BY <1>1, <1>2, <1>3 DEF IInv, TypeOK, LiabilityNonNegative, ViewNonNegative
<1>8. AllGood(journal)' /\ PendingIsGood'
  <2>1. AllGood(journal') /\ journal' \in Seq(Entry)
    BY <1>3, <1>5 DEF IInv, PendingIsGood, TypeOK
  <2>2. ASSUME NEW u \in Workers PROVE AllGood(journal' \o pending'[u])
    <3>1. journal' \o pending'[u] = journal'
      BY <1>4, <2>1
    <3>2. QED
      BY <2>1, <3>1
  <2>3. QED
    BY <2>1, <2>2 DEF PendingIsGood
<1>9. QED
  BY <1>5, <1>6, <1>7, <1>8 DEF IInv

(* Rollback forgets what the session did.                                   *)
LEMMA RollbackIInv ==
  ASSUME IInv, NEW w \in Workers, Rollback(w)
  PROVE  IInv'
<1>1. TypeOK /\ UNCHANGED <<balance, journal>>
  BY DEF IInv, Rollback
<1>2. /\ phase' = [phase EXCEPT ![w] = "idle"]
      /\ loaded' = [loaded EXCEPT ![w] = {}]
      /\ view' = [view EXCEPT ![w] = [a \in Accounts |-> 0]]
      /\ pending' = [pending EXCEPT ![w] = <<>>]
      /\ nextLine' = [nextLine EXCEPT ![w] = 1]
      /\ chainLock' = IF chainLock = w THEN NoWorker ELSE chainLock
      /\ UNCHANGED <<clock, startedAt>>
  BY DEF Rollback, CloseSession, ReleaseLock
<1>3. pending'[w] = <<>> /\ \A u \in Workers : u # w => pending'[u] = pending[u]
  BY <1>1, <1>2 DEF TypeOK
<1>4. TypeOK'
  <2>1. pending' \in [Workers -> Seq(Entry)]
    BY <1>1, <1>2 DEF TypeOK
  <2>2. QED
    BY <1>1, <1>2, <2>1 DEF TypeOK, Phases
<1>5. SingleWriter'
  BY <1>1, <1>2, <1>3 DEF IInv, SingleWriter
<1>6. PostingInv'
  BY <1>1, <1>2, <1>3 DEF IInv, TypeOK, PostingInv, Current
<1>7. KnownAccounts'
  BY <1>3 DEF IInv, KnownAccounts, EntriesOf
<1>8. LiabilityNonNegative' /\ ViewNonNegative'
  BY <1>1, <1>2 DEF IInv, TypeOK, LiabilityNonNegative, ViewNonNegative
<1>9. AllGood(journal)' /\ PendingIsGood'
  <2>1. journal \o <<>> = journal
    BY <1>1 DEF TypeOK
  <2>2. ASSUME NEW u \in Workers PROVE AllGood(journal' \o pending'[u])
    BY <1>1, <1>3, <2>1 DEF IInv, PendingIsGood
  <2>3. QED
    BY <1>1, <2>2 DEF IInv, PendingIsGood
<1>10. QED
  BY <1>4, <1>5, <1>6, <1>7, <1>8, <1>9 DEF IInv

LEMMA NextIInv == IInv /\ [Next]_vars => IInv'
<1> SUFFICES ASSUME IInv, [Next]_vars PROVE IInv'
  OBVIOUS
<1>1. CASE Next
  BY <1>1, BeginIInv, ReadAccountIInv, PostEntryIInv, ApplyLineIInv, CommitIInv,
     RollbackIInv DEF Next
<1>2. CASE UNCHANGED vars
  <2>1. UNCHANGED <<balance, journal, chainLock, clock, phase, startedAt, loaded, view,
                    pending, nextLine>>
    BY <1>2 DEF vars
  <2>2. TypeOK' /\ SingleWriter' /\ PostingInv'
    BY <2>1 DEF IInv, TypeOK, SingleWriter, PostingInv, Current
  <2>3. KnownAccounts' /\ LiabilityNonNegative' /\ ViewNonNegative'
    BY <2>1 DEF IInv, KnownAccounts, EntriesOf, LiabilityNonNegative, ViewNonNegative
  <2>4. AllGood(journal)' /\ PendingIsGood'
    BY <2>1 DEF IInv, PendingIsGood
  <2>5. QED
    BY <2>2, <2>3, <2>4 DEF IInv
<1>3. QED
  BY <1>1, <1>2

-----------------------------------------------------------------------------
(* The inductive invariant holds in every reachable state.                  *)
THEOREM Invariance == Spec => []IInv
  BY InitIInv, NextIInv, PTL DEF Spec

(* Types are as declared, for every instance of the ledger.                 *)
THEOREM TypeCorrect == Spec => []TypeOK
<1>1. IInv => TypeOK
  BY DEF IInv
<1>2. QED
  BY <1>1, Invariance, PTL

(* I5: post_entry() never leaves a liability account negative, although the *)
(* check of its loop may run on a balance that is out of date.              *)
THEOREM LiabilitySafe == Spec => []LiabilityNonNegative
<1>1. IInv => LiabilityNonNegative
  BY DEF IInv
<1>2. QED
  BY <1>1, Invariance, PTL

(* The advisory lock serialises everything between flush and commit.        *)
THEOREM WriterHoldsLock == Spec => []SingleWriter
<1>1. IInv => SingleWriter
  BY DEF IInv
<1>2. QED
  BY <1>1, Invariance, PTL

(* The ledger under concurrent sessions, rollbacks and stale caches still   *)
(* implements the append-only, balanced, key-unique, back-linked journal.   *)
THEOREM Refinement == Spec => JournalIsAppendOnly
<1>1. Init => J!Init
  BY DEF Init, J!Init
<1>2. ASSUME IInv, IInv', [Next]_vars PROVE [J!Extend]_journal
  <2>1. CASE \E w \in Workers : Commit(w)
    <3>1. PICK w \in Workers : Commit(w)
      BY <2>1
    <3>2. /\ journal \in Seq(Entry) /\ pending[w] \in Seq(Entry)
          /\ journal' = journal \o pending[w] /\ pending[w] # <<>>
      BY <1>2, <3>1 DEF IInv, TypeOK, Commit
    <3>3. Len(journal') > Len(journal) /\ \A i \in 1..Len(journal) : journal'[i] = journal[i]
      BY <3>2
    <3>4. \A i \in 1..Len(journal') : J!GoodEntry(journal', i)
      <4>1. DOMAIN journal' = 1..Len(journal')
        BY <3>2
      <4>2. AllGood(journal')
        BY <1>2 DEF IInv
      <4>3. QED
        BY <4>1, <4>2 DEF AllGood
    <3>5. \A i \in (Len(journal) + 1)..Len(journal') : J!GoodEntry(journal', i)
      <4>1. Len(journal) \in Nat /\ Len(journal') \in Nat
        BY <3>2
      <4>2. QED
        BY <3>4, <4>1
    <3>6. QED
      BY <3>3, <3>5 DEF J!Extend
  <2>2. CASE ~\E w \in Workers : Commit(w)
    BY <1>2, <2>2 DEF Next, vars, Begin, ReadAccount, PostEntry, LockChain, ApplyLine, Rollback
  <2>3. QED
    BY <2>1, <2>2
<1>3. QED
  BY <1>1, <1>2, Invariance, PTL DEF Spec, JournalIsAppendOnly, J!Spec

=============================================================================
