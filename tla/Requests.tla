------------------------------ MODULE Requests ------------------------------
(***************************************************************************)
(* What a mutating request goes through (src/app/main.py): the             *)
(* Idempotency-Key middleware over Redis, the rate limit of the /auth      *)
(* routes, the handler with its transaction, and the answer.               *)
(*                                                                         *)
(* Three handlers stand for the rest: POST /circles, which inserts a row   *)
(* every time, POST /auth/register, which the unique e-mail address keeps  *)
(* from happening twice, and POST /wallet/topups over the fake rail, which *)
(* numbers its objects anew in every request (default_registry()).         *)
(*                                                                         *)
(* FastAPI sends the response of a handler before it leaves the dependency *)
(* that yields the session: the middleware stores the answer and frees the *)
(* lock while the transaction is still to be committed.                    *)
(***************************************************************************)
EXTENDS Naturals, FiniteSets

CONSTANTS
  Circles,     \* idempotency keys of new circles
  Topups,      \* idempotency keys of top-ups
  Registers,   \* idempotency keys of registrations, one e-mail address each
  Requests,    \* requests being served at the same time
  Limit,       \* registrations an address may send in a window
  None,        \* a Redis key or a database row that does not exist
  MaxArrivals, \* bound: requests sent
  MaxFaults    \* bound: failures of Redis, failed commits and crashes

Keys == Circles \cup Topups \cup Registers
Statuses == {"created", "refused", "limited"}

ASSUME RequestsAssumption ==
  /\ Circles \cap (Topups \cup Registers) = {} /\ Topups \cap Registers = {}
  /\ None \notin Keys \cup Requests \cup Statuses
  /\ Limit \in Nat \ {0}
  /\ MaxArrivals \in Nat /\ MaxFaults \in Nat

VARIABLES
  stored,      \* Redis: the answer kept for 48 hours, per key
  locked,      \* Redis: the keys whose lock is set
  count,       \* Redis: the counter of the client's address
  ttl,         \* Redis: whether the counter has an expiry
  row,         \* payment_object fake_topup_1: the key it was created for
  effects,     \* how often a key took effect: circles, users or journal entries
  request,     \* the requests being served
  answered,    \* history: the answers given for a key, 409 and 500 left out
  causes,      \* history: what else happened to a key, see Causes
  orphaned,    \* history: a counter was left without an expiry
  arrivals, faults

redis == <<stored, locked, count, ttl>>
tables == <<row, effects>>
bounds == <<arrivals, faults>>
vars == <<redis, tables, request, answered, causes, orphaned, bounds>>

\* overlapped: its lock expired after 60 seconds, or Redis failed and a request
\* went on without one; forgotten: its answer was not kept; stale: a request
\* looked for the answer before it was there and took the lock after it was
\* freed; lost: the commit failed after the answer was made; swallowed: the
\* top-up found the payment row of another key.
Causes == {"overlapped", "forgotten", "stale", "lost", "swallowed"}

PcValues == {"idle", "arrived", "missed", "running", "counted", "admitted", "looked",
             "responded", "failed", "stored", "finished"}

\* locks: it has set the lock of its key; open: its transaction has written
\* rows and is not committed yet.
Idle == [pc |-> "idle", key |-> None, locks |-> FALSE, seen |-> None,
         status |-> None, open |-> FALSE]

TypeOK ==
  /\ stored \in [Keys -> Statuses \cup {None}]
  /\ locked \subseteq Keys
  /\ count \in 0..MaxArrivals /\ ttl \in BOOLEAN
  /\ row \in Topups \cup {None}
  /\ effects \in [Keys -> Nat]
  /\ request \in [Requests ->
       [pc : PcValues, key : Keys \cup {None}, locks : BOOLEAN,
        seen : Topups \cup {None}, status : Statuses \cup {None}, open : BOOLEAN]]
  /\ \A r \in Requests : request[r].pc = "finished" => request[r].open
  /\ answered \in [Keys -> SUBSET Statuses]
  /\ causes \in [Keys -> SUBSET Causes]
  /\ orphaned \in BOOLEAN
  /\ arrivals \in 0..MaxArrivals /\ faults \in 0..MaxFaults

Init ==
  /\ stored = [k \in Keys |-> None]
  /\ locked = {}
  /\ count = 0 /\ ttl = FALSE
  /\ row = None
  /\ effects = [k \in Keys |-> 0]
  /\ request = [r \in Requests |-> Idle]
  /\ answered = [k \in Keys |-> {}]
  /\ causes = [k \in Keys |-> {}]
  /\ orphaned = FALSE
  /\ arrivals = 0 /\ faults = 0

Key(r) == request[r].key

At(r, pc) == request[r].pc = pc

Go(r, pc) == request' = [request EXCEPT ![r].pc = pc]

Mark(k, cause) == causes' = [causes EXCEPT ![k] = @ \cup {cause}]

Answer(k, status) == answered' = [answered EXCEPT ![k] = @ \cup {status}]

Fault ==
  /\ faults < MaxFaults
  /\ faults' = faults + 1
  /\ UNCHANGED arrivals

-----------------------------------------------------------------------------
(* IdempotencyMiddleware.dispatch(), up to the handler *)

Arrive(r, k) ==
  /\ At(r, "idle")
  /\ arrivals < MaxArrivals
  /\ arrivals' = arrivals + 1
  /\ request' = [request EXCEPT ![r] = [Idle EXCEPT !.pc = "arrived", !.key = k]]
  /\ UNCHANGED <<redis, tables, answered, causes, orphaned, faults>>

\* Variant: the answer is kept per path, not per key.
StoredForPath(k) ==
  LET same == {j \in Keys : (j \in Topups <=> k \in Topups) /\ stored[j] # None}
  IN IF same = {} THEN None ELSE stored[CHOOSE j \in same : TRUE]

\* The Redis key of an answer is made of the method, the path and the client's key.
StoredAnswer(k) == stored[k]

Replay(r) ==
  /\ At(r, "arrived")
  /\ StoredAnswer(Key(r)) # None
  /\ Answer(Key(r), StoredAnswer(Key(r)))
  /\ request' = [request EXCEPT ![r] = Idle]
  /\ UNCHANGED <<redis, tables, causes, orphaned, bounds>>

Miss(r) ==
  /\ At(r, "arrived")
  /\ StoredAnswer(Key(r)) = None
  /\ Go(r, "missed")
  /\ UNCHANGED <<redis, tables, answered, causes, orphaned, bounds>>

\* Variant: the lock is set without NX.
LockIsFree(k) == TRUE

\* SET NX succeeds.
MayLock(k) == k \notin locked

\* The answer is not looked for again once the lock is held.
TakeLock(r) ==
  /\ At(r, "missed")
  /\ MayLock(Key(r))
  /\ locked' = locked \cup {Key(r)}
  /\ request' = [request EXCEPT ![r].pc = "running", ![r].locks = TRUE]
  /\ IF stored[Key(r)] = None THEN UNCHANGED causes ELSE Mark(Key(r), "stale")
  /\ UNCHANGED <<stored, count, ttl, tables, answered, orphaned, bounds>>

\* 409: a request with this key is already in progress.
InProgress(r) ==
  /\ At(r, "missed")
  /\ ~MayLock(Key(r))
  /\ request' = [request EXCEPT ![r] = Idle]
  /\ UNCHANGED <<redis, tables, answered, causes, orphaned, bounds>>

\* Redis fails at the GET or the SET: the request goes on without idempotency.
FailOpen(r) ==
  /\ At(r, "arrived") \/ At(r, "missed")
  /\ Fault
  /\ Go(r, "running")
  /\ causes' = [causes EXCEPT ![Key(r)] = @ \cup {"overlapped", "forgotten"}]
  /\ UNCHANGED <<redis, tables, answered, orphaned>>

-----------------------------------------------------------------------------
(* FixedWindowRateLimiter.check() *)

Limited(r) == Key(r) \in Registers

Within(n) == n <= Limit

Count(r) ==
  /\ At(r, "running") /\ Limited(r)
  /\ count' = count + 1
  /\ IF count' = 1
     THEN Go(r, "counted")
     ELSE IF Within(count')
          THEN Go(r, "admitted")
          ELSE request' = [request EXCEPT ![r].pc = "responded", ![r].status = "limited"]
  /\ UNCHANGED <<stored, locked, ttl, tables, answered, causes, orphaned, bounds>>

\* Variant: the window is given no end.
CountOnly(r) ==
  /\ At(r, "counted")
  /\ Go(r, "admitted")
  /\ UNCHANGED <<redis, tables, answered, causes, orphaned, bounds>>

\* EXPIRE: the first request of a window starts it ...
StartWindow(r) ==
  /\ At(r, "counted")
  /\ ttl' = TRUE
  /\ Go(r, "admitted")
  /\ UNCHANGED <<stored, locked, count, tables, answered, causes, orphaned, bounds>>

\* ... or Redis fails, and the counter stays as it is.
StartNoWindow(r) ==
  /\ At(r, "counted")
  /\ Fault
  /\ orphaned' = TRUE
  /\ Go(r, "admitted")
  /\ UNCHANGED <<redis, tables, answered, causes>>

EndWindow ==
  /\ ttl
  /\ count' = 0 /\ ttl' = FALSE
  /\ UNCHANGED <<stored, locked, tables, request, answered, causes, orphaned, bounds>>

\* The route has no limit, or Redis fails before anything is counted.
NoLimit(r) ==
  /\ At(r, "running")
  /\ IF Limited(r) THEN Fault ELSE UNCHANGED bounds
  /\ Go(r, "admitted")
  /\ UNCHANGED <<redis, tables, answered, causes, orphaned>>

-----------------------------------------------------------------------------
(* The handler and its transaction *)

\* Another transaction has written the same unique row and is still open.
Held(r) ==
  \E q \in Requests \ {r} :
    request[q].open /\ (Key(q) = Key(r) \/ {Key(q), Key(r)} \subseteq Topups)

\* The handler has made its answer; the transaction is committed later.
Respond(r, status, open) ==
  request' = [request EXCEPT ![r].pc = "responded", ![r].status = status, ![r].open = open]

\* A circle is inserted with an id of its own.
CreateCircle(r) ==
  /\ At(r, "admitted") /\ Key(r) \in Circles
  /\ Respond(r, "created", TRUE)
  /\ UNCHANGED <<redis, tables, answered, causes, orphaned, bounds>>

\* upsert_payment_object() looks for the row of the object the rail returned,
\* and for every first top-up of a request that object is fake_topup_1.
FindRow(r) ==
  /\ At(r, "admitted") /\ Key(r) \in Topups
  /\ request' = [request EXCEPT ![r].pc = "looked", ![r].seen = row]
  /\ UNCHANGED <<redis, tables, answered, causes, orphaned, bounds>>

\* No row was found: the row and the journal entry are inserted.  The first is
\* unique, and an IntegrityError is nobody's to catch.
Topup(r) ==
  /\ At(r, "looked") /\ request[r].seen = None
  /\ ~Held(r)
  /\ IF row = None THEN Respond(r, "created", TRUE) ELSE Go(r, "failed")
  /\ UNCHANGED <<redis, tables, answered, causes, orphaned, bounds>>

\* The row that was found has its journal entry, so none is posted.  State,
\* amount, currency and metadata of the row, with the member it names, are
\* written over by those of this request, whoever's the row was.  Of a row the
\* model keeps only whose entry it has: that stays, whether the transaction of
\* the overwriting commits or fails, so it is not shown as open.
TopupAgain(r) ==
  /\ At(r, "looked") /\ request[r].seen # None
  /\ Respond(r, "created", FALSE)
  /\ IF request[r].seen = Key(r) THEN UNCHANGED causes ELSE Mark(Key(r), "swallowed")
  /\ UNCHANGED <<redis, tables, answered, orphaned, bounds>>

\* Variant: two users may have one e-mail address.
NeverTaken(k) == FALSE

EmailTaken(k) == effects[k] > 0

\* The user is inserted, or its e-mail address is taken.
Register(r) ==
  /\ At(r, "admitted") /\ Limited(r)
  /\ ~Held(r)
  /\ IF EmailTaken(Key(r)) THEN Respond(r, "refused", FALSE) ELSE Respond(r, "created", TRUE)
  /\ UNCHANGED <<redis, tables, answered, causes, orphaned, bounds>>

\* Variant: the request goes on although its transaction is over.
KeepOn(r) == request' = [request EXCEPT ![r].open = FALSE]

\* The transaction is over, and so is the request if its answer is out.
Close(r) ==
  request' = [request EXCEPT ![r] = IF @.pc = "finished" THEN Idle ELSE [@ EXCEPT !.open = FALSE]]

Commit(r) ==
  /\ request[r].open
  /\ effects' = [effects EXCEPT ![Key(r)] = @ + 1]
  /\ row' = IF Key(r) \in Topups THEN Key(r) ELSE row
  /\ Close(r)
  /\ UNCHANGED <<redis, answered, causes, orphaned, bounds>>

CommitFails(r) ==
  /\ request[r].open
  /\ Fault
  /\ Close(r)
  /\ Mark(Key(r), "lost")
  /\ UNCHANGED <<redis, tables, answered, orphaned>>

-----------------------------------------------------------------------------
(* IdempotencyMiddleware.dispatch(), from the answer on *)

Finish(r) ==
  request' = [request EXCEPT ![r] = IF @.open THEN [@ EXCEPT !.pc = "finished"] ELSE Idle]

\* Whatever the handler answered is kept for its key, be it an error ...
Store(r) ==
  /\ At(r, "responded") /\ request[r].locks
  /\ stored' = [stored EXCEPT ![Key(r)] = request[r].status]
  /\ Go(r, "stored")
  /\ UNCHANGED <<locked, count, ttl, tables, answered, causes, orphaned, bounds>>

\* ... unless Redis fails.
StoreFails(r) ==
  /\ At(r, "responded") /\ request[r].locks
  /\ Fault
  /\ Mark(Key(r), "forgotten")
  /\ Go(r, "stored")
  /\ UNCHANGED <<redis, tables, answered, orphaned>>

\* The lock is deleted, whoever holds it by now, and the answer goes out.
Unlock(r) ==
  /\ At(r, "stored")
  /\ locked' = locked \ {Key(r)}
  /\ Answer(Key(r), request[r].status)
  /\ Finish(r)
  /\ UNCHANGED <<stored, count, ttl, tables, causes, orphaned, bounds>>

UnlockFails(r) ==
  /\ At(r, "stored")
  /\ Fault
  /\ Answer(Key(r), request[r].status)
  /\ Finish(r)
  /\ UNCHANGED <<redis, tables, causes, orphaned>>

\* Without a lock the answer goes out as the handler made it.
AnswerUnlocked(r) ==
  /\ At(r, "responded") /\ ~request[r].locks
  /\ Answer(Key(r), request[r].status)
  /\ Finish(r)
  /\ UNCHANGED <<redis, tables, causes, orphaned, bounds>>

\* An exception passes through: nothing is kept, the lock is deleted, and the
\* outermost middleware answers 500.
Raise(r) ==
  /\ At(r, "failed")
  /\ locked' = IF request[r].locks THEN locked \ {Key(r)} ELSE locked
  /\ request' = [request EXCEPT ![r] = Idle]
  /\ UNCHANGED <<stored, count, ttl, tables, answered, causes, orphaned, bounds>>

-----------------------------------------------------------------------------
(* Time and crashes *)

\* A lock expires after 60 seconds, its request being alive or not.
ExpireLock(k) ==
  /\ k \in locked
  /\ locked' = locked \ {k}
  /\ Mark(k, "overlapped")
  /\ UNCHANGED <<stored, count, ttl, tables, request, answered, orphaned, bounds>>

\* An answer is forgotten after 48 hours.
ExpireAnswer(k) ==
  /\ stored[k] # None
  /\ stored' = [stored EXCEPT ![k] = None]
  /\ Mark(k, "forgotten")
  /\ UNCHANGED <<locked, count, ttl, tables, request, answered, orphaned, bounds>>

\* The process dies: its transaction is rolled back, Redis stays as it is.
Crash(r) ==
  /\ ~At(r, "idle")
  /\ Fault
  /\ request' = [request EXCEPT ![r] = Idle]
  /\ orphaned' = (orphaned \/ At(r, "counted"))
  /\ causes' = [causes EXCEPT ![Key(r)] =
                  @ \cup {c \in {"forgotten"} : At(r, "responded")}
                    \cup {c \in {"lost"} : request[r].open}]
  /\ UNCHANGED <<redis, tables, answered>>

Serve(r) ==
  \/ Replay(r) \/ Miss(r) \/ TakeLock(r) \/ InProgress(r) \/ FailOpen(r)
  \/ Count(r) \/ StartWindow(r) \/ StartNoWindow(r) \/ NoLimit(r)
  \/ CreateCircle(r) \/ FindRow(r) \/ Topup(r) \/ TopupAgain(r) \/ Register(r)
  \/ Commit(r) \/ CommitFails(r)
  \/ Store(r) \/ StoreFails(r) \/ Unlock(r) \/ UnlockFails(r) \/ AnswerUnlocked(r)
  \/ Raise(r) \/ Crash(r)

Next ==
  \/ \E r \in Requests : Serve(r) \/ \E k \in Keys : Arrive(r, k)
  \/ \E k \in Keys : ExpireLock(k) \/ ExpireAnswer(k)
  \/ EndWindow

Spec == Init /\ [][Next]_vars

-----------------------------------------------------------------------------
(* What holds *)

\* The key was executed again although it had been executed.
Repeated(k) == causes[k] \cap {"overlapped", "forgotten", "stale"} # {}

\* A key takes effect at most once.  Where a unique row sees to it, that holds
\* whatever becomes of locks and answers; where none does, a circle is created
\* again if the lock expired, the answer was lost, or the retry had looked for
\* the answer before it was there.
OneEffectPerKey ==
  \A k \in Keys : effects[k] > 1 => k \in Circles /\ Repeated(k)

\* Two requests with one key are only served at the same time when the lock of
\* one expired or Redis failed for one.
Serving(r) == ~\E pc \in {"idle", "arrived", "missed", "finished"} : At(r, pc)

OverlapIsExplained ==
  \A q, r \in Requests :
    q # r /\ Serving(q) /\ Serving(r) /\ Key(q) = Key(r) => "overlapped" \in causes[Key(r)]

\* The transaction of a request is still to be decided.
Undecided(k) == \E r \in Requests : Key(r) = k /\ request[r].open

\* A client that was told, or will be told, that something was created finds it:
\* unless the commit came to nothing after the answer, or the fake rail gave the
\* top-up a payment row that another top-up had made.
CreatedIsCommitted ==
  \A k \in Keys :
    stored[k] = "created" \/ "created" \in answered[k]
      => effects[k] > 0 \/ Undecided(k) \/ causes[k] \cap {"lost", "swallowed"} # {}

\* Every answer to a key is the same one, be it an error, unless the key was
\* executed again.
AnswersAgree ==
  \A k \in Keys : Cardinality(answered[k]) > 1 => Repeated(k)

\* The counter of an address ends with its window: INCR and EXPIRE are two calls,
\* and only a failure between them leaves an address counted for ever.
CounterExpires ==
  count > 0 => ttl \/ orphaned \/ \E r \in Requests : At(r, "counted")

=============================================================================
