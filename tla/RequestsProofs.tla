---------------------------- MODULE RequestsProofs ----------------------------
(***************************************************************************)
(* Proofs about Requests, for any sets of keys and of requests served at   *)
(* the same time and any number of arrivals and failures: what the         *)
(* Idempotency-Key middleware, the rate limit and the unique rows together *)
(* keep from happening twice.                                              *)
(***************************************************************************)
EXTENDS Requests, FiniteSetTheorems, TLAPS

Opens(r, k) == Key(r) = k /\ request[r].open

On(r, k) == Key(r) = k /\ Serving(r)

\* The handler has made its answer and the middleware still has it.
Answering(r, k) == Key(r) = k /\ (At(r, "responded") \/ At(r, "stored"))

(* What the fields of a request say together.                                *)
RequestStands(r) ==
  LET q == request[r] IN
  /\ q.pc = "idle" => q = Idle
  /\ q.pc # "idle" => q.key \in Keys
  /\ q.status # None <=> q.pc \in {"responded", "stored", "finished"}
  /\ q.open => q.status = "created"
  /\ q.pc = "stored" => q.locks
  /\ q.pc \in {"looked", "failed"} => q.key \in Topups
  /\ q.seen # None => row = q.seen

(* As long as no lock expired, one request at most is being served for a key, *)
(* and it holds the lock.                                                    *)
LockStands(k) ==
  "overlapped" \notin causes[k] =>
    \A r \in Requests :
      On(r, k) =>
        /\ request[r].locks /\ k \in locked
        /\ \A q \in Requests : On(q, k) => q = r

(* As long as a key is not executed again, its answer is stored as soon as it *)
(* has taken effect and left the handler, and every client gets that answer. *)
AnswerStands(k) ==
  ~Repeated(k) =>
    /\ \A r \in Requests :
         On(r, k) => stored[k] = IF At(r, "stored") THEN request[r].status ELSE None
    /\ \A a \in answered[k] : stored[k] = a
    /\ effects[k] > 0 \/ Undecided(k) =>
         stored[k] # None \/ \E r \in Requests : Key(r) = k /\ At(r, "responded")

(* A registration, or a circle that is not created again, happens in one      *)
(* transaction at most.                                                      *)
OnceStands(k) ==
  k \in Registers \/ (k \in Circles /\ ~Repeated(k)) =>
    /\ effects[k] <= 1
    /\ \A r \in Requests :
         Opens(r, k) => effects[k] = 0 /\ \A q \in Requests : Opens(q, k) => q = r

Explained(k) ==
  effects[k] > 0 \/ Undecided(k) \/ causes[k] \cap {"lost", "swallowed"} # {}

Promised(k) ==
  \/ stored[k] = "created" \/ "created" \in answered[k]
  \/ \E r \in Requests : Answering(r, k) /\ request[r].status = "created"

PromiseStands(k) == Promised(k) => Explained(k)

KeyStands(k) == LockStands(k) /\ AnswerStands(k) /\ OnceStands(k) /\ PromiseStands(k)

(* The one row of the fake rail belongs to the one top-up that took effect.   *)
TopupsStand ==
  /\ \A k \in Topups : effects[k] = IF row = k THEN 1 ELSE 0
  /\ \A r \in Requests :
       Key(r) \in Topups /\ request[r].open =>
         /\ row = None
         /\ \A q \in Requests : Key(q) \in Topups /\ request[q].open => q = r

(* What is counted, or may still be, has arrived.                            *)
Waiting == {r \in Requests : request[r].pc \in {"arrived", "missed", "running"}}

CountStands ==
  /\ IsFiniteSet(Waiting)
  /\ count + Cardinality(Waiting) <= arrivals

IInv ==
  /\ TypeOK
  /\ \A r \in Requests : RequestStands(r)
  /\ \A k \in Keys : KeyStands(k)
  /\ TopupsStand
  /\ CountStands
  /\ CounterExpires

-----------------------------------------------------------------------------
(* How a request moves on.                                                   *)

RequestRow ==
  [pc : PcValues, key : Keys \cup {None}, locks : BOOLEAN,
   seen : Topups \cup {None}, status : Statuses \cup {None}, open : BOOLEAN]

Others(r) == \A s \in Requests \ {r} : request'[s] = request[s]

LEMMA Nones == None \notin Keys /\ None \notin Topups /\ None \notin Statuses /\ None # "created"
  BY RequestsAssumption DEF Keys, Statuses

LEMMA IdleRow ==
  /\ Idle \in RequestRow /\ Idle.pc = "idle" /\ Idle.key = None /\ ~Idle.locks
  /\ Idle.seen = None /\ Idle.status = None /\ ~Idle.open
  BY DEF Idle, RequestRow, PcValues

LEMMA RowStep ==
  ASSUME TypeOK, NEW r \in Requests, NEW q \in RequestRow, request' = [request EXCEPT ![r] = q]
  PROVE  request' \in [Requests -> RequestRow] /\ request'[r] = q /\ Others(r)
  BY DEF TypeOK, RequestRow, Others

LEMMA GoStep ==
  ASSUME TypeOK, NEW r \in Requests, NEW pc \in PcValues, Go(r, pc)
  PROVE  /\ request' \in [Requests -> RequestRow] /\ Others(r)
         /\ request'[r].pc = pc /\ request'[r].key = Key(r)
         /\ request'[r].locks = request[r].locks /\ request'[r].seen = request[r].seen
         /\ request'[r].status = request[r].status /\ request'[r].open = request[r].open
<1>1. request[r] \in RequestRow
  BY DEF TypeOK, RequestRow
<1>2. PICK q : q = [request[r] EXCEPT !.pc = pc]
  OBVIOUS
<1>3. /\ q \in RequestRow
      /\ q.pc = pc /\ q.key = request[r].key /\ q.locks = request[r].locks
      /\ q.seen = request[r].seen /\ q.status = request[r].status /\ q.open = request[r].open
  BY <1>1, <1>2 DEF RequestRow
<1>4. request' = [request EXCEPT ![r] = q]
  BY <1>2 DEF Go
<1>5. QED
  BY <1>3, <1>4, RowStep DEF Key

LEMMA RespondStep ==
  ASSUME TypeOK, NEW r \in Requests, NEW status \in Statuses, NEW open \in BOOLEAN,
         Respond(r, status, open)
  PROVE  /\ request' \in [Requests -> RequestRow] /\ Others(r)
         /\ request'[r].pc = "responded" /\ request'[r].key = Key(r)
         /\ request'[r].locks = request[r].locks /\ request'[r].seen = request[r].seen
         /\ request'[r].status = status /\ request'[r].open = open
<1>1. request[r] \in RequestRow
  BY DEF TypeOK, RequestRow
<1>2. PICK q : q = [request[r] EXCEPT !.pc = "responded", !.status = status, !.open = open]
  OBVIOUS
<1>3. /\ q \in RequestRow
      /\ q.pc = "responded" /\ q.key = request[r].key /\ q.locks = request[r].locks
      /\ q.seen = request[r].seen /\ q.status = status /\ q.open = open
  BY <1>1, <1>2 DEF RequestRow, PcValues
<1>4. request' = [request EXCEPT ![r] = q]
  BY <1>1, <1>2 DEF Respond, TypeOK, RequestRow
<1>5. QED
  BY <1>3, <1>4, RowStep DEF Key

-----------------------------------------------------------------------------
(* What a step of one request leaves as it was.                              *)

LEMMA LockKept ==
  ASSUME NEW r \in Requests, NEW k \in Keys, LockStands(k), Others(r),
         causes[k] \subseteq causes'[k],
         On(r, k)' => On(r, k) /\ request'[r].locks = request[r].locks,
         k \in locked => k \in locked'
  PROVE  LockStands(k)'
<1>1. \A q \in Requests : On(q, k)' => On(q, k) /\ request'[q].locks = request[q].locks
  BY DEF On, Others, Key, Serving, At
<1>2. QED
  BY <1>1 DEF LockStands

LEMMA OnceKept ==
  ASSUME NEW r \in Requests, NEW k \in Keys, OnceStands(k), Others(r),
         causes[k] \subseteq causes'[k], effects'[k] = effects[k],
         Opens(r, k)' => Opens(r, k)
  PROVE  OnceStands(k)'
<1>1. \A q \in Requests : Opens(q, k)' => Opens(q, k)
  BY DEF Opens, Others, Key
<1>2. ~Repeated(k)' => ~Repeated(k)
  BY DEF Repeated
<1>3. QED
  BY <1>1, <1>2 DEF OnceStands

LEMMA PromiseKept ==
  ASSUME NEW r \in Requests, NEW k \in Keys, PromiseStands(k), Others(r),
         causes[k] \subseteq causes'[k], effects[k] > 0 => effects'[k] > 0,
         Opens(r, k) => Opens(r, k)' \/ Explained(k)',
         Promised(k)' => Promised(k) \/ Explained(k)'
  PROVE  PromiseStands(k)'
<1>1. Undecided(k) => Explained(k)'
  <2>1. SUFFICES ASSUME NEW q \in Requests, Opens(q, k) PROVE Explained(k)'
    BY DEF Undecided, Opens
  <2>2. Opens(q, k)' \/ Explained(k)'
    BY <2>1 DEF Opens, Others, Key
  <2>3. QED
    BY <2>2 DEF Explained, Undecided, Opens
<1>2. Explained(k) => Explained(k)'
  BY <1>1 DEF Explained
<1>3. QED
  BY <1>2 DEF PromiseStands

LEMMA AnswerKept ==
  ASSUME NEW r \in Requests, NEW k \in Keys, AnswerStands(k), Others(r),
         causes[k] \subseteq causes'[k],
         stored'[k] = stored[k], answered'[k] = answered[k],
         effects'[k] > 0 => effects[k] > 0 \/ Opens(r, k),
         On(r, k)' => /\ On(r, k) /\ request'[r].status = request[r].status
                      /\ At(r, "stored")' <=> At(r, "stored"),
         Opens(r, k)' => Opens(r, k),
         Key(r) = k /\ At(r, "responded") => (Key(r) = k /\ At(r, "responded"))'
  PROVE  AnswerStands(k)'
<1>1. ~Repeated(k)' => ~Repeated(k)
  BY DEF Repeated
<1>2. \A q \in Requests :
        On(q, k)' => /\ On(q, k) /\ request'[q].status = request[q].status
                     /\ At(q, "stored")' <=> At(q, "stored")
  BY DEF On, Others, Key, Serving, At
<1>3. Undecided(k)' => Undecided(k)
  BY DEF Undecided, Opens, Others, Key
<1>4. (\E q \in Requests : Key(q) = k /\ At(q, "responded"))
        => (\E q \in Requests : Key(q) = k /\ At(q, "responded"))'
  BY DEF Others, Key, At
<1>5. Opens(r, k) => Undecided(k)
  BY DEF Opens, Undecided
<1>6. QED
  BY <1>1, <1>2, <1>3, <1>4, <1>5 DEF AnswerStands

(* The request did not have this key, and does not.                          *)
LEMMA OtherKeyKept ==
  ASSUME NEW r \in Requests, NEW k \in Keys, KeyStands(k), Others(r),
         Key(r) # k, request'[r].key # k,
         stored'[k] = stored[k], effects'[k] = effects[k], answered'[k] = answered[k],
         causes'[k] = causes[k], k \in locked' <=> k \in locked
  PROVE  KeyStands(k)'
<1>1. ~On(r, k)' /\ ~Opens(r, k)' /\ ~Opens(r, k) /\ ~Answering(r, k)'
  BY DEF On, Opens, Answering, Key
<1>2. LockStands(k)' /\ OnceStands(k)' /\ AnswerStands(k)'
  BY <1>1, LockKept, OnceKept, AnswerKept DEF KeyStands, Opens
<1>3. Promised(k)' => Promised(k)
  BY <1>1 DEF Promised, Answering, Others, Key, At
<1>4. PromiseStands(k)'
  BY <1>1, <1>3, PromiseKept DEF KeyStands
<1>5. QED
  BY <1>2, <1>4 DEF KeyStands

(* A step of one request, and with it of one key.                            *)
LEMMA StepIInv ==
  ASSUME IInv, NEW r \in Requests, NEW k \in Keys, TypeOK', Others(r),
         Key(r) \in {k, None}, request'[r].key \in {k, None},
         \A j \in Keys \ {k} :
           /\ stored'[j] = stored[j] /\ effects'[j] = effects[j]
           /\ answered'[j] = answered[j] /\ causes'[j] = causes[j]
           /\ j \in locked' <=> j \in locked,
         RequestStands(r)', row' = row \/ row = None, KeyStands(k)', TopupsStand',
         CountStands', CounterExpires'
  PROVE  IInv'
<1>1. ASSUME NEW s \in Requests PROVE RequestStands(s)'
  <2>1. CASE s = r
    BY <2>1
  <2>2. CASE s # r
    <3>1. RequestStands(s) /\ request'[s] = request[s]
      BY <2>2 DEF IInv, Others
    <3>2. request[s].seen # None => row' = row
      <4>1. request[s].seen # None => row = request[s].seen
        BY <3>1 DEF RequestStands
      <4>2. QED
        BY <4>1
    <3>3. QED
      BY <3>1, <3>2 DEF RequestStands
  <2>3. QED
    BY <2>1, <2>2
<1>2. ASSUME NEW j \in Keys PROVE KeyStands(j)'
  <2>1. CASE j = k
    BY <2>1
  <2>2. CASE j # k
    <3>1. Key(r) # j /\ request'[r].key # j
      BY <2>2, Nones
    <3>2. KeyStands(j)
      BY DEF IInv
    <3>3. QED
      BY <2>2, <3>1, <3>2, OtherKeyKept
  <2>3. QED
    BY <2>1, <2>2
<1>3. QED
  BY <1>1, <1>2 DEF IInv

LEMMA TopupsKept ==
  ASSUME IInv, NEW r \in Requests, Others(r), row' = row, effects' = effects,
         request'[r].open => request[r].open /\ request'[r].key = Key(r)
  PROVE  TopupsStand'
<1>1. \A q \in Requests :
        Key(q)' \in Topups /\ request'[q].open => Key(q) \in Topups /\ request[q].open
  BY DEF Others, Key
<1>2. QED
  BY <1>1 DEF IInv, TopupsStand

LEMMA CountKept ==
  ASSUME IInv, NEW r \in Requests, Others(r), count' = count, arrivals' = arrivals,
         request'[r].pc \in {"arrived", "missed", "running"} => r \in Waiting
  PROVE  CountStands'
<1>1. Waiting' \subseteq Waiting
  BY DEF Waiting, Others
<1>2. IsFiniteSet(Waiting) /\ count + Cardinality(Waiting) <= arrivals
  BY DEF IInv, CountStands
<1>3. /\ IsFiniteSet(Waiting')
      /\ Cardinality(Waiting') <= Cardinality(Waiting)
      /\ Cardinality(Waiting) \in Nat /\ Cardinality(Waiting') \in Nat
  BY <1>1, <1>2, FS_Subset, FS_CardinalityType
<1>4. count \in Nat /\ arrivals \in Nat
  BY RequestsAssumption DEF IInv, TypeOK
<1>5. QED
  BY <1>2, <1>3, <1>4 DEF CountStands

LEMMA CounterKept ==
  ASSUME IInv, NEW r \in Requests, Others(r), count' = count, ttl => ttl',
         orphaned => orphaned',
         At(r, "counted") => ttl' \/ orphaned' \/ request'[r].pc = "counted"
  PROVE  CounterExpires'
  BY DEF IInv, CounterExpires, Others, At

(* A step that neither the transaction nor the answer of its key shows.      *)
LEMMA QuietKept ==
  ASSUME NEW r \in Requests, NEW k \in Keys, KeyStands(k), Others(r),
         UNCHANGED <<stored, locked, effects, answered, causes>>,
         On(r, k)' => On(r, k) /\ request'[r].locks = request[r].locks,
         On(r, k)' => request'[r].status = request[r].status
                      /\ (request'[r].pc = "stored" <=> At(r, "stored")),
         Opens(r, k)' <=> Opens(r, k),
         ~(Key(r) = k /\ At(r, "responded")), ~Answering(r, k)'
  PROVE  KeyStands(k)'
<1>1. LockStands(k)' /\ OnceStands(k)'
  BY LockKept, OnceKept DEF KeyStands
<1>2. AnswerStands(k)'
  BY AnswerKept DEF KeyStands, At
<1>3. Promised(k)' => Promised(k)
  BY DEF Promised, Answering, Others, Key, At
<1>4. PromiseStands(k)'
  BY <1>3, PromiseKept DEF KeyStands
<1>5. QED
  BY <1>1, <1>2, <1>4 DEF KeyStands

LEMMA Facts ==
  ASSUME IInv, NEW r \in Requests, ~At(r, "idle")
  PROVE  Key(r) \in Keys /\ RequestStands(r) /\ KeyStands(Key(r)) /\ request[r] \in RequestRow
<1>1. RequestStands(r) /\ request[r] \in RequestRow
  BY DEF IInv, TypeOK, RequestRow
<1>2. Key(r) \in Keys
  BY <1>1 DEF RequestStands, At, Key
<1>3. QED
  BY <1>1, <1>2 DEF IInv

(* Such a step, from one place to another.                                   *)
LEMMA QuietIInv ==
  ASSUME IInv, NEW r \in Requests, NEW pc \in PcValues,
         ~At(r, "idle"), ~At(r, "responded"), ~At(r, "stored"), ~At(r, "finished"),
         request' \in [Requests -> RequestRow], Others(r),
         request'[r].pc = pc, request'[r].key = Key(r),
         request'[r].locks = request[r].locks, request'[r].status = request[r].status,
         request'[r].open = request[r].open,
         pc \notin {"idle", "responded", "stored", "finished"},
         request'[r].seen \in {request[r].seen, row},
         pc \in {"running", "counted", "admitted", "looked", "failed"} => Serving(r),
         pc \in {"looked", "failed"} => Key(r) \in Topups,
         UNCHANGED <<tables, answered, causes, stored, locked>>,
         TypeOK', CountStands', CounterExpires'
  PROVE  IInv'
<1>1. Key(r) \in Keys /\ RequestStands(r) /\ KeyStands(Key(r))
  BY Facts
<1>2. PICK k \in Keys : k = Key(r)
  BY <1>1
<1>3. ~request[r].open
  BY <1>1, Nones DEF RequestStands, At
<1>4. RequestStands(r)'
  BY <1>1, <1>3 DEF RequestStands, At, Key, tables
<1>5. TopupsStand'
  BY <1>3, TopupsKept DEF tables
<1>6. KeyStands(k)'
  <2>1. KeyStands(k) /\ UNCHANGED <<stored, locked, effects, answered, causes>>
    BY <1>1, <1>2 DEF tables
  <2>2. On(r, k)' => On(r, k)
    BY <1>2 DEF On, Serving, At, Key, PcValues
  <2>3. Opens(r, k)' <=> Opens(r, k)
    BY DEF Opens, Key
  <2>4. ~(Key(r) = k /\ At(r, "responded")) /\ ~Answering(r, k)'
    BY DEF Answering, At
  <2>5. request'[r].pc = "stored" <=> At(r, "stored")
    OBVIOUS
  <2>6. QED
    BY <2>1, <2>2, <2>3, <2>4, <2>5, QuietKept
<1>7. QED
  BY <1>1, <1>2, <1>4, <1>5, <1>6, StepIInv DEF tables

LEMMA TypeKept ==
  ASSUME IInv, NEW r \in Requests, Others(r), request' \in [Requests -> RequestRow],
         request'[r].pc = "finished" => request'[r].open,
         stored' \in [Keys -> Statuses \cup {None}], locked' \subseteq Keys,
         count' \in 0..MaxArrivals, ttl' \in BOOLEAN,
         row' \in Topups \cup {None}, effects' \in [Keys -> Nat],
         answered' \in [Keys -> SUBSET Statuses], causes' \in [Keys -> SUBSET Causes],
         orphaned' \in BOOLEAN, arrivals' \in 0..MaxArrivals, faults' \in 0..MaxFaults
  PROVE  TypeOK'
<1>1. \A s \in Requests : request'[s].pc = "finished" => request'[s].open
  BY DEF IInv, TypeOK, Others
<1>2. QED
  BY <1>1 DEF TypeOK, RequestRow

LEMMA Types ==
  ASSUME IInv
  PROVE  /\ stored \in [Keys -> Statuses \cup {None}] /\ locked \subseteq Keys
         /\ count \in 0..MaxArrivals /\ count \in Nat /\ ttl \in BOOLEAN
         /\ row \in Topups \cup {None} /\ effects \in [Keys -> Nat]
         /\ answered \in [Keys -> SUBSET Statuses] /\ causes \in [Keys -> SUBSET Causes]
         /\ orphaned \in BOOLEAN /\ arrivals \in 0..MaxArrivals /\ faults \in 0..MaxFaults
         /\ TypeOK
  BY RequestsAssumption DEF IInv, TypeOK

LEMMA FaultTypes ==
  ASSUME IInv, Fault
  PROVE  faults' \in 0..MaxFaults /\ UNCHANGED arrivals
  BY RequestsAssumption DEF IInv, TypeOK, Fault

-----------------------------------------------------------------------------
(* Requests that have not reached the handler.                               *)

LEMMA InitIInv == Init => IInv
<1> SUFFICES ASSUME Init PROVE IInv
  OBVIOUS
<1> USE DEF Init
<1>1. \A r \in Requests : request[r] = Idle
  OBVIOUS
<1>2. TypeOK
  <2>1. request \in [Requests -> RequestRow]
    BY IdleRow
  <2>2. \A r \in Requests : request[r].pc # "finished"
    BY <1>1, IdleRow
  <2>3. count \in 0..MaxArrivals /\ arrivals \in 0..MaxArrivals /\ faults \in 0..MaxFaults
    BY RequestsAssumption
  <2>4. /\ stored \in [Keys -> Statuses \cup {None}] /\ effects \in [Keys -> Nat]
        /\ answered \in [Keys -> SUBSET Statuses] /\ causes \in [Keys -> SUBSET Causes]
    OBVIOUS
  <2>5. QED
    BY <2>1, <2>2, <2>3, <2>4 DEF TypeOK, RequestRow
<1>3. \A r \in Requests : RequestStands(r)
  BY <1>1, IdleRow DEF RequestStands
<1>4. ASSUME NEW k \in Keys PROVE KeyStands(k)
  <2>1. \A r \in Requests : ~On(r, k) /\ ~Opens(r, k) /\ ~Answering(r, k)
    BY <1>1, IdleRow DEF On, Opens, Answering, Serving, At
  <2>2. ~Promised(k)
    BY <2>1, Nones DEF Promised
  <2>3. QED
    BY <2>1, <2>2 DEF KeyStands, LockStands, AnswerStands, OnceStands, PromiseStands,
                      Undecided, Opens
<1>5. TopupsStand
  <2>1. \A k \in Topups : k \in Keys /\ row # k
    BY Nones DEF Keys
  <2>2. QED
    BY <1>1, <2>1, IdleRow DEF TopupsStand
<1>6. CountStands
  <2>1. Waiting = {}
    BY <1>1, IdleRow DEF Waiting
  <2>2. QED
    BY <2>1, FS_EmptySet DEF CountStands
<1>7. QED
  BY <1>2, <1>3, <1>4, <1>5, <1>6 DEF IInv, CounterExpires

LEMMA ArriveIInv ==
  ASSUME IInv, NEW r \in Requests, NEW k \in Keys, Arrive(r, k)
  PROVE  IInv'
<1>1. /\ At(r, "idle")
      /\ arrivals < MaxArrivals /\ arrivals' = arrivals + 1
      /\ UNCHANGED <<redis, tables, answered, causes, orphaned, faults>>
  BY DEF Arrive
<1>2. request[r] = Idle
  BY <1>1 DEF IInv, RequestStands, At
<1>3. PICK q : q = [Idle EXCEPT !.pc = "arrived", !.key = k]
  OBVIOUS
<1>4. /\ q \in RequestRow /\ q.pc = "arrived" /\ q.key = k
      /\ q.seen = None /\ q.status = None /\ ~q.open
  BY <1>3 DEF RequestRow, Idle, PcValues
<1>5. request' = [request EXCEPT ![r] = q]
  BY <1>3 DEF Arrive
<1>6. request' \in [Requests -> RequestRow] /\ request'[r] = q /\ Others(r)
  BY <1>4, <1>5, Types, RowStep
<1>7. TypeOK'
  BY <1>1, <1>4, <1>6, Types, TypeKept, RequestsAssumption DEF redis, tables
<1>8. RequestStands(r)'
  BY <1>4, <1>6 DEF RequestStands
<1>9. KeyStands(k)'
  <2>1. ~On(r, k)' /\ ~Opens(r, k)' /\ ~Answering(r, k)'
    BY <1>4, <1>6 DEF On, Serving, At, Opens, Answering, Key
  <2>2. Key(r) # k
    BY <1>2, IdleRow, Nones DEF Key
  <2>3. KeyStands(k) /\ UNCHANGED <<stored, locked, effects, answered, causes>>
    BY <1>1 DEF IInv, redis, tables
  <2>4. Opens(r, k)' <=> Opens(r, k)
    BY <2>1, <2>2 DEF Opens
  <2>5. QED
    BY <1>6, <2>1, <2>2, <2>3, <2>4, QuietKept
<1>10. TopupsStand'
  BY <1>1, <1>4, <1>6, TopupsKept DEF tables
<1>11. CountStands'
  <2>1. Waiting' = Waiting \cup {r} /\ r \notin Waiting
    BY <1>2, <1>4, <1>6, IdleRow DEF Waiting, Others
  <2>2. IsFiniteSet(Waiting) /\ count + Cardinality(Waiting) <= arrivals
    BY DEF IInv, CountStands
  <2>3. /\ IsFiniteSet(Waiting')
        /\ Cardinality(Waiting') = Cardinality(Waiting) + 1 /\ Cardinality(Waiting) \in Nat
    BY <2>1, <2>2, FS_AddElement, FS_CardinalityType
  <2>4. count' = count /\ count \in Nat /\ arrivals \in Nat
    BY <1>1, Types, RequestsAssumption DEF redis
  <2>5. QED
    BY <1>1, <2>2, <2>3, <2>4 DEF CountStands
<1>12. CounterExpires'
  BY <1>1, <1>2, <1>6, IdleRow, CounterKept DEF redis, At
<1>13. QED
  BY <1>1, <1>2, <1>4, <1>6, <1>7, <1>8, <1>9, <1>10, <1>11, <1>12, IdleRow, StepIInv
     DEF redis, tables, Key

LEMMA MissIInv ==
  ASSUME IInv, NEW r \in Requests, Miss(r)
  PROVE  IInv'
<1>1. /\ At(r, "arrived") /\ Go(r, "missed")
      /\ UNCHANGED <<redis, tables, answered, causes, orphaned, bounds>>
  BY DEF Miss
<1>2. "missed" \in PcValues
  BY DEF PcValues
<1>3. /\ request' \in [Requests -> RequestRow] /\ Others(r)
      /\ request'[r].pc = "missed" /\ request'[r].key = Key(r)
      /\ request'[r].locks = request[r].locks /\ request'[r].seen = request[r].seen
      /\ request'[r].status = request[r].status /\ request'[r].open = request[r].open
  BY <1>1, <1>2, GoStep, Types
<1>4. TypeOK'
  BY <1>1, <1>3, Types, TypeKept DEF redis, tables, bounds
<1>5. CountStands' /\ CounterExpires'
  BY <1>1, <1>3, CountKept, CounterKept DEF redis, bounds, Waiting, At
<1>6. QED
  BY <1>1, <1>2, <1>3, <1>4, <1>5, QuietIInv DEF redis, At

(* A request that ends before it holds anything, or answers what is stored.   *)
LEMMA DropIInv ==
  ASSUME IInv, NEW r \in Requests, At(r, "arrived") \/ At(r, "missed"),
         request' = [request EXCEPT ![r] = Idle],
         answered' = answered \/ (stored[Key(r)] # None /\ Answer(Key(r), stored[Key(r)])),
         UNCHANGED <<redis, tables, causes, orphaned, bounds>>
  PROVE  IInv'
<1>1. request' \in [Requests -> RequestRow] /\ request'[r] = Idle /\ Others(r)
  BY IdleRow, RowStep, Types
<1>2. Key(r) \in Keys /\ RequestStands(r) /\ KeyStands(Key(r))
  BY Facts DEF At
<1>3. PICK k \in Keys : k = Key(r)
  BY <1>2
<1>4. ~Serving(r) /\ ~At(r, "responded") /\ ~At(r, "stored") /\ ~request[r].open
  BY <1>2, Nones DEF Serving, At, RequestStands
<1>5. /\ answered' \in [Keys -> SUBSET Statuses]
      /\ \A j \in Keys \ {k} : answered'[j] = answered[j]
      /\ \A a \in answered'[k] : a \in answered[k] \/ (a = stored[k] /\ stored[k] # None)
  BY <1>3, Types DEF Answer
<1>6. TypeOK'
  BY <1>1, <1>5, IdleRow, Types, TypeKept DEF redis, tables, bounds
<1>7. ~On(r, k)' /\ ~Opens(r, k)' /\ ~Answering(r, k)' /\ ~Opens(r, k) /\ ~On(r, k)
  BY <1>1, <1>3, <1>4, IdleRow, Nones DEF On, Opens, Answering, Key
<1>8. UNCHANGED <<stored, locked, effects, causes>>
  BY DEF redis, tables
<1>9. LockStands(k)' /\ OnceStands(k)'
  BY <1>1, <1>2, <1>3, <1>7, <1>8, LockKept, OnceKept DEF KeyStands
<1>10. PromiseStands(k)'
  <2>1. Promised(k)' => Promised(k)
    BY <1>1, <1>5, <1>7, <1>8 DEF Promised, Answering, Others, Key, At
  <2>2. QED
    BY <1>1, <1>2, <1>3, <1>7, <1>8, <2>1, PromiseKept DEF KeyStands
<1>11. AnswerStands(k)'
  <2>1. AnswerStands(k) /\ (~Repeated(k)' <=> ~Repeated(k))
    BY <1>2, <1>3, <1>8 DEF KeyStands, Repeated
  <2>2. \A q \in Requests : On(q, k)' => On(q, k) /\ request'[q] = request[q]
    BY <1>1, <1>7 DEF On, Others, Key, Serving, At
  <2>3. Undecided(k)' => Undecided(k)
    BY <1>1, <1>7 DEF Undecided, Opens, Others, Key
  <2>4. (\E q \in Requests : Key(q) = k /\ At(q, "responded"))
          => (\E q \in Requests : Key(q) = k /\ At(q, "responded"))'
    BY <1>1, <1>4 DEF Others, Key, At
  <2>5. QED
    BY <1>5, <1>8, <2>1, <2>2, <2>3, <2>4 DEF AnswerStands, At
<1>12. KeyStands(k)'
  BY <1>9, <1>10, <1>11 DEF KeyStands
<1>13. RequestStands(r)'
  BY <1>1, IdleRow DEF RequestStands
<1>14. TopupsStand' /\ CountStands' /\ CounterExpires'
  BY <1>1, IdleRow, TopupsKept, CountKept, CounterKept DEF redis, tables, bounds, At
<1>15. QED
  BY <1>1, <1>3, <1>5, <1>6, <1>8, <1>12, <1>13, <1>14, IdleRow, StepIInv DEF tables

LEMMA ReplayIInv ==
  ASSUME IInv, NEW r \in Requests, Replay(r)
  PROVE  IInv'
  BY DropIInv DEF Replay, StoredAnswer

LEMMA InProgressIInv ==
  ASSUME IInv, NEW r \in Requests, InProgress(r)
  PROVE  IInv'
  BY DropIInv DEF InProgress

(* Nobody holds the lock of a key, so nobody is being served for it, unless a *)
(* lock has expired.                                                         *)
LEMMA TakeLockIInv ==
  ASSUME IInv, NEW r \in Requests, TakeLock(r)
  PROVE  IInv'
<1>1. /\ At(r, "missed") /\ Key(r) \notin locked
      /\ locked' = locked \cup {Key(r)}
      /\ IF stored[Key(r)] = None THEN UNCHANGED causes ELSE Mark(Key(r), "stale")
      /\ UNCHANGED <<stored, count, ttl, tables, answered, orphaned, bounds>>
  BY DEF TakeLock, MayLock
<1>2. Key(r) \in Keys /\ RequestStands(r) /\ KeyStands(Key(r)) /\ request[r] \in RequestRow
  BY <1>1, Facts DEF At
<1>3. PICK k \in Keys : k = Key(r)
  BY <1>2
<1>4. PICK q : q = [request[r] EXCEPT !.pc = "running", !.locks = TRUE]
  OBVIOUS
<1>5. /\ q \in RequestRow
      /\ q.pc = "running" /\ q.key = k /\ q.locks
      /\ q.seen = request[r].seen /\ q.status = request[r].status /\ q.open = request[r].open
  BY <1>2, <1>3, <1>4 DEF RequestRow, PcValues, Key
<1>6. request' = [request EXCEPT ![r] = q]
  BY <1>2, <1>4, Types DEF TakeLock, TypeOK, RequestRow
<1>7. request' \in [Requests -> RequestRow] /\ request'[r] = q /\ Others(r)
  BY <1>5, <1>6, RowStep, Types
<1>8. request[r].status = None /\ ~request[r].open
  BY <1>1, <1>2, Nones DEF RequestStands, At
<1>9. /\ causes' \in [Keys -> SUBSET Causes]
      /\ \A j \in Keys \ {k} : causes'[j] = causes[j]
      /\ causes[k] \subseteq causes'[k]
      /\ stored[k] # None => "stale" \in causes'[k]
  BY <1>1, <1>3, Types DEF Mark, Causes
<1>10. TypeOK'
  BY <1>1, <1>2, <1>5, <1>7, <1>9, Types, TypeKept DEF tables, bounds
<1>11. ~Opens(r, k)' /\ ~Opens(r, k) /\ ~Answering(r, k)' /\ ~On(r, k)
  BY <1>1, <1>5, <1>7, <1>8 DEF Opens, Answering, Key, At, On, Serving
<1>12. OnceStands(k)'
  BY <1>1, <1>2, <1>3, <1>7, <1>9, <1>11, OnceKept DEF KeyStands, tables
<1>13. PromiseStands(k)'
  <2>1. Promised(k)' => Promised(k)
    BY <1>1, <1>7, <1>11 DEF Promised, Answering, Others, Key, At
  <2>2. QED
    BY <1>1, <1>2, <1>3, <1>7, <1>9, <1>11, <2>1, PromiseKept DEF KeyStands, tables
<1>14. LockStands(k)'
  <2> SUFFICES ASSUME "overlapped" \notin causes'[k], NEW p \in Requests, On(p, k)'
               PROVE  /\ request'[p].locks /\ k \in locked'
                      /\ \A t \in Requests : On(t, k)' => t = p
    BY DEF LockStands
  <2>1. \A t \in Requests : ~On(t, k)
    BY <1>1, <1>2, <1>3, <1>9 DEF KeyStands, LockStands
  <2>2. \A t \in Requests : On(t, k)' => t = r
    BY <1>7, <2>1 DEF On, Others, Key, Serving, At
  <2>3. QED
    BY <1>1, <1>3, <1>5, <1>7, <2>2
<1>15. AnswerStands(k)'
  <2> SUFFICES ASSUME ~Repeated(k)'
               PROVE  AnswerStands(k)'
    BY DEF AnswerStands
  <2>1. ~Repeated(k) /\ stored[k] = None
    BY <1>9 DEF Repeated
  <2>2. AnswerStands(k)
    BY <1>2, <1>3 DEF KeyStands
  <2>3. \A p \in Requests \ {r} : On(p, k)' <=> On(p, k)
    BY <1>7 DEF On, Others, Key, Serving, At
  <2>4. Undecided(k)' => Undecided(k)
    BY <1>7, <1>11 DEF Undecided, Opens, Others, Key
  <2>5. (\E p \in Requests : Key(p) = k /\ At(p, "responded"))
          => (\E p \in Requests : Key(p) = k /\ At(p, "responded"))'
    BY <1>1, <1>7 DEF Others, Key, At
  <2>6. \A p \in Requests : On(p, k)' => stored'[k] = IF At(p, "stored")' THEN request'[p].status ELSE None
    BY <1>1, <1>5, <1>7, <2>1, <2>2, <2>3 DEF AnswerStands, Others, At
  <2>7. QED
    BY <1>1, <2>1, <2>2, <2>4, <2>5, <2>6 DEF AnswerStands, tables
<1>16. KeyStands(k)'
  BY <1>12, <1>13, <1>14, <1>15 DEF KeyStands
<1>17. RequestStands(r)'
  BY <1>1, <1>2, <1>5, <1>7, <1>8 DEF RequestStands, At, tables
<1>18. TopupsStand' /\ CountStands' /\ CounterExpires'
  BY <1>1, <1>5, <1>7, <1>8, TopupsKept, CountKept, CounterKept DEF tables, bounds, At, Waiting
<1>19. QED
  BY <1>1, <1>3, <1>5, <1>7, <1>9, <1>10, <1>16, <1>17, <1>18, StepIInv DEF tables

LEMMA FailOpenIInv ==
  ASSUME IInv, NEW r \in Requests, FailOpen(r)
  PROVE  IInv'
<1>1. /\ At(r, "arrived") \/ At(r, "missed")
      /\ Fault /\ Go(r, "running")
      /\ causes' = [causes EXCEPT ![Key(r)] = @ \cup {"overlapped", "forgotten"}]
      /\ UNCHANGED <<redis, tables, answered, orphaned>>
  BY DEF FailOpen
<1>2. Key(r) \in Keys /\ RequestStands(r) /\ KeyStands(Key(r))
  BY <1>1, Facts DEF At
<1>3. PICK k \in Keys : k = Key(r)
  BY <1>2
<1>4. "running" \in PcValues
  BY DEF PcValues
<1>5. /\ request' \in [Requests -> RequestRow] /\ Others(r)
      /\ request'[r].pc = "running" /\ request'[r].key = k
      /\ request'[r].locks = request[r].locks /\ request'[r].seen = request[r].seen
      /\ request'[r].status = request[r].status /\ request'[r].open = request[r].open
  BY <1>1, <1>3, <1>4, GoStep, Types
<1>6. /\ causes' \in [Keys -> SUBSET Causes]
      /\ \A j \in Keys \ {k} : causes'[j] = causes[j]
      /\ causes[k] \subseteq causes'[k] /\ {"overlapped", "forgotten"} \subseteq causes'[k]
  BY <1>1, <1>3, Types DEF Causes
<1>7. TypeOK'
  BY <1>1, <1>5, <1>6, Types, FaultTypes, TypeKept DEF redis, tables
<1>8. ~request[r].open
  BY <1>1, <1>2, Nones DEF RequestStands, At
<1>9. ~Opens(r, k)' /\ ~Opens(r, k) /\ ~Answering(r, k)'
  BY <1>5, <1>8 DEF Opens, Answering, Key, At
<1>10. LockStands(k)' /\ AnswerStands(k)'
  BY <1>6 DEF LockStands, AnswerStands, Repeated
<1>11. OnceStands(k)'
  BY <1>1, <1>2, <1>3, <1>5, <1>6, <1>9, OnceKept DEF KeyStands, tables
<1>12. PromiseStands(k)'
  <2>1. Promised(k)' => Promised(k)
    BY <1>1, <1>5, <1>9 DEF Promised, Answering, Others, Key, At, redis
  <2>2. QED
    BY <1>1, <1>2, <1>3, <1>5, <1>6, <1>9, <2>1, PromiseKept DEF KeyStands, tables
<1>13. KeyStands(k)'
  BY <1>10, <1>11, <1>12 DEF KeyStands
<1>14. RequestStands(r)'
  BY <1>1, <1>2, <1>5, <1>8 DEF RequestStands, At, tables
<1>15. TopupsStand' /\ CountStands' /\ CounterExpires'
  BY <1>1, <1>5, <1>8, FaultTypes, TopupsKept, CountKept, CounterKept
     DEF redis, tables, At, Waiting
<1>16. QED
  BY <1>1, <1>3, <1>5, <1>6, <1>7, <1>13, <1>14, <1>15, StepIInv DEF redis, tables

-----------------------------------------------------------------------------
(* The handler answers: nothing of the key may have been answered before,     *)
(* unless the key is executed again.                                         *)
LEMMA ResponseKept ==
  ASSUME IInv, NEW r \in Requests, NEW k \in Keys, k = Key(r), Serving(r),
         ~At(r, "responded"), ~At(r, "stored"), Others(r),
         request'[r].pc = "responded", request'[r].key = k,
         request'[r].locks = request[r].locks,
         UNCHANGED <<stored, locked, effects, answered>>, causes[k] \subseteq causes'[k],
         request'[r].status = "created" =>
           request'[r].open \/ effects[k] > 0 \/ causes'[k] \cap {"lost", "swallowed"} # {},
         request'[r].open =>
           \/ k \in Topups
           \/ k \in Circles /\ Repeated(k)
           \/ effects[k] = 0 /\ \A q \in Requests : ~Opens(q, k)
  PROVE  KeyStands(k)'
<1>1. KeyStands(k) /\ RequestStands(r)
  BY DEF IInv
<1>2. ~request[r].open
  <2>1. ~At(r, "finished")
    BY DEF Serving
  <2>2. QED
    BY <1>1, <2>1, Nones DEF RequestStands, At
<1>3. On(r, k) /\ At(r, "responded")' /\ Key(r)' = k /\ ~At(r, "stored")'
  BY DEF On, At, Key
<1>4. LockStands(k)'
  BY <1>1, <1>3, LockKept DEF KeyStands
<1>5. \A q \in Requests \ {r} :
        /\ On(q, k)' <=> On(q, k)
        /\ Opens(q, k)' <=> Opens(q, k)
        /\ Answering(q, k)' <=> Answering(q, k)
        /\ At(q, "stored")' <=> At(q, "stored")
  BY DEF On, Opens, Answering, Others, Key, Serving, At
<1>6. AnswerStands(k)'
  <2> SUFFICES ASSUME ~Repeated(k)' PROVE AnswerStands(k)'
    BY DEF AnswerStands
  <2>1. ~Repeated(k)
    BY DEF Repeated
  <2>2. stored[k] = None
    BY <1>1, <1>3, <2>1 DEF KeyStands, AnswerStands
  <2>3. \A q \in Requests :
          On(q, k)' => stored'[k] = IF At(q, "stored")' THEN request'[q].status ELSE None
    BY <1>1, <1>3, <1>5, <2>1, <2>2 DEF KeyStands, AnswerStands, Others
  <2>4. QED
    BY <1>1, <1>3, <2>1, <2>3 DEF KeyStands, AnswerStands
<1>7. OnceStands(k)'
  <2> SUFFICES ASSUME k \in Registers \/ (k \in Circles /\ ~Repeated(k)')
               PROVE  OnceStands(k)'
    BY DEF OnceStands
  <2>1. k \in Registers \/ (k \in Circles /\ ~Repeated(k))
    BY DEF Repeated
  <2>2. request'[r].open => effects[k] = 0 /\ \A q \in Requests : ~Opens(q, k)
    BY <2>1, RequestsAssumption
  <2>3. CASE request'[r].open
    BY <1>3, <1>5, <2>2, <2>3 DEF OnceStands
  <2>4. CASE ~request'[r].open
    <3>1. ~Opens(r, k)'
      BY <2>4 DEF Opens
    <3>2. QED
      BY <1>1, <3>1, OnceKept DEF KeyStands
  <2>5. QED
    BY <2>3, <2>4
<1>8. PromiseStands(k)'
  <2>1. ~Opens(r, k)
    BY <1>2 DEF Opens
  <2>2. request'[r].status = "created" => Explained(k)'
    BY <1>3 DEF Explained, Undecided
  <2>3. Promised(k)' => Promised(k) \/ Explained(k)'
    BY <1>5, <2>2 DEF Promised, Others
  <2>4. QED
    BY <1>1, <2>1, <2>3, PromiseKept DEF KeyStands
<1>9. QED
  BY <1>4, <1>6, <1>7, <1>8 DEF KeyStands

LEMMA ResponseIInv ==
  ASSUME IInv, NEW r \in Requests, NEW status \in Statuses, NEW open \in BOOLEAN,
         Respond(r, status, open), Serving(r), ~At(r, "responded"), ~At(r, "stored"),
         UNCHANGED <<stored, locked, tables, answered, bounds>>,
         count' \in 0..MaxArrivals, ttl' \in BOOLEAN, orphaned' \in BOOLEAN,
         causes' \in [Keys -> SUBSET Causes],
         \A j \in Keys \ {Key(r)} : causes'[j] = causes[j],
         causes[Key(r)] \subseteq causes'[Key(r)],
         status = "created" =>
           \/ open \/ effects[Key(r)] > 0
           \/ causes'[Key(r)] \cap {"lost", "swallowed"} # {},
         open =>
           /\ status = "created"
           /\ \/ Key(r) \in Topups
              \/ Key(r) \in Circles /\ Repeated(Key(r))
              \/ effects[Key(r)] = 0 /\ \A q \in Requests : ~Opens(q, Key(r))
           /\ Key(r) \in Topups =>
                row = None /\ \A q \in Requests : ~(Key(q) \in Topups /\ request[q].open),
         CountStands', CounterExpires'
  PROVE  IInv'
<1>1. ~At(r, "idle")
  BY DEF Serving, At
<1>2. Key(r) \in Keys /\ RequestStands(r) /\ KeyStands(Key(r))
  BY <1>1, Facts
<1>3. PICK k \in Keys : k = Key(r)
  BY <1>2
<1>4. /\ request' \in [Requests -> RequestRow] /\ Others(r)
      /\ request'[r].pc = "responded" /\ request'[r].key = k
      /\ request'[r].locks = request[r].locks /\ request'[r].seen = request[r].seen
      /\ request'[r].status = status /\ request'[r].open = open
  BY <1>3, RespondStep, Types
<1>5. TypeOK'
  BY <1>4, Types, TypeKept DEF tables, bounds
<1>6. KeyStands(k)'
  BY <1>3, <1>4, ResponseKept DEF tables
<1>7. RequestStands(r)'
  <2>1. status # None
    BY Nones
  <2>2. QED
    BY <1>2, <1>3, <1>4, <2>1 DEF RequestStands, tables
<1>8. TopupsStand'
  <2>1. CASE open /\ k \in Topups
    BY <1>3, <1>4, <2>1 DEF IInv, TopupsStand, Others, Key, tables
  <2>2. CASE open /\ k \notin Topups
    BY <1>3, <1>4, <2>2 DEF IInv, TopupsStand, Others, Key, tables
  <2>3. CASE ~open
    BY <1>4, <2>3, TopupsKept DEF tables
  <2>4. QED
    BY <2>1, <2>2, <2>3
<1>9. QED
  BY <1>3, <1>4, <1>5, <1>6, <1>7, <1>8, StepIInv DEF tables

-----------------------------------------------------------------------------
(* The rate limit.                                                           *)

(* A request that is counted no longer waits to be.                          *)
LEMMA Counted ==
  ASSUME IInv, NEW r \in Requests, At(r, "running"), Others(r),
         request'[r].pc \notin {"arrived", "missed", "running"},
         count' = count + 1, arrivals' = arrivals
  PROVE  CountStands' /\ count' \in 0..MaxArrivals
<1>1. Waiting' = Waiting \ {r} /\ r \in Waiting
  BY DEF Waiting, Others, At
<1>2. IsFiniteSet(Waiting) /\ count + Cardinality(Waiting) <= arrivals
  BY DEF IInv, CountStands
<1>3. /\ IsFiniteSet(Waiting')
      /\ Cardinality(Waiting') = Cardinality(Waiting) - 1
      /\ Cardinality(Waiting) \in Nat /\ Cardinality(Waiting') \in Nat
  BY <1>1, <1>2, FS_RemoveElement, FS_CardinalityType
<1>4. count \in Nat /\ arrivals \in 0..MaxArrivals /\ MaxArrivals \in Nat
  BY Types, RequestsAssumption
<1>5. QED
  BY <1>2, <1>3, <1>4 DEF CountStands

LEMMA CountIInv ==
  ASSUME IInv, NEW r \in Requests, Count(r)
  PROVE  IInv'
<1>1. /\ At(r, "running") /\ Limited(r) /\ count' = count + 1
      /\ UNCHANGED <<stored, locked, ttl, tables, answered, causes, orphaned, bounds>>
  BY DEF Count
<1>2. Serving(r) /\ Key(r) \in Keys
  BY <1>1, Facts DEF Serving, At
<1>3. count > 0 => ttl' \/ orphaned' \/ \E q \in Requests \ {r} : At(q, "counted")
  BY <1>1 DEF IInv, CounterExpires, At
<1>4. ASSUME NEW pc \in {"counted", "admitted"}, Go(r, pc), pc = "counted" \/ count' # 1
      PROVE  IInv'
  <2>1. pc \in PcValues
    BY DEF PcValues
  <2>2. /\ request' \in [Requests -> RequestRow] /\ Others(r)
        /\ request'[r].pc = pc /\ request'[r].key = Key(r)
        /\ request'[r].locks = request[r].locks /\ request'[r].seen = request[r].seen
        /\ request'[r].status = request[r].status /\ request'[r].open = request[r].open
    BY <1>4, <2>1, GoStep, Types
  <2>3. CountStands' /\ count' \in 0..MaxArrivals
    BY <1>1, <2>2, Counted DEF bounds
  <2>4. TypeOK'
    BY <1>1, <2>2, <2>3, Types, TypeKept DEF tables, bounds
  <2>5. CounterExpires'
    <3>1. CASE pc = "counted"
      BY <2>2, <3>1 DEF CounterExpires, At
    <3>2. CASE pc # "counted"
      BY <1>1, <1>3, <1>4, <2>2, <3>2, Types DEF CounterExpires, At, Others
    <3>3. QED
      BY <3>1, <3>2
  <2>6. QED
    BY <1>1, <1>2, <2>1, <2>2, <2>3, <2>4, <2>5, QuietIInv DEF At
<1>5. ASSUME request' = [request EXCEPT ![r].pc = "responded", ![r].status = "limited"],
             count' # 1
      PROVE  IInv'
  <2>1. RequestStands(r) /\ request[r] \in RequestRow
    BY <1>1, Facts DEF At
  <2>2. request[r].open = FALSE
    BY <1>1, <2>1, Nones DEF RequestStands, At, RequestRow
  <2>3. Respond(r, "limited", FALSE)
    <3>1. [request[r] EXCEPT !.pc = "responded", !.status = "limited", !.open = FALSE]
            = [request[r] EXCEPT !.pc = "responded", !.status = "limited"]
      BY <2>1, <2>2 DEF RequestRow
    <3>2. request' = [request EXCEPT ![r] =
                        [request[r] EXCEPT !.pc = "responded", !.status = "limited"]]
      BY <1>5, <2>1, Types DEF TypeOK, RequestRow
    <3>3. [request EXCEPT ![r].pc = "responded", ![r].status = "limited", ![r].open = FALSE]
            = [request EXCEPT ![r] =
                 [request[r] EXCEPT !.pc = "responded", !.status = "limited", !.open = FALSE]]
      BY <2>1, Types DEF TypeOK, RequestRow
    <3>4. QED
      BY <3>1, <3>2, <3>3 DEF Respond
  <2>4. "limited" \in Statuses /\ FALSE \in BOOLEAN
    BY DEF Statuses
  <2>5. Others(r) /\ request'[r].pc = "responded"
    BY <2>3, <2>4, RespondStep, Types
  <2>6. CountStands' /\ count' \in 0..MaxArrivals
    BY <1>1, <2>5, Counted DEF bounds
  <2>7. CounterExpires'
    <3>1. count > 0
      BY <1>1, <1>5, Types
    <3>2. QED
      BY <1>3, <2>5, <3>1 DEF CounterExpires, At, Others
  <2>8. QED
    BY <1>1, <1>2, <2>3, <2>4, <2>6, <2>7, Types, ResponseIInv DEF At
<1>6. QED
  BY <1>4, <1>5 DEF Count

(* From one place before the answer to the next.                             *)
LEMMA OnwardIInv ==
  ASSUME IInv, NEW r \in Requests, NEW pc \in {"admitted", "failed"}, Go(r, pc), Serving(r),
         ~At(r, "responded"), ~At(r, "stored"),
         pc = "failed" => Key(r) \in Topups,
         UNCHANGED <<tables, answered, causes, stored, locked, count, arrivals>>,
         ttl' \in BOOLEAN, orphaned' \in BOOLEAN, faults' \in 0..MaxFaults,
         ttl => ttl', orphaned => orphaned', At(r, "counted") => ttl' \/ orphaned'
  PROVE  IInv'
<1>1. pc \in PcValues
  BY DEF PcValues
<1>2. /\ request' \in [Requests -> RequestRow] /\ Others(r)
      /\ request'[r].pc = pc /\ request'[r].key = Key(r)
      /\ request'[r].locks = request[r].locks /\ request'[r].seen = request[r].seen
      /\ request'[r].status = request[r].status /\ request'[r].open = request[r].open
  BY <1>1, GoStep, Types
<1>3. TypeOK'
  BY <1>2, Types, TypeKept DEF tables
<1>4. CountStands' /\ CounterExpires'
  BY <1>2, CountKept, CounterKept
<1>5. ~At(r, "idle") /\ ~At(r, "finished")
  BY DEF Serving, At
<1>6. QED
  BY <1>1, <1>2, <1>3, <1>4, <1>5, QuietIInv

LEMMA StartWindowIInv ==
  ASSUME IInv, NEW r \in Requests, StartWindow(r)
  PROVE  IInv'
<1>1. Serving(r) /\ ~At(r, "responded") /\ ~At(r, "stored")
  BY DEF StartWindow, Serving, At
<1>2. QED
  BY <1>1, Types, OnwardIInv DEF StartWindow, tables, bounds

LEMMA StartNoWindowIInv ==
  ASSUME IInv, NEW r \in Requests, StartNoWindow(r)
  PROVE  IInv'
<1>1. Serving(r) /\ ~At(r, "responded") /\ ~At(r, "stored")
  BY DEF StartNoWindow, Serving, At
<1>2. Fault
  BY DEF StartNoWindow
<1>3. QED
  BY <1>1, <1>2, Types, FaultTypes, OnwardIInv DEF StartNoWindow, tables, redis

LEMMA NoLimitIInv ==
  ASSUME IInv, NEW r \in Requests, NoLimit(r)
  PROVE  IInv'
<1>1. Serving(r) /\ ~At(r, "responded") /\ ~At(r, "stored") /\ ~At(r, "counted")
  BY DEF NoLimit, Serving, At
<1>2. faults' \in 0..MaxFaults /\ UNCHANGED arrivals
  BY Types, FaultTypes DEF NoLimit, bounds
<1>3. QED
  BY <1>1, <1>2, Types, OnwardIInv DEF NoLimit, tables, redis

LEMMA EndWindowIInv == ASSUME IInv, EndWindow PROVE IInv'
<1>1. /\ count' = 0 /\ ttl' = FALSE
      /\ UNCHANGED <<stored, locked, tables, request, answered, causes, orphaned, bounds>>
  BY DEF EndWindow
<1>2. TypeOK'
  <2>1. count' \in 0..MaxArrivals
    BY <1>1, RequestsAssumption
  <2>2. QED
    BY <1>1, <2>1 DEF IInv, TypeOK, tables, bounds
<1>3. \A r \in Requests : RequestStands(r)'
  BY <1>1 DEF IInv, RequestStands, tables
<1>4. \A k \in Keys : KeyStands(k)'
  BY <1>1 DEF IInv, KeyStands, LockStands, AnswerStands, OnceStands, PromiseStands, Promised,
              Explained, Undecided, Repeated, Opens, On, Answering, Serving, At, Key, tables
<1>5. TopupsStand'
  BY <1>1 DEF IInv, TopupsStand, Key, tables
<1>6. CountStands'
  <2>1. Waiting' = Waiting /\ arrivals' = arrivals
    BY <1>1 DEF Waiting, bounds
  <2>2. IsFiniteSet(Waiting) /\ Cardinality(Waiting) \in Nat
    BY FS_CardinalityType DEF IInv, CountStands
  <2>3. count \in Nat /\ arrivals \in Nat
    BY Types, RequestsAssumption
  <2>4. QED
    BY <1>1, <2>1, <2>2, <2>3 DEF IInv, CountStands
<1>7. QED
  BY <1>1, <1>2, <1>3, <1>4, <1>5, <1>6 DEF IInv, CounterExpires

-----------------------------------------------------------------------------
(* The handlers.                                                             *)

(* A circle that was created before, or is being created, was so by a request *)
(* whose answer is stored or not yet: then this one has no lock of its own,   *)
(* or did not look for the answer after it had it.                           *)
LEMMA CreateCircleIInv ==
  ASSUME IInv, NEW r \in Requests, CreateCircle(r)
  PROVE  IInv'
<1>1. /\ At(r, "admitted") /\ Key(r) \in Circles /\ Respond(r, "created", TRUE)
      /\ UNCHANGED <<redis, tables, answered, causes, orphaned, bounds>>
  BY DEF CreateCircle
<1>2. Serving(r) /\ ~At(r, "responded") /\ ~At(r, "stored") /\ ~At(r, "counted")
  BY <1>1 DEF Serving, At
<1>3. Key(r) \in Keys /\ KeyStands(Key(r)) /\ On(r, Key(r)) /\ Key(r) \notin Topups
  BY <1>1, <1>2, Facts, RequestsAssumption DEF At, On
<1>4. PICK k \in Keys : k = Key(r)
  BY <1>3
<1>5. ASSUME ~Repeated(k)
      PROVE  effects[k] = 0 /\ \A q \in Requests : ~Opens(q, k)
  <2>1. stored[k] = None
    BY <1>2, <1>3, <1>4, <1>5 DEF KeyStands, AnswerStands
  <2>2. \A q \in Requests : On(q, k) => q = r
    BY <1>3, <1>4, <1>5 DEF KeyStands, LockStands, Repeated
  <2>3. \A q \in Requests : ~(Key(q) = k /\ At(q, "responded"))
    BY <1>2, <2>2 DEF On, Serving, At
  <2>4. ~(effects[k] > 0 \/ Undecided(k))
    BY <1>3, <1>4, <1>5, <2>1, <2>3 DEF KeyStands, AnswerStands
  <2>5. effects[k] \in Nat
    BY Types
  <2>6. QED
    BY <2>4, <2>5 DEF Undecided, Opens
<1>6. "created" \in Statuses /\ TRUE \in BOOLEAN
  BY DEF Statuses
<1>7. Others(r) /\ request'[r].pc = "responded"
  BY <1>1, <1>6, RespondStep, Types
<1>8. CountStands' /\ CounterExpires'
  BY <1>1, <1>2, <1>7, CountKept, CounterKept DEF redis, bounds
<1>9. QED
  BY <1>1, <1>2, <1>3, <1>4, <1>5, <1>6, <1>8, Types, ResponseIInv DEF redis

LEMMA FindRowIInv ==
  ASSUME IInv, NEW r \in Requests, FindRow(r)
  PROVE  IInv'
<1>1. /\ At(r, "admitted") /\ Key(r) \in Topups
      /\ UNCHANGED <<redis, tables, answered, causes, orphaned, bounds>>
  BY DEF FindRow
<1>2. request[r] \in RequestRow /\ row \in Topups \cup {None}
  BY <1>1, Facts, Types DEF At
<1>3. PICK q : q = [request[r] EXCEPT !.pc = "looked", !.seen = row]
  OBVIOUS
<1>4. /\ q \in RequestRow
      /\ q.pc = "looked" /\ q.key = request[r].key /\ q.locks = request[r].locks
      /\ q.seen = row /\ q.status = request[r].status /\ q.open = request[r].open
  BY <1>2, <1>3 DEF RequestRow, PcValues
<1>5. request' = [request EXCEPT ![r] = q]
  BY <1>2, <1>3, Types DEF FindRow, TypeOK, RequestRow
<1>6. request' \in [Requests -> RequestRow] /\ request'[r] = q /\ Others(r)
  BY <1>4, <1>5, RowStep, Types
<1>7. TypeOK'
  BY <1>1, <1>4, <1>6, Types, TypeKept DEF redis, tables, bounds
<1>8. CountStands' /\ CounterExpires'
  BY <1>1, <1>4, <1>6, CountKept, CounterKept DEF redis, bounds, At
<1>9. "looked" \in PcValues /\ Serving(r)
  BY <1>1 DEF PcValues, Serving, At
<1>10. QED
  BY <1>1, <1>4, <1>6, <1>7, <1>8, <1>9, QuietIInv DEF redis, At, Key

LEMMA TopupIInv ==
  ASSUME IInv, NEW r \in Requests, Topup(r)
  PROVE  IInv'
<1>1. /\ At(r, "looked") /\ ~Held(r)
      /\ IF row = None THEN Respond(r, "created", TRUE) ELSE Go(r, "failed")
      /\ UNCHANGED <<redis, tables, answered, causes, orphaned, bounds>>
  BY DEF Topup
<1>2. Serving(r) /\ ~At(r, "responded") /\ ~At(r, "stored") /\ ~At(r, "counted")
  BY <1>1 DEF Serving, At
<1>3. Key(r) \in Topups /\ ~request[r].open
  BY <1>1, Facts, Nones DEF RequestStands, At, Key
<1>4. CASE row # None
  BY <1>1, <1>2, <1>3, <1>4, Types, OnwardIInv DEF redis, bounds
<1>5. CASE row = None
  <2>1. \A q \in Requests : ~(Key(q) \in Topups /\ request[q].open)
    BY <1>1, <1>3 DEF Held
  <2>2. "created" \in Statuses /\ TRUE \in BOOLEAN
    BY DEF Statuses
  <2>3. Respond(r, "created", TRUE)
    BY <1>1, <1>5
  <2>4. Others(r) /\ request'[r].pc = "responded"
    BY <2>2, <2>3, RespondStep, Types
  <2>5. CountStands' /\ CounterExpires'
    BY <1>1, <1>2, <2>4, CountKept, CounterKept DEF redis, bounds
  <2>6. QED
    BY <1>1, <1>2, <1>3, <1>5, <2>1, <2>2, <2>3, <2>5, Types, ResponseIInv DEF redis
<1>6. QED
  BY <1>4, <1>5

LEMMA TopupAgainIInv ==
  ASSUME IInv, NEW r \in Requests, TopupAgain(r)
  PROVE  IInv'
<1>1. /\ At(r, "looked") /\ request[r].seen # None
      /\ Respond(r, "created", FALSE)
      /\ IF request[r].seen = Key(r) THEN UNCHANGED causes ELSE Mark(Key(r), "swallowed")
      /\ UNCHANGED <<redis, tables, answered, orphaned, bounds>>
  BY DEF TopupAgain
<1>2. Serving(r) /\ ~At(r, "responded") /\ ~At(r, "stored") /\ ~At(r, "counted")
  BY <1>1 DEF Serving, At
<1>3. Key(r) \in Keys /\ Key(r) \in Topups /\ row = request[r].seen
  BY <1>1, Facts DEF RequestStands, At, Key
<1>4. /\ causes' \in [Keys -> SUBSET Causes]
      /\ \A j \in Keys \ {Key(r)} : causes'[j] = causes[j]
      /\ causes[Key(r)] \subseteq causes'[Key(r)]
      /\ request[r].seen # Key(r) => "swallowed" \in causes'[Key(r)]
  BY <1>1, <1>3, Types DEF Mark, Causes
<1>5. request[r].seen = Key(r) => effects[Key(r)] > 0
  BY <1>3 DEF IInv, TopupsStand
<1>6. "created" \in Statuses /\ FALSE \in BOOLEAN
  BY DEF Statuses
<1>7. Others(r) /\ request'[r].pc = "responded"
  BY <1>1, <1>6, RespondStep, Types
<1>8. CountStands' /\ CounterExpires'
  BY <1>1, <1>2, <1>7, CountKept, CounterKept DEF redis, bounds
<1>9. QED
  BY <1>1, <1>2, <1>4, <1>5, <1>6, <1>8, Types, ResponseIInv DEF redis

(* The e-mail address is free and no other transaction is writing it.         *)
LEMMA RegisterIInv ==
  ASSUME IInv, NEW r \in Requests, Register(r)
  PROVE  IInv'
<1>1. /\ At(r, "admitted") /\ Key(r) \in Registers /\ ~Held(r)
      /\ IF effects[Key(r)] > 0
         THEN Respond(r, "refused", FALSE)
         ELSE Respond(r, "created", TRUE)
      /\ UNCHANGED <<redis, tables, answered, causes, orphaned, bounds>>
  BY DEF Register, Limited, EmailTaken
<1>2. Serving(r) /\ ~At(r, "responded") /\ ~At(r, "stored") /\ ~At(r, "counted")
  BY <1>1 DEF Serving, At
<1>3. /\ Key(r) \in Keys /\ Key(r) \notin Topups /\ ~request[r].open
      /\ effects[Key(r)] \in Nat
  BY <1>1, Facts, Types, Nones, RequestsAssumption DEF RequestStands, At
<1>4. \A q \in Requests : ~Opens(q, Key(r))
  BY <1>1, <1>3 DEF Held, Opens
<1>5. PICK status \in Statuses, open \in BOOLEAN :
        /\ Respond(r, status, open)
        /\ open <=> status = "created"
        /\ open => effects[Key(r)] = 0
  <2>1. /\ "refused" \in Statuses /\ "created" \in Statuses /\ "refused" # "created"
        /\ TRUE \in BOOLEAN /\ FALSE \in BOOLEAN
    BY DEF Statuses
  <2>2. CASE effects[Key(r)] > 0
    <3>1. Respond(r, "refused", FALSE)
      BY <1>1, <2>2
    <3>2. QED
      BY <2>1, <3>1
  <2>3. CASE ~(effects[Key(r)] > 0)
    <3>1. Respond(r, "created", TRUE)
      BY <1>1, <2>3
    <3>2. effects[Key(r)] = 0
      BY <1>3, <2>3
    <3>3. QED
      BY <2>1, <3>1, <3>2
  <2>4. QED
    BY <2>2, <2>3
<1>6. Others(r) /\ request'[r].pc = "responded"
  BY <1>5, RespondStep, Types
<1>7. CountStands' /\ CounterExpires'
  BY <1>1, <1>2, <1>6, CountKept, CounterKept DEF redis, bounds
<1>8. QED
  BY <1>1, <1>2, <1>3, <1>4, <1>5, <1>7, Types, ResponseIInv DEF redis

-----------------------------------------------------------------------------
(* The transaction ends.                                                     *)

LEMMA CloseStep ==
  ASSUME IInv, NEW r \in Requests, Close(r), request[r].open
  PROVE  /\ request' \in [Requests -> RequestRow] /\ Others(r) /\ ~request'[r].open
         /\ \/ At(r, "finished") /\ request'[r] = Idle
            \/ /\ At(r, "responded") \/ At(r, "stored")
               /\ request'[r].pc = request[r].pc /\ request'[r].key = Key(r)
               /\ request'[r].locks = request[r].locks /\ request'[r].seen = request[r].seen
               /\ request'[r].status = request[r].status
<1>1. request[r] \in RequestRow /\ RequestStands(r)
  BY DEF IInv, TypeOK, RequestRow
<1>2. At(r, "responded") \/ At(r, "stored") \/ At(r, "finished")
  BY <1>1, Nones DEF RequestStands, At
<1>3. CASE At(r, "finished")
  <2>1. request' = [request EXCEPT ![r] = Idle]
    BY <1>3, Types DEF Close, At, TypeOK
  <2>2. QED
    BY <1>3, <2>1, IdleRow, RowStep, Types
<1>4. CASE ~At(r, "finished")
  <2>1. PICK q : q = [request[r] EXCEPT !.open = FALSE]
    OBVIOUS
  <2>2. /\ q \in RequestRow
        /\ q.pc = request[r].pc /\ q.key = request[r].key /\ q.locks = request[r].locks
        /\ q.seen = request[r].seen /\ q.status = request[r].status /\ q.open = FALSE
    BY <1>1, <2>1 DEF RequestRow
  <2>3. request' = [request EXCEPT ![r] = q]
    BY <1>4, <2>1, Types DEF Close, At, TypeOK
  <2>4. request' \in [Requests -> RequestRow] /\ request'[r] = q /\ Others(r)
    BY <2>2, <2>3, RowStep, Types
  <2>5. QED
    BY <1>2, <1>4, <2>2, <2>4 DEF Key
<1>5. QED
  BY <1>3, <1>4

LEMMA CloseIInv ==
  ASSUME IInv, NEW r \in Requests, Close(r), request[r].open,
         \A j \in Keys \ {Key(r)} : effects'[j] = effects[j] /\ causes'[j] = causes[j],
         causes[Key(r)] \subseteq causes'[Key(r)],
         \/ /\ effects'[Key(r)] = effects[Key(r)] + 1
            /\ row' = IF Key(r) \in Topups THEN Key(r) ELSE row
         \/ /\ effects'[Key(r)] = effects[Key(r)] /\ row' = row
            /\ "lost" \in causes'[Key(r)],
         UNCHANGED <<redis, answered, orphaned, arrivals>>,
         effects' \in [Keys -> Nat], causes' \in [Keys -> SUBSET Causes],
         faults' \in 0..MaxFaults
  PROVE  IInv'
<1>1. /\ request' \in [Requests -> RequestRow] /\ Others(r) /\ ~request'[r].open
      /\ \/ At(r, "finished") /\ request'[r] = Idle
         \/ /\ At(r, "responded") \/ At(r, "stored")
            /\ request'[r].pc = request[r].pc /\ request'[r].key = Key(r)
            /\ request'[r].locks = request[r].locks /\ request'[r].seen = request[r].seen
            /\ request'[r].status = request[r].status
  BY CloseStep
<1>2. ~At(r, "idle")
  BY <1>1 DEF At
<1>3. Key(r) \in Keys /\ RequestStands(r) /\ KeyStands(Key(r))
  BY <1>2, Facts
<1>4. PICK k \in Keys : k = Key(r)
  BY <1>3
<1>5. effects[k] \in Nat /\ effects'[k] \in Nat /\ effects \in [Keys -> Nat]
  BY Types
<1>6. Opens(r, k) /\ ~Opens(r, k)'
  BY <1>1, <1>4 DEF Opens
<1>7. TypeOK'
  <2>1. row' \in Topups \cup {None}
    BY Types
  <2>2. request'[r].pc # "finished"
    BY <1>1, IdleRow DEF At
  <2>3. QED
    BY <1>1, <2>1, <2>2, Types, TypeKept DEF redis
<1>8. On(r, k)' => On(r, k) /\ At(r, "finished") = FALSE /\ request'[r].key = k
  BY <1>1, <1>4, IdleRow, Nones DEF On, Serving, At, Key
<1>9. LockStands(k)'
  BY <1>1, <1>3, <1>4, <1>8, LockKept DEF KeyStands, redis
<1>10. OnceStands(k)'
  <2> SUFFICES ASSUME k \in Registers \/ (k \in Circles /\ ~Repeated(k)')
               PROVE  effects'[k] <= 1 /\ \A q \in Requests : ~Opens(q, k)'
    BY DEF OnceStands
  <2>1. k \in Registers \/ (k \in Circles /\ ~Repeated(k))
    BY <1>4 DEF Repeated
  <2>2. effects[k] = 0 /\ \A q \in Requests : Opens(q, k) => q = r
    BY <1>3, <1>4, <1>6, <2>1 DEF KeyStands, OnceStands
  <2>3. \A q \in Requests : ~Opens(q, k)'
    BY <1>1, <1>6, <2>2 DEF Opens, Others, Key
  <2>4. QED
    BY <1>4, <1>5, <2>2, <2>3
<1>11. AnswerStands(k)'
  <2>1. On(r, k)' => /\ On(r, k) /\ request'[r].status = request[r].status
                     /\ At(r, "stored")' <=> At(r, "stored")
    BY <1>1, <1>8 DEF At
  <2>2. Key(r) = k /\ At(r, "responded") => (Key(r) = k /\ At(r, "responded"))'
    BY <1>1, <1>4 DEF At, Key
  <2>3. effects'[k] > 0 => effects[k] > 0 \/ Opens(r, k)
    BY <1>6
  <2>4. QED
    BY <1>1, <1>3, <1>4, <1>6, <2>1, <2>2, <2>3, AnswerKept DEF KeyStands, redis
<1>12. PromiseStands(k)'
  <2>1. Explained(k)'
    BY <1>4, <1>5 DEF Explained
  <2>2. QED
    BY <2>1 DEF PromiseStands
<1>13. KeyStands(k)'
  BY <1>9, <1>10, <1>11, <1>12 DEF KeyStands
<1>14. k \in Topups => row = None /\ \A q \in Requests : Key(q) \in Topups /\ request[q].open => q = r
  BY <1>4 DEF IInv, TopupsStand
<1>15. RequestStands(r)'
  <2>1. CASE request'[r] = Idle
    BY <2>1, IdleRow DEF RequestStands
  <2>2. CASE request'[r] # Idle
    <3>1. request[r].seen # None => row' = row
      BY <1>3, <1>4, <1>14 DEF RequestStands
    <3>2. QED
      BY <1>1, <1>2, <1>3, <2>2, <3>1 DEF RequestStands, Key, At
  <2>3. QED
    BY <2>1, <2>2
<1>16. TopupsStand'
  <2>1. \A q \in Requests : Key(q)' \in Topups /\ request'[q].open =>
                              q # r /\ Key(q) \in Topups /\ request[q].open
    BY <1>1 DEF Others, Key
  <2>2. CASE k \in Topups
    <3>1. \A q \in Requests : ~(Key(q)' \in Topups /\ request'[q].open)
      BY <1>14, <2>1, <2>2
    <3>2. ASSUME NEW j \in Topups PROVE effects'[j] = IF row' = j THEN 1 ELSE 0
      <4>1. effects[j] = 0 /\ j \in Keys
        BY <1>14, <2>2, Nones DEF IInv, TopupsStand, Keys
      <4>2. \/ row' = k /\ effects'[k] = effects[k] + 1
            \/ row' = None /\ effects'[k] = effects[k]
        BY <1>4, <1>14, <2>2
      <4>3. QED
        BY <1>4, <4>1, <4>2, Nones
    <3>3. QED
      BY <3>1, <3>2 DEF TopupsStand
  <2>3. CASE k \notin Topups
    <3>1. row' = row /\ \A j \in Topups : effects'[j] = effects[j]
      BY <1>4, <2>3 DEF Keys
    <3>2. QED
      BY <2>1, <3>1 DEF IInv, TopupsStand
  <2>4. QED
    BY <2>2, <2>3
<1>17. CountStands' /\ CounterExpires'
  BY <1>1, IdleRow, CountKept, CounterKept DEF redis, At
<1>18. row' = row \/ row = None
  BY <1>4, <1>14
<1>19. request'[r].key \in {k, None}
  BY <1>1, <1>4, IdleRow
<1>20. QED
  BY <1>1, <1>4, <1>7, <1>13, <1>15, <1>16, <1>17, <1>18, <1>19, StepIInv DEF redis

LEMMA CommitIInv ==
  ASSUME IInv, NEW r \in Requests, Commit(r)
  PROVE  IInv'
<1>1. /\ request[r].open /\ Close(r)
      /\ effects' = [effects EXCEPT ![Key(r)] = @ + 1]
      /\ row' = IF Key(r) \in Topups THEN Key(r) ELSE row
      /\ UNCHANGED <<redis, answered, causes, orphaned, bounds>>
  BY DEF Commit
<1>2. Key(r) \in Keys
  BY <1>1, CloseStep, Facts DEF At
<1>3. effects' \in [Keys -> Nat] /\ effects'[Key(r)] = effects[Key(r)] + 1
  BY <1>1, <1>2, Types
<1>4. QED
  BY <1>1, <1>2, <1>3, Types, CloseIInv DEF bounds

LEMMA CommitFailsIInv ==
  ASSUME IInv, NEW r \in Requests, CommitFails(r)
  PROVE  IInv'
<1>1. /\ request[r].open /\ Close(r) /\ Fault
      /\ causes' = [causes EXCEPT ![Key(r)] = @ \cup {"lost"}]
      /\ UNCHANGED <<redis, tables, answered, orphaned>>
  BY DEF CommitFails, Mark
<1>2. Key(r) \in Keys
  BY <1>1, CloseStep, Facts DEF At
<1>3. /\ causes' \in [Keys -> SUBSET Causes] /\ "lost" \in causes'[Key(r)]
      /\ causes[Key(r)] \subseteq causes'[Key(r)]
      /\ \A j \in Keys \ {Key(r)} : causes'[j] = causes[j]
  BY <1>1, <1>2, Types DEF Causes
<1>4. QED
  BY <1>1, <1>2, <1>3, Types, FaultTypes, CloseIInv DEF tables

-----------------------------------------------------------------------------
(* The answer is kept and goes out.                                          *)

(* Nobody else is served for the key, unless its lock expired: what is stored *)
(* is the first answer.                                                      *)
LEMMA StoreIInv ==
  ASSUME IInv, NEW r \in Requests, Store(r)
  PROVE  IInv'
<1>1. /\ At(r, "responded") /\ request[r].locks /\ Go(r, "stored")
      /\ stored' = [stored EXCEPT ![Key(r)] = request[r].status]
      /\ UNCHANGED <<locked, count, ttl, tables, answered, causes, orphaned, bounds>>
  BY DEF Store
<1>2. Key(r) \in Keys /\ RequestStands(r) /\ KeyStands(Key(r)) /\ request[r] \in RequestRow
  BY <1>1, Facts DEF At
<1>3. PICK k \in Keys : k = Key(r)
  BY <1>2
<1>4. "stored" \in PcValues
  BY DEF PcValues
<1>5. /\ request' \in [Requests -> RequestRow] /\ Others(r)
      /\ request'[r].pc = "stored" /\ request'[r].key = Key(r)
      /\ request'[r].locks = request[r].locks /\ request'[r].seen = request[r].seen
      /\ request'[r].status = request[r].status /\ request'[r].open = request[r].open
  BY <1>1, <1>4, GoStep, Types
<1>6. request[r].status \in Statuses /\ request[r].status # None
  BY <1>1, <1>2 DEF RequestStands, RequestRow, At
<1>7. /\ stored' \in [Keys -> Statuses \cup {None}] /\ stored'[k] = request[r].status
      /\ \A j \in Keys \ {k} : stored'[j] = stored[j]
  BY <1>1, <1>3, <1>6, Types
<1>8. TypeOK'
  BY <1>1, <1>5, <1>7, Types, TypeKept DEF tables, bounds
<1>9. On(r, k) /\ (Opens(r, k)' <=> Opens(r, k)) /\ Answering(r, k)
  BY <1>1, <1>3, <1>5 DEF On, Opens, Answering, Serving, At, Key
<1>10. LockStands(k)' /\ OnceStands(k)'
  BY <1>1, <1>2, <1>3, <1>5, <1>9, LockKept, OnceKept DEF KeyStands, tables
<1>11. PromiseStands(k)'
  <2>1. Promised(k)' => Promised(k)
    BY <1>1, <1>5, <1>7, <1>9 DEF Promised, Answering, Others, Key, At
  <2>2. QED
    BY <1>1, <1>2, <1>3, <1>5, <1>9, <2>1, PromiseKept DEF KeyStands, tables
<1>12. AnswerStands(k)'
  <2> SUFFICES ASSUME ~Repeated(k)' PROVE AnswerStands(k)'
    BY DEF AnswerStands
  <2>1. ~Repeated(k) /\ "overlapped" \notin causes[k]
    BY <1>1 DEF Repeated
  <2>2. \A q \in Requests : On(q, k) => q = r
    BY <1>2, <1>3, <1>9, <2>1 DEF KeyStands, LockStands
  <2>3. \A q \in Requests : On(q, k)' => q = r
    BY <1>5, <2>2 DEF On, Others, Key, Serving, At
  <2>4. stored[k] = None /\ \A a \in answered[k] : stored[k] = a
    BY <1>1, <1>2, <1>3, <1>9, <2>1 DEF KeyStands, AnswerStands, At
  <2>5. answered[k] = {}
    BY <2>4, Nones, Types
  <2>6. QED
    BY <1>1, <1>5, <1>6, <1>7, <2>3, <2>5 DEF AnswerStands, At
<1>13. KeyStands(k)'
  BY <1>10, <1>11, <1>12 DEF KeyStands
<1>14. RequestStands(r)'
  BY <1>1, <1>2, <1>5, <1>6 DEF RequestStands, tables, Key
<1>15. TopupsStand' /\ CountStands' /\ CounterExpires'
  BY <1>1, <1>5, TopupsKept, CountKept, CounterKept DEF tables, bounds, At
<1>16. QED
  BY <1>1, <1>3, <1>5, <1>7, <1>8, <1>13, <1>14, <1>15, StepIInv DEF tables

LEMMA StoreFailsIInv ==
  ASSUME IInv, NEW r \in Requests, StoreFails(r)
  PROVE  IInv'
<1>1. /\ At(r, "responded") /\ request[r].locks /\ Go(r, "stored") /\ Fault
      /\ causes' = [causes EXCEPT ![Key(r)] = @ \cup {"forgotten"}]
      /\ UNCHANGED <<redis, tables, answered, orphaned>>
  BY DEF StoreFails, Mark
<1>2. Key(r) \in Keys /\ RequestStands(r) /\ KeyStands(Key(r))
  BY <1>1, Facts DEF At
<1>3. PICK k \in Keys : k = Key(r)
  BY <1>2
<1>4. "stored" \in PcValues
  BY DEF PcValues
<1>5. /\ request' \in [Requests -> RequestRow] /\ Others(r)
      /\ request'[r].pc = "stored" /\ request'[r].key = Key(r)
      /\ request'[r].locks = request[r].locks /\ request'[r].seen = request[r].seen
      /\ request'[r].status = request[r].status /\ request'[r].open = request[r].open
  BY <1>1, <1>4, GoStep, Types
<1>6. /\ causes' \in [Keys -> SUBSET Causes] /\ "forgotten" \in causes'[k]
      /\ causes[k] \subseteq causes'[k]
      /\ \A j \in Keys \ {k} : causes'[j] = causes[j]
  BY <1>1, <1>3, Types DEF Causes
<1>7. TypeOK'
  BY <1>1, <1>5, <1>6, Types, FaultTypes, TypeKept DEF redis, tables
<1>8. On(r, k) /\ (Opens(r, k)' <=> Opens(r, k)) /\ Answering(r, k)
  BY <1>1, <1>3, <1>5 DEF On, Opens, Answering, Serving, At, Key
<1>9. LockStands(k)' /\ OnceStands(k)'
  BY <1>1, <1>2, <1>3, <1>5, <1>6, <1>8, LockKept, OnceKept DEF KeyStands, redis, tables
<1>10. PromiseStands(k)'
  <2>1. Promised(k)' => Promised(k)
    BY <1>1, <1>5, <1>8 DEF Promised, Answering, Others, Key, At, redis
  <2>2. QED
    BY <1>1, <1>2, <1>3, <1>5, <1>6, <1>8, <2>1, PromiseKept DEF KeyStands, tables
<1>11. AnswerStands(k)'
  BY <1>6 DEF AnswerStands, Repeated
<1>12. KeyStands(k)'
  BY <1>9, <1>10, <1>11 DEF KeyStands
<1>13. RequestStands(r)'
  BY <1>1, <1>2, <1>5 DEF RequestStands, tables, Key, At
<1>14. TopupsStand' /\ CountStands' /\ CounterExpires'
  BY <1>1, <1>5, FaultTypes, TopupsKept, CountKept, CounterKept DEF redis, tables, At
<1>15. QED
  BY <1>1, <1>3, <1>5, <1>6, <1>7, <1>12, <1>13, <1>14, StepIInv DEF redis, tables

LEMMA FinishStep ==
  ASSUME TypeOK, NEW r \in Requests, Finish(r)
  PROVE  /\ request' \in [Requests -> RequestRow] /\ Others(r)
         /\ \/ ~request[r].open /\ request'[r] = Idle
            \/ /\ request[r].open /\ request'[r].open
               /\ request'[r].pc = "finished" /\ request'[r].key = Key(r)
               /\ request'[r].seen = request[r].seen
               /\ request'[r].status = request[r].status
<1>1. request[r] \in RequestRow
  BY DEF TypeOK, RequestRow
<1>2. CASE request[r].open
  <2>1. PICK q : q = [request[r] EXCEPT !.pc = "finished"]
    OBVIOUS
  <2>2. /\ q \in RequestRow
        /\ q.pc = "finished" /\ q.key = request[r].key
        /\ q.seen = request[r].seen /\ q.status = request[r].status
        /\ q.open = request[r].open
    BY <1>1, <2>1 DEF RequestRow, PcValues
  <2>3. request' = [request EXCEPT ![r] = q]
    BY <1>2, <2>1 DEF Finish, TypeOK
  <2>4. request' \in [Requests -> RequestRow] /\ request'[r] = q /\ Others(r)
    BY <2>2, <2>3, RowStep
  <2>5. QED
    BY <1>2, <2>2, <2>4 DEF Key
<1>3. CASE ~request[r].open
  <2>1. request' = [request EXCEPT ![r] = Idle]
    BY <1>3 DEF Finish, TypeOK
  <2>2. QED
    BY <1>3, <2>1, IdleRow, RowStep
<1>4. QED
  BY <1>2, <1>3

LEMMA AnsweredIInv ==
  ASSUME IInv, NEW r \in Requests, Finish(r), Answer(Key(r), request[r].status),
         At(r, "stored") \/ (At(r, "responded") /\ ~request[r].locks),
         locked' = locked \/ locked' = locked \ {Key(r)},
         UNCHANGED <<stored, count, ttl, tables, causes, orphaned, arrivals>>,
         faults' \in 0..MaxFaults
  PROVE  IInv'
<1>1. Key(r) \in Keys /\ RequestStands(r) /\ KeyStands(Key(r)) /\ request[r] \in RequestRow
  BY Facts DEF At
<1>2. PICK k \in Keys : k = Key(r)
  BY <1>1
<1>3. /\ request' \in [Requests -> RequestRow] /\ Others(r)
      /\ \/ ~request[r].open /\ request'[r] = Idle
         \/ /\ request[r].open /\ request'[r].open
            /\ request'[r].pc = "finished" /\ request'[r].key = Key(r)
            /\ request'[r].seen = request[r].seen
            /\ request'[r].status = request[r].status
  BY FinishStep, Types
<1>4. PICK status \in Statuses : status = request[r].status /\ status # None
  BY <1>1 DEF RequestStands, RequestRow, At
<1>5. /\ answered' \in [Keys -> SUBSET Statuses]
      /\ answered'[k] = answered[k] \cup {status}
      /\ \A j \in Keys \ {k} : answered'[j] = answered[j]
  BY <1>2, <1>4, Types DEF Answer
<1>6. TypeOK'
  BY <1>3, <1>5, IdleRow, Types, TypeKept DEF tables
<1>7. /\ ~On(r, k)' /\ ~Answering(r, k)' /\ On(r, k) /\ Answering(r, k)
      /\ Opens(r, k)' <=> Opens(r, k)
  BY <1>2, <1>3, IdleRow DEF On, Opens, Answering, Serving, At, Key
<1>8. \A q \in Requests : On(q, k)' => On(q, k) /\ q # r /\ request'[q] = request[q]
  BY <1>3, <1>7 DEF On, Others, Key, Serving, At
<1>9. "overlapped" \notin causes[k] => At(r, "stored") /\ \A q \in Requests : ~On(q, k)'
  BY <1>1, <1>2, <1>7, <1>8 DEF KeyStands, LockStands
<1>10. LockStands(k)' /\ OnceStands(k)'
  BY <1>1, <1>2, <1>3, <1>7, <1>9, OnceKept DEF LockStands, KeyStands, tables
<1>11. PromiseStands(k)'
  <2>1. Promised(k)' => Promised(k)
    BY <1>3, <1>4, <1>5, <1>7 DEF Promised, Answering, Others, Key, At
  <2>2. QED
    BY <1>1, <1>2, <1>3, <1>7, <2>1, PromiseKept DEF KeyStands, tables
<1>12. AnswerStands(k)'
  <2> SUFFICES ASSUME ~Repeated(k)' PROVE AnswerStands(k)'
    BY DEF AnswerStands
  <2>1. ~Repeated(k) /\ At(r, "stored") /\ \A q \in Requests : ~On(q, k)'
    BY <1>9 DEF Repeated
  <2>2. stored[k] = status /\ \A a \in answered[k] : stored[k] = a
    BY <1>1, <1>2, <1>4, <1>7, <2>1 DEF KeyStands, AnswerStands
  <2>3. QED
    BY <1>4, <1>5, <2>1, <2>2 DEF AnswerStands
<1>13. KeyStands(k)'
  BY <1>10, <1>11, <1>12 DEF KeyStands
<1>14. RequestStands(r)'
  BY <1>1, <1>3, <1>4, IdleRow DEF RequestStands, tables, Key, At
<1>15. TopupsStand' /\ CountStands' /\ CounterExpires'
  BY <1>3, IdleRow, TopupsKept, CountKept, CounterKept DEF tables, At
<1>16. request'[r].key \in {k, None}
  BY <1>2, <1>3, IdleRow
<1>17. QED
  BY <1>2, <1>3, <1>5, <1>6, <1>13, <1>14, <1>15, <1>16, StepIInv DEF tables

LEMMA UnlockIInv ==
  ASSUME IInv, NEW r \in Requests, Unlock(r)
  PROVE  IInv'
  BY Types, AnsweredIInv DEF Unlock, bounds

LEMMA UnlockFailsIInv ==
  ASSUME IInv, NEW r \in Requests, UnlockFails(r)
  PROVE  IInv'
<1>1. Fault
  BY DEF UnlockFails
<1>2. QED
  BY <1>1, FaultTypes, AnsweredIInv DEF UnlockFails, redis

LEMMA AnswerUnlockedIInv ==
  ASSUME IInv, NEW r \in Requests, AnswerUnlocked(r)
  PROVE  IInv'
  BY Types, AnsweredIInv DEF AnswerUnlocked, redis, bounds

-----------------------------------------------------------------------------
(* A request ends without an answer: the handler raised, or the process died. *)
LEMMA GoneIInv ==
  ASSUME IInv, NEW r \in Requests, ~At(r, "idle"),
         request' = [request EXCEPT ![r] = Idle],
         locked' = locked \/ (locked' = locked \ {Key(r)} /\ request[r].locks /\ Serving(r)),
         causes' \in [Keys -> SUBSET Causes],
         \A j \in Keys \ {Key(r)} : causes'[j] = causes[j],
         causes[Key(r)] \subseteq causes'[Key(r)],
         request[r].open => "lost" \in causes'[Key(r)],
         At(r, "responded") => "forgotten" \in causes'[Key(r)],
         orphaned' \in BOOLEAN, orphaned => orphaned', At(r, "counted") => orphaned',
         UNCHANGED <<stored, count, ttl, tables, answered, arrivals>>,
         faults' \in 0..MaxFaults
  PROVE  IInv'
<1>1. Key(r) \in Keys /\ RequestStands(r) /\ KeyStands(Key(r))
  BY Facts
<1>2. PICK k \in Keys : k = Key(r)
  BY <1>1
<1>3. request' \in [Requests -> RequestRow] /\ request'[r] = Idle /\ Others(r)
  BY IdleRow, RowStep, Types
<1>4. TypeOK'
  BY <1>3, IdleRow, Types, TypeKept DEF tables
<1>5. ~On(r, k)' /\ ~Opens(r, k)' /\ ~Answering(r, k)'
  BY <1>3, IdleRow DEF On, Opens, Answering, Serving, At
<1>6. LockStands(k)'
  <2>1. CASE locked' = locked
    BY <1>1, <1>2, <1>3, <1>5, <2>1, LockKept DEF KeyStands
  <2>2. CASE locked' # locked
    <3> SUFFICES ASSUME "overlapped" \notin causes'[k], NEW q \in Requests, On(q, k)'
                 PROVE  FALSE
      BY DEF LockStands
    <3>1. q # r /\ On(q, k) /\ On(r, k)
      BY <1>2, <1>3, <1>5, <2>2 DEF On, Others, Key, Serving, At
    <3>2. "overlapped" \notin causes[k]
      BY <1>2
    <3>3. QED
      BY <1>1, <1>2, <3>1, <3>2 DEF KeyStands, LockStands
  <2>3. QED
    BY <2>1, <2>2
<1>7. OnceStands(k)'
  BY <1>1, <1>2, <1>3, <1>5, OnceKept DEF KeyStands, tables
<1>8. PromiseStands(k)'
  <2>1. Promised(k)' => Promised(k)
    BY <1>3, <1>5 DEF Promised, Answering, Others, Key, At
  <2>2. Opens(r, k) => Explained(k)'
    BY <1>2 DEF Opens, Explained
  <2>3. QED
    BY <1>1, <1>2, <1>3, <2>1, <2>2, PromiseKept DEF KeyStands, tables
<1>9. AnswerStands(k)'
  <2>1. CASE At(r, "responded")
    BY <1>2, <2>1 DEF AnswerStands, Repeated
  <2>2. CASE ~At(r, "responded")
    BY <1>1, <1>2, <1>3, <1>5, <2>2, AnswerKept DEF KeyStands, tables
  <2>3. QED
    BY <2>1, <2>2
<1>10. KeyStands(k)'
  BY <1>6, <1>7, <1>8, <1>9 DEF KeyStands
<1>11. RequestStands(r)'
  BY <1>3, IdleRow DEF RequestStands
<1>12. TopupsStand' /\ CountStands' /\ CounterExpires'
  BY <1>3, IdleRow, TopupsKept, CountKept, CounterKept DEF tables
<1>13. QED
  BY <1>2, <1>3, <1>4, <1>10, <1>11, <1>12, IdleRow, StepIInv DEF tables

LEMMA RaiseIInv ==
  ASSUME IInv, NEW r \in Requests, Raise(r)
  PROVE  IInv'
<1>1. /\ At(r, "failed")
      /\ locked' = IF request[r].locks THEN locked \ {Key(r)} ELSE locked
      /\ request' = [request EXCEPT ![r] = Idle]
      /\ UNCHANGED <<stored, count, ttl, tables, answered, causes, orphaned, bounds>>
  BY DEF Raise
<1>2. Serving(r) /\ ~At(r, "idle") /\ ~At(r, "responded") /\ ~At(r, "counted")
  BY <1>1 DEF Serving, At
<1>3. ~request[r].open
  BY <1>1, <1>2, Facts, Nones DEF RequestStands, At
<1>4. QED
  BY <1>1, <1>2, <1>3, Types, GoneIInv DEF bounds

LEMMA CrashIInv ==
  ASSUME IInv, NEW r \in Requests, Crash(r)
  PROVE  IInv'
<1>1. /\ ~At(r, "idle") /\ Fault
      /\ request' = [request EXCEPT ![r] = Idle]
      /\ UNCHANGED <<redis, tables, answered>>
  BY DEF Crash
<1>2. Key(r) \in Keys
  BY <1>1, Facts
<1>3. /\ orphaned' \in BOOLEAN
      /\ orphaned => orphaned'
      /\ At(r, "counted") => orphaned'
  BY DEF Crash
<1>4. /\ causes' \in [Keys -> SUBSET Causes]
      /\ \A j \in Keys \ {Key(r)} : causes'[j] = causes[j]
      /\ causes'[Key(r)] = causes[Key(r)] \cup {c \in {"forgotten"} : At(r, "responded")}
                             \cup {c \in {"lost"} : request[r].open}
  BY <1>2, Types DEF Crash, Causes
<1>5. QED
  BY <1>1, <1>3, <1>4, FaultTypes, GoneIInv DEF redis

-----------------------------------------------------------------------------
(* Redis forgets.                                                            *)
LEMMA ExpiryIInv ==
  ASSUME IInv, NEW k \in Keys,
         \A j \in Keys \ {k} :
           stored'[j] = stored[j] /\ causes'[j] = causes[j] /\ (j \in locked' <=> j \in locked),
         causes[k] \subseteq causes'[k],
         \/ "overlapped" \in causes'[k]
         \/ (k \in locked <=> k \in locked') /\ "forgotten" \in causes'[k],
         stored'[k] = stored[k] \/ stored'[k] = None,
         stored' \in [Keys -> Statuses \cup {None}], locked' \subseteq Keys,
         causes' \in [Keys -> SUBSET Causes],
         UNCHANGED <<count, ttl, tables, request, answered, orphaned, bounds>>
  PROVE  IInv'
<1> USE DEF tables, bounds
<1>1. TypeOK'
  BY DEF IInv, TypeOK
<1>2. \A r \in Requests : RequestStands(r)'
  BY DEF IInv, RequestStands
<1>3. ASSUME NEW j \in Keys \ {k} PROVE KeyStands(j)'
  <2>1. KeyStands(j)
    BY DEF IInv
  <2>2. LockStands(j)' /\ OnceStands(j)'
    BY <2>1 DEF KeyStands, LockStands, OnceStands, Repeated, Opens, On, Serving, At, Key
  <2>3. AnswerStands(j)'
    BY <2>1 DEF KeyStands, AnswerStands, Undecided, Repeated, On, Serving, At, Key
  <2>4. PromiseStands(j)'
    BY <2>1 DEF KeyStands, PromiseStands, Promised, Explained, Undecided, Answering, At, Key
  <2>5. QED
    BY <2>2, <2>3, <2>4 DEF KeyStands
<1>4. KeyStands(k)'
  <2>1. KeyStands(k)
    BY DEF IInv
  <2>2. LockStands(k)'
    BY <2>1 DEF KeyStands, LockStands, On, Serving, At, Key
  <2>3. OnceStands(k)'
    BY <2>1 DEF KeyStands, OnceStands, Repeated, Opens, Key
  <2>4. AnswerStands(k)'
    BY DEF AnswerStands, Repeated
  <2>5. PromiseStands(k)'
    BY <2>1, Nones
       DEF KeyStands, PromiseStands, Promised, Explained, Undecided, Answering, At, Key
  <2>6. QED
    BY <2>2, <2>3, <2>4, <2>5 DEF KeyStands
<1>5. TopupsStand'
  BY DEF IInv, TopupsStand, Key
<1>6. CountStands' /\ CounterExpires'
  <2>1. Waiting' = Waiting
    BY DEF Waiting
  <2>2. QED
    BY <2>1 DEF IInv, CountStands, CounterExpires, At
<1>7. QED
  BY <1>1, <1>2, <1>3, <1>4, <1>5, <1>6 DEF IInv

LEMMA ExpireLockIInv ==
  ASSUME IInv, NEW k \in Keys, ExpireLock(k)
  PROVE  IInv'
<1>1. /\ causes' \in [Keys -> SUBSET Causes] /\ "overlapped" \in causes'[k]
      /\ causes[k] \subseteq causes'[k]
      /\ \A j \in Keys \ {k} : causes'[j] = causes[j]
  BY Types DEF ExpireLock, Mark, Causes
<1>2. QED
  BY <1>1, Types, ExpiryIInv DEF ExpireLock

LEMMA ExpireAnswerIInv ==
  ASSUME IInv, NEW k \in Keys, ExpireAnswer(k)
  PROVE  IInv'
<1>1. /\ causes' \in [Keys -> SUBSET Causes] /\ "forgotten" \in causes'[k]
      /\ causes[k] \subseteq causes'[k]
      /\ \A j \in Keys \ {k} : causes'[j] = causes[j]
  BY Types DEF ExpireAnswer, Mark, Causes
<1>2. /\ stored' \in [Keys -> Statuses \cup {None}] /\ stored'[k] = None
      /\ \A j \in Keys \ {k} : stored'[j] = stored[j]
      /\ UNCHANGED <<locked, count, ttl, tables, request, answered, orphaned, bounds>>
  BY Types DEF ExpireAnswer
<1>3. QED
  BY <1>1, <1>2, Types, ExpiryIInv

-----------------------------------------------------------------------------
LEMMA ServeIInv ==
  ASSUME IInv, NEW r \in Requests, Serve(r)
  PROVE  IInv'
  BY ReplayIInv, MissIInv, TakeLockIInv, InProgressIInv, FailOpenIInv, CountIInv,
     StartWindowIInv, StartNoWindowIInv, NoLimitIInv, CreateCircleIInv, FindRowIInv, TopupIInv,
     TopupAgainIInv, RegisterIInv, CommitIInv, CommitFailsIInv, StoreIInv, StoreFailsIInv,
     UnlockIInv, UnlockFailsIInv, AnswerUnlockedIInv, RaiseIInv, CrashIInv
     DEF Serve

LEMMA StutterIInv == ASSUME IInv, UNCHANGED vars PROVE IInv'
<1> USE DEF vars, redis, tables, bounds
<1>1. TypeOK' /\ \A r \in Requests : RequestStands(r)'
  BY DEF IInv, TypeOK, RequestStands
<1>2. \A k \in Keys : KeyStands(k)'
  BY DEF IInv, KeyStands, LockStands, AnswerStands, OnceStands, PromiseStands, Promised,
         Explained, Undecided, Repeated, Opens, On, Answering, Serving, At, Key
<1>3. TopupsStand' /\ CountStands' /\ CounterExpires'
  <2>1. Waiting' = Waiting
    BY DEF Waiting
  <2>2. QED
    BY <2>1 DEF IInv, TopupsStand, CountStands, CounterExpires, At, Key
<1>4. QED
  BY <1>1, <1>2, <1>3 DEF IInv

LEMMA NextIInv == IInv /\ [Next]_vars => IInv'
<1> SUFFICES ASSUME IInv, [Next]_vars PROVE IInv'
  OBVIOUS
<1>1. CASE UNCHANGED vars
  BY <1>1, StutterIInv
<1>2. CASE Next
  <2>1. ASSUME NEW r \in Requests, Serve(r) \/ \E k \in Keys : Arrive(r, k) PROVE IInv'
    BY <2>1, ServeIInv, ArriveIInv
  <2>2. ASSUME NEW k \in Keys, ExpireLock(k) \/ ExpireAnswer(k) PROVE IInv'
    BY <2>2, ExpireLockIInv, ExpireAnswerIInv
  <2>3. QED
    BY <1>2, <2>1, <2>2, EndWindowIInv DEF Next
<1>3. QED
  BY <1>1, <1>2

-----------------------------------------------------------------------------
(* The invariant that the locks, the kept answers, the transactions and the  *)
(* counter keep together.                                                    *)
THEOREM Invariance == Spec => []IInv
<1>1. QED
  BY InitIInv, NextIInv, PTL DEF Spec

(* Every variable keeps its type; in particular no more requests are counted  *)
(* than arrived.                                                             *)
THEOREM TypeCorrect == Spec => []TypeOK
<1>1. IInv => TypeOK
  BY DEF IInv
<1>2. QED
  BY <1>1, Invariance, PTL

(* A registration or a top-up takes effect once whatever happens to locks and *)
(* answers, and a circle is created twice only where a lock expired, an       *)
(* answer was lost, or a retry looked for the answer too early.              *)
THEOREM EffectsOnce == Spec => []OneEffectPerKey
<1>1. IInv => OneEffectPerKey
  <2> SUFFICES ASSUME IInv, NEW k \in Keys, effects[k] > 1
               PROVE  k \in Circles /\ Repeated(k)
    BY DEF OneEffectPerKey
  <2>1. OnceStands(k) /\ effects[k] \in Nat
    BY Types DEF IInv, KeyStands
  <2>2. k \notin Topups
    BY DEF IInv, TopupsStand
  <2>3. QED
    BY <2>1, <2>2 DEF OnceStands, Keys
<1>2. QED
  BY <1>1, Invariance, PTL

(* Two requests are served for one key at the same time only after its lock   *)
(* expired or Redis failed for one of them.                                  *)
THEOREM OverlapsExplained == Spec => []OverlapIsExplained
<1>1. IInv => OverlapIsExplained
  <2> SUFFICES ASSUME IInv, NEW q \in Requests, NEW r \in Requests, q # r,
                      Serving(q), Serving(r), Key(q) = Key(r)
               PROVE  "overlapped" \in causes[Key(r)]
    BY DEF OverlapIsExplained
  <2>1. KeyStands(Key(r))
    <3>1. ~At(r, "idle")
      BY DEF Serving, At
    <3>2. QED
      BY <3>1, Facts
  <2>2. QED
    BY <2>1 DEF KeyStands, LockStands, On
<1>2. QED
  BY <1>1, Invariance, PTL

(* A client that got or will get "created" finds what was created, unless the *)
(* commit was lost or the fake rail swallowed the top-up.                    *)
THEOREM CreatedCommitted == Spec => []CreatedIsCommitted
<1>1. IInv => CreatedIsCommitted
  BY DEF IInv, CreatedIsCommitted, KeyStands, PromiseStands, Promised, Explained
<1>2. QED
  BY <1>1, Invariance, PTL

(* All answers to a key are the same one, unless it was executed again.       *)
THEOREM SameAnswers == Spec => []AnswersAgree
<1>1. IInv => AnswersAgree
  <2> SUFFICES ASSUME IInv, NEW k \in Keys, ~Repeated(k)
               PROVE  ~(Cardinality(answered[k]) > 1)
    BY DEF AnswersAgree
  <2>1. answered[k] \subseteq {stored[k]}
    BY DEF IInv, KeyStands, AnswerStands
  <2>2. IsFiniteSet({stored[k]}) /\ Cardinality({stored[k]}) = 1
    BY FS_Singleton
  <2>3. /\ Cardinality(answered[k]) <= Cardinality({stored[k]})
        /\ Cardinality(answered[k]) \in Nat
    BY <2>1, <2>2, FS_Subset, FS_CardinalityType
  <2>4. QED
    BY <2>2, <2>3
<1>2. QED
  BY <1>1, Invariance, PTL

(* A counter that runs has an expiry or is about to get one, unless Redis or  *)
(* the process failed between the two calls.                                 *)
THEOREM CountersExpire == Spec => []CounterExpires
<1>1. IInv => CounterExpires
  BY DEF IInv
<1>2. QED
  BY <1>1, Invariance, PTL

=============================================================================
