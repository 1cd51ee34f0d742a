--------------------------- MODULE CircleMoneyProofs ---------------------------
(***************************************************************************)
(* Proofs about CircleMoney, for any number of members and concurrent      *)
(* requests and either rail: that the rows of a circle, its journal and the *)
(* provider's payouts agree, and no payout takes more than was collected.   *)
(***************************************************************************)
EXTENDS CircleMoney, CalendarProofs, FiniteSetTheorems

Missing(c) == {x \in Slots : x[1] = c /\ status[x] = "due"}

(* A payout of this amount is in the collected account, and what the cycle    *)
(* still misses is no more than what the payout falls short.                 *)
Covered(c, amount) ==
  /\ amount <= Cardinality(CollectedFor(c))
  /\ Cardinality(Missing(c)) <= MemberCount - amount

(* What the provider said of a payout is final.                              *)
Told(c, st) == st \in {"settled", "failed"} => provider[c].state = st

SentFor(c, amount) == provider[c].state # Absent /\ provider[c].amount = amount

WebhookSteps == {"fetched", "checked", "settling"}

(* What a request has read, and what of it is still true when it commits.    *)
JobStands(s) ==
  LET j == job[s] IN
  /\ j.op = "payout" =>
       /\ Covered(j.cycle, j.amount)
       /\ rail # "fake" => SentFor(j.cycle, j.amount) /\ Told(j.cycle, j.answer)
  /\ j.op \in WebhookSteps => provider[j.cycle].state # Absent /\ Told(j.cycle, j.got)
  /\ j.op = "settling" =>
       Told(j.cycle, j.st) /\ (j.was # Absent => payout[j.cycle] # NoRow)
  /\ j.op = "late" => status[j.slot] # "due"
  /\ j.op = "complete" => Cycles \subseteq paidOut

(* The payout row of a cycle, the payment row and the provider.              *)
CycleStands(c) ==
  /\ Told(c, payment[c])
  /\ payout[c] # NoRow =>
       /\ Covered(c, payout[c].amount)
       /\ payout[c].shortfall = MemberCount - payout[c].amount
       /\ rail = "fake" => payout[c].status = "paid"
       /\ rail # "fake" =>
            /\ SentFor(c, payout[c].amount)
            /\ payout[c].status = "paid" => Told(c, "settled")
            /\ payout[c].status = "failed" => Told(c, "failed")
  /\ c \in paidOut => shortfall[c] = payout[c].shortfall

(* RowsMatchJournal for one cycle and for one contribution.                  *)
CycleRows(c) ==
  /\ PaidFor(c) # {} <=> c \in paidOut
  /\ c \in paidOut <=> payout[c] # NoRow /\ payout[c].status = "paid"
  /\ \A e \in PaidFor(c) : e.amount = payout[c].amount

SlotRows(x) ==
  /\ status[x] \in {"paid", "late_failed"} <=> ~KeyFree(CollectionKey(x))
  /\ status[x] = "late_failed" <=> ~KeyFree(LateKey(x))

ProviderStands ==
  /\ provider \in [Cycles -> [state : States \cup {Absent}, amount : Nat]]
  /\ rail = "fake" => \A c \in Cycles : provider[c].state = Absent

IInv ==
  /\ TypeOK
  /\ job = [s \in Sessions |-> job[s]]
  /\ ProviderStands
  /\ \A s \in Sessions : JobStands(s)
  /\ \A c \in Cycles : CycleStands(c) /\ CycleRows(c)
  /\ \A x \in Slots : SlotRows(x)
  /\ state = "completed" => Cycles \subseteq paidOut

-----------------------------------------------------------------------------
LEMMA SlotsAreFinite ==
  /\ IsFiniteSet(Slots)
  /\ \A c \in Cycles : IsFiniteSet({c} \X Members) /\ Cardinality({c} \X Members) = MemberCount
<1>1. IsFiniteSet(Members) /\ Cardinality(Members) = MemberCount
  BY MemberAssumption, FS_Interval DEF Members
<1>2. IsFiniteSet(Slots)
  BY <1>1, FS_Product DEF Slots, Members, Cycles
<1>3. ASSUME NEW c \in Cycles
      PROVE  IsFiniteSet({c} \X Members) /\ Cardinality({c} \X Members) = MemberCount
  <2>1. IsFiniteSet({c}) /\ Cardinality({c}) = 1
    BY FS_Singleton
  <2>2. QED
    BY <1>1, <2>1, FS_Product, MemberAssumption
<1>4. QED
  BY <1>2, <1>3

LEMMA Counts ==
  ASSUME NEW c \in Cycles
  PROVE  /\ IsFiniteSet(Collected(c)) /\ Cardinality(Collected(c)) \in Nat
         /\ IsFiniteSet(CollectedFor(c)) /\ Cardinality(CollectedFor(c)) \in Nat
         /\ IsFiniteSet(Missing(c)) /\ Cardinality(Missing(c)) \in Nat
<1>1. Collected(c) \subseteq Slots /\ CollectedFor(c) \subseteq Slots /\ Missing(c) \subseteq Slots
  BY DEF Collected, CollectedFor, Missing
<1>2. QED
  BY <1>1, SlotsAreFinite, FS_Subset, FS_CardinalityType

(* Keys are only added to the journal, and a contribution once collected is   *)
(* not due again.                                                            *)
Onward ==
  /\ journal \subseteq journal'
  /\ \A x \in Slots : status[x] # "due" => status'[x] # "due"

LEMMA CoveredKept ==
  ASSUME Onward, NEW c \in Cycles, NEW amount \in Nat, Covered(c, amount)
  PROVE  Covered(c, amount)'
<1>1. CollectedFor(c) \subseteq CollectedFor(c)' /\ Missing(c)' \subseteq Missing(c)
  BY DEF Onward, CollectedFor, Missing, KeyFree
<1>2. /\ IsFiniteSet(CollectedFor(c)) /\ Cardinality(CollectedFor(c)) \in Nat
      /\ IsFiniteSet(Missing(c)) /\ Cardinality(Missing(c)) \in Nat
  BY Counts
<1>3. /\ IsFiniteSet(CollectedFor(c)') /\ Cardinality(CollectedFor(c)') \in Nat
      /\ IsFiniteSet(Missing(c)') /\ Cardinality(Missing(c)') \in Nat
  <2>1. CollectedFor(c)' \subseteq Slots /\ Missing(c)' \subseteq Slots
    BY DEF CollectedFor, Missing
  <2>2. QED
    BY <2>1, SlotsAreFinite, FS_Subset, FS_CardinalityType
<1>4. Cardinality(CollectedFor(c)) <= Cardinality(CollectedFor(c)')
  BY <1>1, <1>3, FS_Subset
<1>5. Cardinality(Missing(c)') <= Cardinality(Missing(c))
  BY <1>1, <1>2, FS_Subset
<1>6. MemberCount - amount \in Int
  BY MemberAssumption
<1>7. QED
  BY <1>2, <1>3, <1>4, <1>5, <1>6 DEF Covered

(* What execute_payout() counts is covered: each of its contributions has an  *)
(* entry, and the others of the cycle are all that can be missing.           *)
LEMMA CountIsCovered ==
  ASSUME IInv, NEW c \in Cycles
  PROVE  Covered(c, Cardinality(Collected(c))) /\ Cardinality(Collected(c)) \in 0..MemberCount
<1>1. Collected(c) \subseteq CollectedFor(c)
  BY DEF IInv, SlotRows, Collected, CollectedFor
<1>2. /\ IsFiniteSet(Collected(c)) /\ Cardinality(Collected(c)) \in Nat
      /\ IsFiniteSet(CollectedFor(c)) /\ Cardinality(CollectedFor(c)) \in Nat
      /\ IsFiniteSet(Missing(c)) /\ Cardinality(Missing(c)) \in Nat
  BY Counts
<1>3. Cardinality(Collected(c)) <= Cardinality(CollectedFor(c))
  BY <1>1, <1>2, FS_Subset
<1>4. Cardinality(Collected(c)) + Cardinality(Missing(c)) <= MemberCount
  <2>1. Collected(c) \cap Missing(c) = {}
    BY DEF Collected, Missing
  <2>2. Cardinality({}) = 0
    BY FS_EmptySet
  <2>3. Cardinality(Collected(c) \cup Missing(c)) = Cardinality(Collected(c)) + Cardinality(Missing(c))
    <3>1. Cardinality(Collected(c) \cup Missing(c)) =
            Cardinality(Collected(c)) + Cardinality(Missing(c)) - Cardinality(Collected(c) \cap Missing(c))
      BY <1>2, FS_Union
    <3>2. QED
      BY <1>2, <2>1, <2>2, <3>1
  <2>4. Collected(c) \cup Missing(c) \subseteq {c} \X Members
    BY DEF Collected, Missing, Slots
  <2>5. Cardinality(Collected(c) \cup Missing(c)) <= MemberCount
    <3>1. IsFiniteSet({c} \X Members) /\ Cardinality({c} \X Members) = MemberCount
      BY SlotsAreFinite
    <3>2. QED
      BY <2>4, <3>1, FS_Subset
  <2>6. QED
    BY <2>3, <2>5
<1>5. QED
  BY <1>2, <1>3, <1>4, MemberAssumption DEF Covered

(* What the provider has of a payout stays, and a final state is final.      *)
ProviderKept ==
  \A c \in Cycles :
    /\ provider[c].state # Absent =>
         provider'[c].state # Absent /\ provider'[c].amount = provider[c].amount
    /\ provider[c].state \in {"settled", "failed"} => provider'[c].state = provider[c].state

LEMMA ToldKept ==
  ASSUME ProviderKept, NEW c \in Cycles
  PROVE  /\ \A st : Told(c, st) => Told(c, st)'
         /\ \A amount : SentFor(c, amount) => SentFor(c, amount)'
  BY DEF ProviderKept, Told, SentFor

LEMMA SameProviderKept == UNCHANGED provider => ProviderKept
  BY DEF ProviderKept, Told, SentFor

(* A payout row is never deleted.                                            *)
PayoutsKept == \A c \in Cycles : payout[c] # NoRow => payout'[c] # NoRow

LEMMA JobTypes ==
  ASSUME TypeOK, NEW s \in Sessions
  PROVE  /\ Doing(s, "collect") => job[s].batch \subseteq Slots
         /\ Doing(s, "payout") =>
              job[s].cycle \in Cycles /\ job[s].amount \in Members /\ job[s].answer \in States
         /\ job[s].op \in WebhookSteps => job[s].cycle \in Cycles /\ job[s].got \in States
         /\ job[s].op \in {"checked", "settling"} => job[s].applies \in BOOLEAN
         /\ Doing(s, "late") => job[s].slot \in Slots
  BY DEF TypeOK, Job, Doing, WebhookSteps

LEMMA OtherJobsStand ==
  ASSUME IInv, NEW s \in Sessions, job'[s] = job[s], rail' = rail,
         Onward, ProviderKept, PayoutsKept, paidOut \subseteq paidOut'
  PROVE  JobStands(s)'
<1>1. JobStands(s)
  BY DEF IInv
<1>2. CASE Doing(s, "payout")
  <2>1. job[s].cycle \in Cycles /\ job[s].amount \in Nat
    BY <1>2, JobTypes DEF IInv, Members
  <2>2. QED
    BY <1>1, <1>2, <2>1, CoveredKept, ToldKept DEF JobStands, Doing, WebhookSteps
<1>3. CASE job[s].op \in WebhookSteps
  <2>1. PICK c \in Cycles : c = job[s].cycle
    BY <1>3, JobTypes DEF IInv
  <2>2. provider[c].state # Absent /\ Told(c, job[s].got)
    BY <1>1, <1>3, <2>1 DEF JobStands
  <2>3. provider'[c].state # Absent /\ Told(c, job[s].got)'
    BY <2>2, ToldKept DEF ProviderKept, Told
  <2>4. ASSUME job[s].op = "settling"
        PROVE  Told(c, job[s].st)' /\ (job[s].was # Absent => payout'[c] # NoRow)
    <3>1. Told(c, job[s].st) /\ (job[s].was # Absent => payout[c] # NoRow)
      BY <1>1, <2>1, <2>4 DEF JobStands
    <3>2. QED
      BY <3>1, ToldKept DEF PayoutsKept, Told
  <2>5. QED
    BY <1>3, <2>1, <2>3, <2>4 DEF JobStands, WebhookSteps, Told
<1>4. CASE Doing(s, "late")
  <2>1. job[s].slot \in Slots
    BY <1>4, JobTypes DEF IInv
  <2>2. QED
    BY <1>1, <1>4, <2>1 DEF JobStands, Doing, Onward, WebhookSteps
<1>5. CASE job[s].op \notin {"payout", "late"} \cup WebhookSteps
  BY <1>1, <1>5 DEF JobStands, WebhookSteps
<1>6. QED
  BY <1>2, <1>3, <1>4, <1>5 DEF Doing

LEMMA OtherCyclesStand ==
  ASSUME IInv, NEW c \in Cycles, rail' = rail, Onward, ProviderKept,
         payout'[c] = payout[c], payment'[c] = payment[c], shortfall'[c] = shortfall[c],
         c \in paidOut' <=> c \in paidOut,
         PaidFor(c)' = PaidFor(c)
  PROVE  CycleStands(c)' /\ CycleRows(c)'
<1>1. CycleStands(c) /\ CycleRows(c)
  BY DEF IInv
<1>2. payout[c] # NoRow => payout[c].amount \in Nat
  BY DEF IInv, TypeOK, PayoutRow, Members
<1>3. CycleStands(c)'
  BY <1>1, <1>2, CoveredKept, ToldKept DEF CycleStands
<1>4. CycleRows(c)'
  BY <1>1 DEF CycleRows
<1>5. QED
  BY <1>3, <1>4

(* A step after which what it touched stands.                                *)
LEMMA StepIInv ==
  ASSUME IInv, TypeOK', ProviderStands', rail' = rail,
         job' = [s \in Sessions |-> job'[s]],
         Onward, ProviderKept, PayoutsKept, paidOut \subseteq paidOut',
         \A s \in Sessions : job'[s] = job[s] \/ JobStands(s)',
         \A c \in Cycles :
           \/ CycleStands(c)' /\ CycleRows(c)'
           \/ /\ payout'[c] = payout[c] /\ payment'[c] = payment[c]
              /\ shortfall'[c] = shortfall[c]
              /\ c \in paidOut' <=> c \in paidOut
              /\ PaidFor(c)' = PaidFor(c),
         \A x \in Slots :
           \/ SlotRows(x)'
           \/ /\ status'[x] = status[x]
              /\ KeyFree(CollectionKey(x))' <=> KeyFree(CollectionKey(x))
              /\ KeyFree(LateKey(x))' <=> KeyFree(LateKey(x)),
         state' = "completed" => state = "completed" \/ Cycles \subseteq paidOut'
  PROVE  IInv'
<1>1. ASSUME NEW s \in Sessions PROVE JobStands(s)'
  BY OtherJobsStand
<1>2. ASSUME NEW c \in Cycles PROVE CycleStands(c)' /\ CycleRows(c)'
  BY OtherCyclesStand
<1>3. ASSUME NEW x \in Slots PROVE SlotRows(x)'
  BY DEF IInv, SlotRows
<1>4. state' = "completed" => Cycles \subseteq paidOut'
  BY DEF IInv
<1>5. QED
  BY <1>1, <1>2, <1>3, <1>4 DEF IInv

LEMMA JobStep ==
  ASSUME IInv, NEW s \in Sessions, NEW work \in Job, Do(s, work)
  PROVE  /\ job' = [t \in Sessions |-> job'[t]]
         /\ job'[s] = work
         /\ \A t \in Sessions \ {s} : job'[t] = job[t]
         /\ \A t \in Sessions : job'[t] \in Job
<1>1. job = [t \in Sessions |-> job[t]] /\ \A t \in Sessions : job[t] \in Job
  BY DEF IInv, TypeOK
<1>2. QED
  BY <1>1 DEF Do

LEMMA JobOver ==
  ASSUME IInv, NEW s \in Sessions, Done(s)
  PROVE  /\ job' = [t \in Sessions |-> job'[t]]
         /\ \A t \in Sessions : job'[t] \in Job
         /\ \A t \in Sessions : job'[t] = job[t] \/ JobStands(t)'
<1>1. Idle \in Job /\ Idle.op = "idle"
  BY DEF Idle, Job
<1>2. /\ job' = [t \in Sessions |-> job'[t]]
      /\ job'[s] = Idle
      /\ \A t \in Sessions \ {s} : job'[t] = job[t]
      /\ \A t \in Sessions : job'[t] \in Job
  BY <1>1, JobStep DEF Done
<1>3. JobStands(s)'
  BY <1>1, <1>2 DEF JobStands, WebhookSteps
<1>4. QED
  BY <1>2, <1>3

(* Only a job changes: a request reads, gives up or ends.                    *)
LEMMA ReadStep ==
  ASSUME IInv, NEW s \in Sessions, NEW work \in Job, Do(s, work), JobStands(s)',
         UNCHANGED <<rail, today, rows, rails>>
  PROVE  IInv'
<1> USE DEF rows, rails
<1>1. /\ job' = [t \in Sessions |-> job'[t]]
      /\ \A t \in Sessions : job'[t] \in Job
      /\ \A t \in Sessions \ {s} : job'[t] = job[t]
  BY JobStep
<1>2. TypeOK'
  BY <1>1 DEF IInv, TypeOK
<1>3. ProviderStands' /\ ProviderKept
  BY SameProviderKept DEF IInv, ProviderStands
<1>4. Onward /\ PayoutsKept
  BY DEF Onward, PayoutsKept
<1>5. QED
  BY <1>1, <1>2, <1>3, <1>4, StepIInv DEF PaidFor, KeyFree, IInv

-----------------------------------------------------------------------------
(* The journal: keys are told apart, and post_entry() adds its own.         *)

LEMMA KeysDiffer ==
  /\ \A x, y \in Slots : CollectionKey(x) = CollectionKey(y) <=> x = y
  /\ \A x, y \in Slots : LateKey(x) = LateKey(y) <=> x = y
  /\ \A x, y \in Slots : CollectionKey(x) # LateKey(y)
  /\ \A c, d \in Cycles : PayoutKey(c) = PayoutKey(d) <=> c = d
  /\ \A c \in Cycles, x \in Slots :
       PayoutKey(c) # CollectionKey(x) /\ PayoutKey(c) # LateKey(x)
  BY DEF CollectionKey, LateKey, PayoutKey, Slots

LEMMA Posted ==
  ASSUME NEW entries, Post(entries)
  PROVE  /\ journal \subseteq journal'
         /\ \A e \in entries : KeyFree(e.key)
         /\ \A key : KeyFree(key)' <=> KeyFree(key) /\ \A e \in entries : e.key # key
         /\ \A c : PaidFor(c)' = PaidFor(c) \cup {e \in entries : e.key = PayoutKey(c)}
  BY DEF Post, KeyFree, PaidFor

LEMMA Entries ==
  ASSUME NEW key, NEW amount
  PROVE  Entry(key, amount).key = key /\ Entry(key, amount).amount = amount
  BY DEF Entry

-----------------------------------------------------------------------------
LEMMA InitIInv == Init => IInv
<1> SUFFICES ASSUME Init PROVE IInv
  OBVIOUS
<1> USE DEF Init
<1>1. StartDate \in {DueDate(c) : c \in Cycles}
  <2>1. 1 \in Cycles /\ DueDate(1) = add_months(StartDate, 0)
    BY MemberAssumption DEF Cycles, DueDate
  <2>2. add_months(StartDate, 0) = StartDate
    <3>1. PICK y \in Nat, m \in 1..12, d \in 1..31 : StartDate = <<y, m, d>> /\ d <= MonthLength(y, m)
      BY StartAssumption DEF Dates
    <3>2. (m - 1 + 0) \div 12 = 0 /\ (m - 1 + 0) % 12 = m - 1
      OBVIOUS
    <3>3. MonthLength(y, m) \in 28..31
      BY MonthLengths
    <3>4. add_months(StartDate, 0) =
            <<y, m, IF d < MonthLength(y, m) THEN d ELSE MonthLength(y, m)>>
      BY <3>1, <3>2 DEF add_months
    <3>5. QED
      BY <3>1, <3>3, <3>4
  <2>3. QED
    BY <2>1, <2>2
<1>2. TypeOK
  BY <1>1 DEF TypeOK, Idle, Job
<1>3. ProviderStands
  BY DEF ProviderStands
<1>4. ASSUME NEW s \in Sessions PROVE JobStands(s)
  BY DEF JobStands, WebhookSteps, Idle
<1>5. ASSUME NEW c \in Cycles PROVE CycleStands(c) /\ CycleRows(c)
  BY DEF CycleStands, CycleRows, Told, PaidFor, Absent
<1>6. ASSUME NEW x \in Slots PROVE SlotRows(x)
  BY DEF SlotRows, KeyFree
<1>7. QED
  BY <1>2, <1>3, <1>4, <1>5, <1>6 DEF IInv

-----------------------------------------------------------------------------
LEMMA TickIInv == ASSUME IInv, Tick PROVE IInv'
<1> USE DEF rows, rails
<1>1. today' \in {DueDate(c) : c \in Cycles} /\ UNCHANGED <<rail, rows, rails, job>>
  BY DEF Tick
<1>2. TypeOK'
  BY <1>1 DEF IInv, TypeOK
<1>3. ProviderStands' /\ ProviderKept /\ Onward /\ PayoutsKept
  BY <1>1, SameProviderKept DEF IInv, ProviderStands, Onward, PayoutsKept
<1>4. QED
  BY <1>1, <1>2, <1>3, StepIInv DEF PaidFor, KeyFree, IInv

LEMMA ProviderStepIInv ==
  ASSUME IInv, NEW c \in Cycles, ProviderStep(c)
  PROVE  IInv'
<1> USE DEF rows
<1>1. PICK st \in {"settled", "failed"} :
        /\ provider[c].state = "processing"
        /\ provider' = [provider EXCEPT ![c].state = st]
        /\ UNCHANGED <<rail, today, rows, payment, job>>
  BY DEF ProviderStep
<1>2. provider \in [Cycles -> [state : States \cup {Absent}, amount : Nat]]
  BY DEF IInv, ProviderStands
<1>3. /\ provider' \in [Cycles -> [state : States \cup {Absent}, amount : Nat]]
      /\ provider'[c].state = st /\ provider'[c].amount = provider[c].amount
      /\ \A d \in Cycles \ {c} : provider'[d] = provider[d]
  BY <1>1, <1>2 DEF States
<1>4. st # Absent /\ provider[c].state # Absent
  BY <1>1 DEF Absent
<1>5. ProviderKept
  BY <1>1, <1>3, <1>4 DEF ProviderKept
<1>6. ProviderStands'
  <2>1. rail # "fake"
    BY <1>4 DEF IInv, ProviderStands
  <2>2. QED
    BY <1>1, <1>3, <2>1 DEF ProviderStands
<1>7. TypeOK' /\ Onward /\ PayoutsKept
  BY <1>1 DEF IInv, TypeOK, Onward, PayoutsKept
<1>8. QED
  BY <1>1, <1>5, <1>6, <1>7, StepIInv DEF PaidFor, KeyFree, IInv

LEMMA CollectDueIInv ==
  ASSUME IInv, NEW s \in Sessions, CollectDue(s)
  PROVE  IInv'
<1> DEFINE work == [op |-> "collect", batch |-> Due]
<1>1. work \in Job /\ work.op = "collect"
  BY DEF Job, Due
<1>2. Do(s, work) /\ UNCHANGED <<rail, today, rows, rails>>
  BY DEF CollectDue
<1> HIDE DEF work
<1>3. job'[s] = work
  BY <1>1, <1>2, JobStep
<1>4. JobStands(s)'
  BY <1>1, <1>3 DEF JobStands, WebhookSteps
<1>5. QED
  BY <1>1, <1>2, <1>4, ReadStep

LEMMA ReceiveEventIInv ==
  ASSUME IInv, NEW s \in Sessions, NEW c \in Cycles, ReceiveEvent(s, c)
  PROVE  IInv'
<1> DEFINE work == [op |-> "fetched", cycle |-> c, got |-> provider[c].state]
<1>1. provider[c].state \in States /\ provider[c].state # Absent
  BY DEF IInv, ProviderStands, ReceiveEvent
<1>2. /\ work \in Job
      /\ work.op = "fetched" /\ work.cycle = c /\ work.got = provider[c].state
  BY <1>1 DEF Job
<1>3. Do(s, work) /\ UNCHANGED <<rail, today, rows, rails>>
  BY DEF ReceiveEvent
<1> HIDE DEF work
<1>4. job'[s] = work
  BY <1>2, <1>3, JobStep
<1>5. JobStands(s)'
  BY <1>1, <1>2, <1>3, <1>4 DEF JobStands, WebhookSteps, Told, rails
<1>6. QED
  BY <1>2, <1>3, <1>5, ReadStep

LEMMA CheckPaymentIInv ==
  ASSUME IInv, NEW s \in Sessions, CheckPayment(s)
  PROVE  IInv'
<1>1. PICK applies : /\ applies \in BOOLEAN
                     /\ Do(s, [op |-> "checked", cycle |-> job[s].cycle, got |-> job[s].got,
                               applies |-> applies])
  <2>1. \A p, q : (p /\ q) \in BOOLEAN
    OBVIOUS
  <2>2. QED
    BY <2>1 DEF CheckPayment
<1> DEFINE work == [op |-> "checked", cycle |-> job[s].cycle, got |-> job[s].got,
                    applies |-> applies]
<1>2. Doing(s, "fetched") /\ UNCHANGED <<rail, today, rows, rails>>
  BY DEF CheckPayment
<1>3. job[s].cycle \in Cycles /\ job[s].got \in States
  BY <1>2, JobTypes DEF IInv, Doing, WebhookSteps
<1>4. /\ work \in Job
      /\ work.op = "checked" /\ work.cycle = job[s].cycle /\ work.got = job[s].got
  BY <1>1, <1>3 DEF Job
<1>5. Do(s, work)
  BY <1>1
<1> HIDE DEF work
<1>6. job'[s] = work
  BY <1>4, <1>5, JobStep
<1>7. JobStands(s)
  BY DEF IInv
<1>8. JobStands(s)'
  BY <1>2, <1>4, <1>6, <1>7 DEF JobStands, WebhookSteps, Told, rails, Doing
<1>9. QED
  BY <1>2, <1>4, <1>5, <1>8, ReadStep

LEMMA ReadPayoutIInv ==
  ASSUME IInv, NEW s \in Sessions, ReadPayout(s)
  PROVE  IInv'
<1>1. PICK c, got, applies :
        c = job[s].cycle /\ got = job[s].got /\ applies = job[s].applies
  OBVIOUS
<1>2. PICK st : st = IF applies THEN got ELSE payment[c]
  OBVIOUS
<1>3. PICK was : was = IF payout[c] = NoRow THEN Absent ELSE payout[c].status
  OBVIOUS
<1>4. /\ Do(s, [op |-> "settling", cycle |-> c, got |-> got, applies |-> applies,
                st |-> st, was |-> was])
      /\ Doing(s, "checked") /\ UNCHANGED <<rail, today, rows, rails>>
  BY <1>1, <1>2, <1>3, Zenon DEF ReadPayout
<1> DEFINE work == [op |-> "settling", cycle |-> c, got |-> got, applies |-> applies,
                    st |-> st, was |-> was]
<1>5. c \in Cycles /\ got \in States /\ applies \in BOOLEAN
  BY <1>1, <1>4, JobTypes DEF IInv, Doing, WebhookSteps
<1>6. provider[c].state # Absent /\ Told(c, got) /\ Told(c, payment[c])
  BY <1>1, <1>4, <1>5 DEF IInv, JobStands, CycleStands, Doing, WebhookSteps
<1>7. Told(c, st) /\ st \in States \cup {Absent}
  BY <1>2, <1>5, <1>6 DEF IInv, TypeOK
<1>8. /\ was \in {"processing", "paid", "failed", Absent}
      /\ was # Absent => payout[c] # NoRow
  BY <1>3, <1>5 DEF IInv, TypeOK, PayoutRow
<1>9. /\ work \in Job
      /\ work.op = "settling" /\ work.cycle = c /\ work.got = got
      /\ work.st = st /\ work.was = was
  BY <1>5, <1>7, <1>8 DEF Job
<1>10. Do(s, work)
  BY <1>4
<1> HIDE DEF work
<1>11. job'[s] = work
  BY <1>9, <1>10, JobStep
<1>12. JobStands(s)'
  BY <1>4, <1>6, <1>7, <1>8, <1>9, <1>11 DEF JobStands, WebhookSteps, Told, rows, rails
<1>13. QED
  BY <1>4, <1>9, <1>10, <1>12, ReadStep

LEMMA FailLateIInv ==
  ASSUME IInv, NEW s \in Sessions, NEW x \in Slots, FailLate(s, x)
  PROVE  IInv'
<1> DEFINE work == [op |-> "late", slot |-> x]
<1>1. work \in Job /\ work.op = "late" /\ work.slot = x
  BY DEF Job
<1>2. Do(s, work) /\ UNCHANGED <<rail, today, rows, rails>> /\ status[x] = "paid"
  BY DEF FailLate
<1> HIDE DEF work
<1>3. job'[s] = work
  BY <1>1, <1>2, JobStep
<1>4. JobStands(s)'
  BY <1>1, <1>2, <1>3 DEF JobStands, WebhookSteps, rows
<1>5. QED
  BY <1>1, <1>2, <1>4, ReadStep

LEMMA CompleteIInv ==
  ASSUME IInv, NEW s \in Sessions, Complete(s)
  PROVE  IInv'
<1> DEFINE work == [op |-> "complete"]
<1>1. work \in Job /\ work.op = "complete"
  BY DEF Job
<1>2. Do(s, work) /\ UNCHANGED <<rail, today, rows, rails>> /\ Cycles \subseteq paidOut
  BY DEF Complete, EveryCyclePaidOut
<1> HIDE DEF work
<1>3. job'[s] = work
  BY <1>1, <1>2, JobStep
<1>4. JobStands(s)'
  BY <1>1, <1>2, <1>3 DEF JobStands, WebhookSteps, rows
<1>5. QED
  BY <1>1, <1>2, <1>4, ReadStep

LEMMA RollbackIInv ==
  ASSUME IInv, NEW s \in Sessions, Rollback(s)
  PROVE  IInv'
<1>1. Idle \in Job /\ Idle.op = "idle"
  BY DEF Idle, Job
<1>2. Do(s, Idle) /\ UNCHANGED <<rail, today, rows, rails>>
  BY DEF Rollback, Done
<1>3. job'[s] = Idle
  BY <1>1, <1>2, JobStep
<1>4. JobStands(s)'
  BY <1>1, <1>3 DEF JobStands, WebhookSteps
<1>5. QED
  BY <1>1, <1>2, <1>4, ReadStep

(* send_payout() leaves the object of the key with the amount it was sent     *)
(* with, now or earlier.                                                     *)
LEMMA Sent ==
  ASSUME IInv, rail # "fake", UNCHANGED rail, NEW c \in Cycles, NEW amount \in Nat, SendPayout(c, amount)
  PROVE  /\ ProviderStands' /\ ProviderKept
         /\ SentFor(c, amount)' /\ provider'[c].state \in States
<1>1. provider \in [Cycles -> [state : States \cup {Absent}, amount : Nat]]
  BY DEF IInv, ProviderStands
<1>2. CASE provider[c].state = Absent
  <2>1. PICK answer \in {"processing", "settled", "failed"} :
          provider' = [provider EXCEPT ![c] = [state |-> answer, amount |-> amount]]
    BY <1>2 DEF SendPayout
  <2>2. answer \in States /\ answer # Absent
    BY DEF States, Absent
  <2>3. /\ provider' \in [Cycles -> [state : States \cup {Absent}, amount : Nat]]
        /\ provider'[c].state = answer /\ provider'[c].amount = amount
        /\ \A d \in Cycles \ {c} : provider'[d] = provider[d]
    BY <1>1, <2>1, <2>2
  <2>4. ProviderKept
    BY <1>2, <2>3 DEF ProviderKept, Absent
  <2>5. QED
    BY <2>1, <2>2, <2>3, <2>4 DEF ProviderStands, SentFor
<1>3. CASE provider[c].state # Absent
  <2>1. provider[c].amount = amount /\ UNCHANGED provider
    BY <1>3 DEF SendPayout
  <2>2. provider[c].state \in States
    BY <1>1, <1>3
  <2>3. QED
    BY <1>3, <2>1, <2>2, SameProviderKept DEF IInv, ProviderStands, SentFor
<1>4. QED
  BY <1>2, <1>3

LEMMA ExecutePayoutIInv ==
  ASSUME IInv, NEW s \in Sessions, NEW c \in Cycles, ExecutePayout(s, c)
  PROVE  IInv'
<1> USE DEF rows
<1>1. PICK amount, answer :
        /\ amount = Cardinality(Collected(c))
        /\ answer = IF rail = "fake" THEN "initiated" ELSE provider'[c].state
        /\ Collected(c) # {}
        /\ IF rail = "fake" THEN UNCHANGED provider ELSE SendPayout(c, amount)
        /\ Do(s, [op |-> "payout", cycle |-> c, amount |-> amount, answer |-> answer])
        /\ UNCHANGED <<rail, today, rows, payment>>
  BY DEF ExecutePayout
<1> DEFINE work == [op |-> "payout", cycle |-> c, amount |-> amount, answer |-> answer]
<1>2. Covered(c, amount) /\ amount \in Members /\ amount \in Nat
  <2>1. Covered(c, amount) /\ amount \in 0..MemberCount
    BY <1>1, CountIsCovered
  <2>2. amount # 0
    BY <1>1, Counts, FS_EmptySet
  <2>3. QED
    BY <2>1, <2>2, MemberAssumption DEF Members
<1>3. /\ ProviderStands' /\ ProviderKept
      /\ answer \in States
      /\ rail # "fake" => SentFor(c, amount)' /\ answer = provider'[c].state
  <2>1. CASE rail = "fake"
    BY <1>1, <2>1, SameProviderKept DEF IInv, ProviderStands, States
  <2>2. CASE rail # "fake"
    BY <1>1, <1>2, <2>2, Sent
  <2>3. QED
    BY <2>1, <2>2
<1>4. /\ work \in Job
      /\ work.op = "payout" /\ work.cycle = c /\ work.amount = amount /\ work.answer = answer
  BY <1>2, <1>3 DEF Job
<1>5. Do(s, work)
  BY <1>1
<1> HIDE DEF work
<1>6. /\ job' = [t \in Sessions |-> job'[t]]
      /\ job'[s] = work
      /\ \A t \in Sessions \ {s} : job'[t] = job[t]
      /\ \A t \in Sessions : job'[t] \in Job
  BY <1>4, <1>5, JobStep
<1>7. Onward /\ PayoutsKept
  BY <1>1 DEF Onward, PayoutsKept
<1>8. JobStands(s)'
  <2>1. Covered(c, amount)'
    BY <1>2, <1>7, CoveredKept
  <2>2. rail' # "fake" => Told(c, answer)'
    BY <1>1, <1>3 DEF Told
  <2>3. QED
    BY <1>1, <1>3, <1>4, <1>6, <2>1, <2>2 DEF JobStands, WebhookSteps
<1>9. TypeOK'
  BY <1>1, <1>3, <1>6 DEF IInv, TypeOK
<1>10. QED
  BY <1>1, <1>3, <1>6, <1>7, <1>8, <1>9, StepIInv DEF PaidFor, KeyFree, IInv

-----------------------------------------------------------------------------
(* A batch commits only when none of it was collected meanwhile, because of   *)
(* the unique key of each entry.                                             *)
LEMMA CommitCollectIInv ==
  ASSUME IInv, NEW s \in Sessions, CommitCollect(s)
  PROVE  IInv'
<1>1. PICK batch, entries :
        /\ batch = job[s].batch
        /\ entries = {Entry(CollectionKey(x), 1) : x \in batch}
        /\ Doing(s, "collect")
        /\ Post(entries)
        /\ status' = [x \in Slots |-> IF x \in batch THEN "paid" ELSE status[x]]
        /\ Done(s)
        /\ UNCHANGED <<rail, today, state, paidOut, payout, arrears, shortfall, rails>>
  BY DEF CommitCollect
<1>2. batch \subseteq Slots
  BY <1>1, JobTypes DEF IInv
<1>3. /\ \A e \in entries : \E x \in batch : e.key = CollectionKey(x) /\ e.amount = 1
      /\ \A x \in batch : \E e \in entries : e.key = CollectionKey(x)
  BY <1>1, Entries
<1>4. ASSUME NEW x \in batch
      PROVE  KeyFree(CollectionKey(x)) /\ ~KeyFree(CollectionKey(x))'
  <2>1. PICK e \in entries : e.key = CollectionKey(x)
    BY <1>3
  <2>2. KeyFree(e.key) /\ e \in journal'
    BY <1>1 DEF Post
  <2>3. QED
    BY <2>1, <2>2 DEF KeyFree
<1>5. \A x \in batch : status[x] = "due" /\ KeyFree(LateKey(x))
  BY <1>2, <1>4 DEF IInv, TypeOK, SlotRows
<1>6. \A x \in Slots :
        /\ KeyFree(LateKey(x))' <=> KeyFree(LateKey(x))
        /\ x \notin batch => (KeyFree(CollectionKey(x))' <=> KeyFree(CollectionKey(x)))
  BY <1>1, <1>2, <1>3, Posted, KeysDiffer
<1>7. ASSUME NEW c \in Cycles PROVE PaidFor(c)' = PaidFor(c)
  <2>1. \A e \in entries : e.key # PayoutKey(c)
    BY <1>2, <1>3, KeysDiffer
  <2>2. QED
    BY <1>1, <2>1 DEF Post, PaidFor
<1>8. Onward
  BY <1>1, Posted DEF Onward
<1>9. ASSUME NEW x \in Slots
      PROVE  \/ SlotRows(x)'
             \/ /\ status'[x] = status[x]
                /\ KeyFree(CollectionKey(x))' <=> KeyFree(CollectionKey(x))
                /\ KeyFree(LateKey(x))' <=> KeyFree(LateKey(x))
  BY <1>1, <1>4, <1>5, <1>6 DEF SlotRows
<1>10. TypeOK'
  <2>1. status' \in [Slots -> {"due", "paid", "late_failed"}]
    BY <1>1 DEF IInv, TypeOK
  <2>2. \A e \in journal' : e.amount \in Members
    BY <1>1, <1>3, MemberAssumption DEF Post, IInv, TypeOK, Members
  <2>3. QED
    BY <1>1, <2>1, <2>2, JobOver DEF IInv, TypeOK, rails
<1>11. ProviderStands' /\ ProviderKept /\ PayoutsKept
  BY <1>1, SameProviderKept DEF IInv, ProviderStands, PayoutsKept, rails
<1>12. QED
  BY <1>1, <1>7, <1>8, <1>9, <1>10, <1>11, JobOver, StepIInv DEF rails

(* The entry of a payout is the only one of its cycle.                       *)
LEMMA PayoutPosted ==
  ASSUME IInv, NEW c \in Cycles, c \notin paidOut, NEW amount \in Members,
         Post({Entry(PayoutKey(c), amount)}), UNCHANGED status
  PROVE  /\ Onward
         /\ PaidFor(c)' = {Entry(PayoutKey(c), amount)}
         /\ \A d \in Cycles \ {c} : PaidFor(d)' = PaidFor(d)
         /\ \A x \in Slots :
              /\ KeyFree(CollectionKey(x))' <=> KeyFree(CollectionKey(x))
              /\ KeyFree(LateKey(x))' <=> KeyFree(LateKey(x))
         /\ \A e \in journal' : e.amount \in Members
<1>1. PICK e : e = Entry(PayoutKey(c), amount) /\ e.key = PayoutKey(c) /\ e.amount = amount
  BY Entries
<1>2. Post({e})
  BY <1>1
<1>3. Onward
  BY <1>2, Posted DEF Onward
<1>4. PaidFor(c) = {}
  BY DEF IInv, CycleRows
<1>5. PaidFor(c)' = {e}
  BY <1>1, <1>2, <1>4 DEF Post, PaidFor
<1>6. ASSUME NEW d \in Cycles \ {c} PROVE PaidFor(d)' = PaidFor(d)
  <2>1. e.key # PayoutKey(d)
    BY <1>1, KeysDiffer
  <2>2. QED
    BY <1>2, <2>1 DEF Post, PaidFor
<1>7. ASSUME NEW x \in Slots
      PROVE  /\ KeyFree(CollectionKey(x))' <=> KeyFree(CollectionKey(x))
             /\ KeyFree(LateKey(x))' <=> KeyFree(LateKey(x))
  <2>1. e.key # CollectionKey(x) /\ e.key # LateKey(x)
    BY <1>1, KeysDiffer
  <2>2. QED
    BY <1>2, <2>1 DEF Post, KeyFree
<1>8. \A f \in journal' : f.amount \in Members
  BY <1>1, <1>2 DEF Post, IInv, TypeOK
<1>9. QED
  BY <1>1, <1>3, <1>5, <1>6, <1>7, <1>8

LEMMA Rows ==
  ASSUME NEW st \in {"processing", "paid", "failed"}, NEW amount \in Members
  PROVE  /\ Row(st, amount) \in PayoutRow /\ Row(st, amount) # NoRow
         /\ Row(st, amount).status = st /\ Row(st, amount).amount = amount
         /\ Row(st, amount).shortfall = MemberCount - amount
         /\ MemberCount - amount \in Nat /\ amount \in Nat
<1>1. MemberCount - amount \in Nat /\ amount \in Nat
  BY MemberAssumption DEF Members
<1>2. QED
  BY <1>1, NoRowAssumption DEF Row, PayoutRow

LEMMA CommitPaidIInv ==
  ASSUME IInv, NEW s \in Sessions, CommitPaid(s)
  PROVE  IInv'
<1>1. PICK c, amount, row :
        /\ c = job[s].cycle /\ amount = job[s].amount /\ row = Row("paid", amount)
        /\ Doing(s, "payout") /\ rail = "fake" /\ NoPayout(c)
        /\ Post({Entry(PayoutKey(c), row.amount)})
        /\ payout' = [payout EXCEPT ![c] = row]
        /\ shortfall' = [shortfall EXCEPT ![c] = row.shortfall]
        /\ MarkPaidOut(c)
        /\ Done(s)
        /\ UNCHANGED <<rail, today, state, status, arrears, rails>>
  BY DEF CommitPaid
<1>2. c \in Cycles /\ amount \in Members /\ Covered(c, amount)
  BY <1>1, JobTypes DEF IInv, JobStands, Doing
<1>3. /\ row \in PayoutRow /\ row # NoRow /\ row.status = "paid" /\ row.amount = amount
      /\ row.shortfall = MemberCount - amount /\ row.shortfall \in Nat /\ amount \in Nat
  BY <1>1, <1>2, Rows
<1>4. c \notin paidOut
  BY <1>1, <1>2 DEF IInv, CycleRows, NoPayout
<1>5. Post({Entry(PayoutKey(c), amount)}) /\ UNCHANGED status
  BY <1>1, <1>3
<1>6. /\ Onward
      /\ PaidFor(c)' = {Entry(PayoutKey(c), amount)}
      /\ \A d \in Cycles \ {c} : PaidFor(d)' = PaidFor(d)
      /\ \A x \in Slots :
           /\ KeyFree(CollectionKey(x))' <=> KeyFree(CollectionKey(x))
           /\ KeyFree(LateKey(x))' <=> KeyFree(LateKey(x))
      /\ \A e \in journal' : e.amount \in Members
  BY <1>2, <1>4, <1>5, PayoutPosted
<1>7. /\ payout'[c] = row /\ shortfall'[c] = MemberCount - amount
      /\ \A d \in Cycles \ {c} : payout'[d] = payout[d] /\ shortfall'[d] = shortfall[d]
      /\ payout' \in [Cycles -> PayoutRow \cup {NoRow}]
      /\ shortfall' \in [Cycles -> Nat]
      /\ paidOut' = paidOut \cup {c}
  BY <1>1, <1>2, <1>3 DEF IInv, TypeOK, MarkPaidOut
<1>8. CycleRows(c)'
  BY <1>3, <1>6, <1>7, Entries DEF CycleRows
<1>9. CycleStands(c)'
  <2>1. Covered(c, amount)'
    BY <1>2, <1>3, <1>6, CoveredKept
  <2>2. Told(c, payment[c])
    BY <1>2 DEF IInv, CycleStands
  <2>3. Told(c, payment[c])'
    BY <1>1, <2>2 DEF Told, rails
  <2>4. rail' = "fake"
    BY <1>1
  <2>5. QED
    BY <1>3, <1>7, <2>1, <2>3, <2>4 DEF CycleStands
<1>10. TypeOK'
  BY <1>1, <1>2, <1>6, <1>7, JobOver DEF IInv, TypeOK, rails
<1>11. ProviderStands' /\ ProviderKept /\ PayoutsKept
  BY <1>1, <1>3, <1>7, SameProviderKept DEF IInv, ProviderStands, PayoutsKept, rails
<1>12. QED
  BY <1>1, <1>6, <1>7, <1>8, <1>9, <1>10, <1>11, JobOver, StepIInv DEF rails

LEMMA CommitSentIInv ==
  ASSUME IInv, NEW s \in Sessions, CommitSent(s)
  PROVE  IInv'
<1>1. PICK c, amount, row, answer :
        /\ c = job[s].cycle /\ amount = job[s].amount /\ row = Row("processing", amount)
        /\ answer = job[s].answer
        /\ Doing(s, "payout") /\ rail # "fake" /\ NoPayout(c)
        /\ payout' = [payout EXCEPT ![c] = row]
        /\ payment' = [payment EXCEPT ![c] = answer]
        /\ Done(s)
        /\ UNCHANGED <<rail, today, state, status, paidOut, arrears, shortfall, journal,
                       provider>>
  BY DEF CommitSent
<1>2. /\ c \in Cycles /\ amount \in Members /\ answer \in States
      /\ Covered(c, amount) /\ SentFor(c, amount) /\ Told(c, answer)
  BY <1>1, JobTypes DEF IInv, JobStands, Doing
<1>3. /\ row \in PayoutRow /\ row # NoRow /\ row.status = "processing" /\ row.amount = amount
      /\ row.shortfall = MemberCount - amount /\ amount \in Nat
  BY <1>1, <1>2, Rows
<1>4. /\ payout'[c] = row /\ payment'[c] = answer
      /\ \A d \in Cycles \ {c} : payout'[d] = payout[d] /\ payment'[d] = payment[d]
      /\ payout' \in [Cycles -> PayoutRow \cup {NoRow}]
      /\ payment' \in [Cycles -> States \cup {Absent}]
  BY <1>1, <1>2, <1>3 DEF IInv, TypeOK
<1>5. c \notin paidOut /\ PaidFor(c) = {}
  BY <1>1, <1>2 DEF IInv, CycleRows, NoPayout
<1>6. ProviderStands' /\ ProviderKept /\ Onward /\ PayoutsKept /\ \A d : PaidFor(d)' = PaidFor(d)
  BY <1>1, <1>3, <1>4, SameProviderKept DEF IInv, ProviderStands, Onward, PayoutsKept, PaidFor
<1>7. CycleRows(c)'
  BY <1>1, <1>3, <1>4, <1>5, <1>6 DEF CycleRows
<1>8. CycleStands(c)'
  <2>1. Covered(c, amount)'
    BY <1>2, <1>3, <1>6, CoveredKept
  <2>2. Told(c, answer)' /\ SentFor(c, amount)'
    BY <1>2, <1>6, ToldKept
  <2>3. QED
    BY <1>1, <1>3, <1>4, <1>5, <2>1, <2>2 DEF CycleStands
<1>9. TypeOK'
  BY <1>1, <1>4, JobOver DEF IInv, TypeOK
<1>10. QED
  BY <1>1, <1>4, <1>6, <1>7, <1>8, <1>9, JobOver, StepIInv DEF KeyFree

LEMMA CommitLateIInv ==
  ASSUME IInv, NEW s \in Sessions, CommitLate(s)
  PROVE  IInv'
<1>1. PICK x, e :
        /\ x = job[s].slot /\ e = Entry(LateKey(x), 1)
        /\ Doing(s, "late")
        /\ Post({e})
        /\ status' = [status EXCEPT ![x] = "late_failed"]
        /\ arrears' = arrears \cup {x}
        /\ Done(s)
        /\ UNCHANGED <<rail, today, state, paidOut, payout, shortfall, rails>>
  BY DEF CommitLate
<1>2. x \in Slots /\ status[x] # "due" /\ e.key = LateKey(x) /\ e.amount = 1
  BY <1>1, JobTypes, Entries DEF IInv, JobStands, Doing
<1>3. KeyFree(LateKey(x)) /\ ~KeyFree(LateKey(x))' /\ ~KeyFree(CollectionKey(x))
  BY <1>1, <1>2, Posted DEF IInv, TypeOK, SlotRows
<1>4. /\ status' \in [Slots -> {"due", "paid", "late_failed"}]
      /\ status'[x] = "late_failed"
      /\ \A y \in Slots \ {x} : status'[y] = status[y]
  BY <1>1, <1>2 DEF IInv, TypeOK
<1>5. Onward
  BY <1>1, <1>2, <1>4, Posted DEF Onward
<1>6. SlotRows(x)'
  <2>1. ~KeyFree(CollectionKey(x))'
    BY <1>3, <1>5 DEF Onward, KeyFree
  <2>2. QED
    BY <1>3, <1>4, <2>1 DEF SlotRows
<1>7. ASSUME NEW y \in Slots \ {x}
      PROVE  /\ KeyFree(CollectionKey(y))' <=> KeyFree(CollectionKey(y))
             /\ KeyFree(LateKey(y))' <=> KeyFree(LateKey(y))
  <2>1. e.key # CollectionKey(y) /\ e.key # LateKey(y)
    BY <1>2, KeysDiffer
  <2>2. QED
    BY <1>1, <2>1 DEF Post, KeyFree
<1>8. ASSUME NEW c \in Cycles PROVE PaidFor(c)' = PaidFor(c)
  <2>1. e.key # PayoutKey(c)
    BY <1>2, KeysDiffer
  <2>2. QED
    BY <1>1, <2>1 DEF Post, PaidFor
<1>9. TypeOK'
  <2>1. \A f \in journal' : f.amount \in Members
    BY <1>1, <1>2, MemberAssumption DEF Post, IInv, TypeOK, Members
  <2>2. QED
    BY <1>1, <1>2, <1>4, <2>1, JobOver DEF IInv, TypeOK, rails
<1>10. ProviderStands' /\ ProviderKept /\ PayoutsKept
  BY <1>1, SameProviderKept DEF IInv, ProviderStands, PayoutsKept, rails
<1>11. QED
  BY <1>1, <1>4, <1>5, <1>6, <1>7, <1>8, <1>9, <1>10, JobOver, StepIInv DEF rails

LEMMA CommitCompleteIInv ==
  ASSUME IInv, NEW s \in Sessions, CommitComplete(s)
  PROVE  IInv'
<1>1. /\ Doing(s, "complete") /\ state' = "completed" /\ Done(s)
      /\ UNCHANGED <<rail, today, status, paidOut, payout, arrears, shortfall, journal, rails>>
  BY DEF CommitComplete
<1>2. Cycles \subseteq paidOut
  BY <1>1 DEF IInv, JobStands, Doing
<1>3. TypeOK'
  BY <1>1, JobOver DEF IInv, TypeOK, rails
<1>4. ProviderStands' /\ ProviderKept /\ Onward /\ PayoutsKept
  BY <1>1, SameProviderKept DEF IInv, ProviderStands, rails, Onward, PayoutsKept
<1>5. QED
  BY <1>1, <1>2, <1>3, <1>4, JobOver, StepIInv DEF rails, PaidFor, KeyFree

(* The state that a webhook brings, or the one that it finds in the payment   *)
(* row, is final at the provider too, and a payout that another webhook has   *)
(* settled has its key in the journal: so however many webhooks there are, a  *)
(* payout is settled only once, and neither fails after it was settled nor is *)
(* settled after it failed.                                                  *)
LEMMA CommitWebhookIInv ==
  ASSUME IInv, NEW s \in Sessions, CommitWebhook(s)
  PROVE  IInv'
<1> USE DEF rows
<1>1. PICK c, got, applies, st, was :
        /\ c = job[s].cycle /\ got = job[s].got
        /\ st = job[s].st /\ was = job[s].was
        /\ Doing(s, "settling")
        /\ payment' = IF applies THEN [payment EXCEPT ![c] = got] ELSE payment
        /\ SettlePayoutIfReady(c, st, was)
        /\ Done(s)
        /\ UNCHANGED <<rail, today, provider>>
  BY DEF CommitWebhook
<1>2. /\ c \in Cycles /\ got \in States
      /\ provider[c].state # Absent /\ Told(c, got) /\ Told(c, st)
      /\ was # Absent => payout[c] # NoRow
  BY <1>1, JobTypes DEF IInv, JobStands, Doing, WebhookSteps
<1>3. rail # "fake"
  BY <1>2 DEF IInv, ProviderStands
<1>4. CycleStands(c) /\ CycleRows(c)
  BY <1>2 DEF IInv
<1>5. PICK now : now = payment'[c]
  OBVIOUS
<1>6. /\ payment' \in [Cycles -> States \cup {Absent}]
      /\ \A d \in Cycles \ {c} : payment'[d] = payment[d]
      /\ Told(c, now)
  BY <1>1, <1>2, <1>4, <1>5 DEF IInv, TypeOK, CycleStands
<1>7. Told(c, payment[c])'
  BY <1>1, <1>5, <1>6 DEF Told
<1>8. ProviderStands' /\ ProviderKept
  BY <1>1, SameProviderKept DEF IInv, ProviderStands
<1>9. CASE UNCHANGED rows
  <2>1. Onward /\ PayoutsKept /\ \A d : PaidFor(d)' = PaidFor(d)
    BY <1>9 DEF Onward, PayoutsKept, PaidFor
  <2>2. CycleRows(c)'
    BY <1>4, <1>9, <2>1 DEF CycleRows
  <2>3. CycleStands(c)'
    <3>1. PICK amount : amount = payout[c].amount
      OBVIOUS
    <3>2. payout[c] # NoRow => amount \in Nat /\ Covered(c, amount)
      BY <1>2, <1>4, <3>1 DEF IInv, TypeOK, PayoutRow, Members, CycleStands
    <3>3. payout[c] # NoRow => Covered(c, amount)'
      BY <1>2, <2>1, <3>2, CoveredKept
    <3>4. payout' = payout /\ payout'[c].amount = amount
      BY <1>9, <3>1
    <3>5. QED
      BY <1>1, <1>4, <1>7, <1>9, <3>3, <3>4 DEF CycleStands, Told, SentFor
  <2>4. TypeOK'
    BY <1>1, <1>6, <1>9, JobOver DEF IInv, TypeOK
  <2>5. QED
    BY <1>1, <1>6, <1>8, <1>9, <2>1, <2>2, <2>3, <2>4, JobOver, StepIInv DEF KeyFree
<1>10. ASSUME ~UNCHANGED rows PROVE IInv'
  <2>1. /\ payout[c] # NoRow
        /\ \/ st = "settled" /\ SettleCirclePayout(c)
           \/ st = "failed" /\ SetPayoutStatus(c, "failed")
    BY <1>1, <1>2, <1>10 DEF SettlePayoutIfReady
  <2>2. PICK row : row = payout[c]
    OBVIOUS
  <2>3. row \in PayoutRow /\ row.amount \in Members /\ row.amount \in Nat
    BY <1>2, <2>1, <2>2 DEF IInv, TypeOK, PayoutRow, Members
  <2>4. /\ Covered(c, row.amount) /\ SentFor(c, row.amount)
        /\ row.shortfall = MemberCount - row.amount
        /\ row.status = "paid" => Told(c, "settled")
    BY <1>3, <1>4, <2>1, <2>2 DEF CycleStands
  <2>5. row.status # "paid" /\ c \notin paidOut /\ PaidFor(c) = {}
    <3>1. CASE SettleCirclePayout(c)
      <4>1. KeyFree(PayoutKey(c))
        BY <3>1, Entries DEF SettleCirclePayout, Post
      <4>2. PaidFor(c) = {}
        BY <4>1 DEF KeyFree, PaidFor
      <4>3. QED
        BY <1>4, <2>1, <2>2, <4>2 DEF CycleRows
    <3>2. CASE st = "failed"
      BY <1>2, <1>4, <2>1, <2>2, <2>4, <3>2 DEF CycleRows, Told
    <3>3. QED
      BY <2>1, <3>1, <3>2
  <2>6. PICK new : /\ new \in {"paid", "failed"}
                   /\ new = "paid" <=> st = "settled"
                   /\ payout' = [payout EXCEPT ![c] = [row EXCEPT !.status = new]]
    <3>1. CASE st = "settled"
      BY <2>1, <2>2, <3>1 DEF SettleCirclePayout
    <3>2. CASE st = "failed"
      BY <2>1, <2>2, <3>2 DEF SetPayoutStatus
    <3>3. QED
      BY <2>1, <3>1, <3>2
  <2>7. /\ payout' \in [Cycles -> PayoutRow \cup {NoRow}]
        /\ payout'[c] = [row EXCEPT !.status = new]
        /\ payout'[c] # NoRow /\ payout'[c].status = new
        /\ payout'[c].amount = row.amount /\ payout'[c].shortfall = row.shortfall
        /\ \A d \in Cycles \ {c} : payout'[d] = payout[d]
    <3>1. [row EXCEPT !.status = new] \in PayoutRow
      BY <2>3, <2>6 DEF PayoutRow
    <3>2. /\ [row EXCEPT !.status = new].status = new
          /\ [row EXCEPT !.status = new].amount = row.amount
          /\ [row EXCEPT !.status = new].shortfall = row.shortfall
      BY <2>3 DEF PayoutRow
    <3>3. payout \in [Cycles -> PayoutRow \cup {NoRow}]
      BY DEF IInv, TypeOK
    <3>4. QED
      BY <1>2, <2>6, <3>1, <3>2, <3>3, NoRowAssumption
  <2>8. Told(c, st)' /\ SentFor(c, row.amount)' /\ PayoutsKept
    BY <1>1, <1>2, <2>4, <2>7 DEF Told, SentFor, PayoutsKept
  <2>9. CASE st = "settled"
    <3>1. /\ Post({Entry(PayoutKey(c), row.amount)})
          /\ paidOut' = paidOut \cup {c}
          /\ shortfall' = [shortfall EXCEPT ![c] = row.shortfall]
          /\ UNCHANGED <<state, status, arrears>>
      BY <2>1, <2>2, <2>9 DEF SettleCirclePayout, SentRow, MarkPaidOut
    <3>2. /\ Onward
          /\ PaidFor(c)' = {Entry(PayoutKey(c), row.amount)}
          /\ \A d \in Cycles \ {c} : PaidFor(d)' = PaidFor(d)
          /\ \A x \in Slots :
               /\ KeyFree(CollectionKey(x))' <=> KeyFree(CollectionKey(x))
               /\ KeyFree(LateKey(x))' <=> KeyFree(LateKey(x))
          /\ \A e \in journal' : e.amount \in Members
      BY <1>2, <2>3, <2>5, <3>1, PayoutPosted
    <3>3. /\ shortfall' \in [Cycles -> Nat] /\ shortfall'[c] = row.shortfall
          /\ \A d \in Cycles \ {c} : shortfall'[d] = shortfall[d]
      BY <1>2, <2>3, <3>1 DEF IInv, TypeOK, PayoutRow
    <3>4. CycleRows(c)'
      BY <2>6, <2>7, <2>9, <3>1, <3>2, Entries DEF CycleRows
    <3>5. CycleStands(c)'
      <4>1. Covered(c, row.amount)'
        BY <1>2, <2>3, <2>4, <3>2, CoveredKept
      <4>2. rail' # "fake" /\ new = "paid" /\ Told(c, "settled")'
        BY <1>1, <1>3, <2>6, <2>8, <2>9
      <4>3. QED
        BY <1>7, <2>4, <2>7, <2>8, <3>1, <3>3, <4>1, <4>2 DEF CycleStands
    <3>6. TypeOK'
      BY <1>1, <1>2, <1>6, <2>7, <3>1, <3>2, <3>3, JobOver DEF IInv, TypeOK
    <3>7. QED
      BY <1>1, <1>6, <1>8, <2>7, <2>8, <3>1, <3>2, <3>3, <3>4, <3>5, <3>6, JobOver, StepIInv
  <2>10. CASE st = "failed"
    <3>1. new = "failed" /\ UNCHANGED <<state, status, paidOut, arrears, shortfall, journal>>
      BY <2>1, <2>6, <2>10 DEF SetPayoutStatus
    <3>2. Onward /\ \A d : PaidFor(d)' = PaidFor(d)
      BY <3>1 DEF Onward, PaidFor
    <3>3. CycleRows(c)'
      BY <2>5, <2>7, <3>1, <3>2 DEF CycleRows
    <3>4. CycleStands(c)'
      <4>1. Covered(c, row.amount)'
        BY <1>2, <2>3, <2>4, <3>2, CoveredKept
      <4>2. rail' # "fake" /\ c \notin paidOut' /\ Told(c, "failed")'
        BY <1>1, <1>3, <2>5, <2>8, <2>10, <3>1
      <4>3. QED
        BY <1>7, <2>4, <2>7, <2>8, <3>1, <4>1, <4>2 DEF CycleStands
    <3>5. TypeOK'
      BY <1>1, <1>6, <2>7, <3>1, JobOver DEF IInv, TypeOK
    <3>6. QED
      BY <1>1, <1>6, <1>8, <2>7, <2>8, <3>1, <3>2, <3>3, <3>4, <3>5, JobOver, StepIInv DEF KeyFree
  <2>11. QED
    BY <2>1, <2>9, <2>10
<1>11. QED
  BY <1>9, <1>10

LEMMA NextIInv == IInv /\ [Next]_vars => IInv'
<1> SUFFICES ASSUME IInv, [Next]_vars PROVE IInv'
  OBVIOUS
<1>1. CASE UNCHANGED vars
  <2>1. UNCHANGED <<rail, today, rows, rails, job>>
    BY <1>1 DEF vars
  <2>2. TypeOK'
    BY <2>1 DEF IInv, TypeOK, rows, rails
  <2>3. ProviderStands' /\ ProviderKept /\ Onward /\ PayoutsKept
    BY <2>1, SameProviderKept DEF IInv, ProviderStands, Onward, PayoutsKept, rows, rails
  <2>4. QED
    BY <2>1, <2>2, <2>3, StepIInv DEF PaidFor, KeyFree, IInv, rows, rails
<1>2. CASE Tick
  BY <1>2, TickIInv
<1>3. CASE \E c \in Cycles : ProviderStep(c)
  BY <1>3, ProviderStepIInv
<1>4. ASSUME NEW s \in Sessions,
             \/ CollectDue(s) \/ CommitCollect(s)
             \/ \E c \in Cycles : ExecutePayout(s, c)
             \/ CommitPaid(s) \/ CommitSent(s)
             \/ \E c \in Cycles : ReceiveEvent(s, c)
             \/ CheckPayment(s) \/ ReadPayout(s) \/ CommitWebhook(s)
             \/ \E x \in Slots : FailLate(s, x)
             \/ CommitLate(s)
             \/ Complete(s) \/ CommitComplete(s)
             \/ Rollback(s)
      PROVE  IInv'
  BY <1>4, CollectDueIInv, CommitCollectIInv, ExecutePayoutIInv, CommitPaidIInv, CommitSentIInv,
     ReceiveEventIInv, CheckPaymentIInv, ReadPayoutIInv, CommitWebhookIInv, FailLateIInv, CommitLateIInv,
     CompleteIInv, CommitCompleteIInv, RollbackIInv
<1>5. QED
  BY <1>1, <1>2, <1>3, <1>4 DEF Next

-----------------------------------------------------------------------------
(* The invariant that the rows, the journal, the provider and what the       *)
(* requests have read keep together.                                         *)
THEOREM Invariance == Spec => []IInv
<1>1. QED
  BY InitIInv, NextIInv, PTL DEF Spec

(* Every variable keeps its type: a payout row in particular has an amount    *)
(* within the circle's, and a shortfall that is not negative.                *)
THEOREM TypeCorrect == Spec => []TypeOK
<1>1. IInv => TypeOK
  BY DEF IInv
<1>2. QED
  BY <1>1, Invariance, PTL

(* execute_payout() pays what it counted when it read the contributions; by   *)
(* the time the entry is posted others have failed late or been collected,    *)
(* and the collections of the cycle still cover it.                          *)
THEOREM PayoutCovered == Spec => []PayoutIsCovered
<1>1. IInv => PayoutIsCovered
  <2> SUFFICES ASSUME IInv, NEW c \in Cycles, NEW e \in PaidFor(c)
               PROVE  e.amount <= Cardinality(CollectedFor(c))
    BY DEF PayoutIsCovered
  <2>1. CycleRows(c) /\ CycleStands(c)
    BY DEF IInv
  <2>2. QED
    BY <2>1 DEF CycleRows, CycleStands, Covered
<1>2. QED
  BY <1>1, Invariance, PTL

(* What the journal pays over a provider is what the provider settled, to the *)
(* amount.                                                                   *)
THEOREM LedgerFollowsProvider == Spec => []LedgerPaysWhatWasSent
<1>1. IInv => LedgerPaysWhatWasSent
  <2> SUFFICES ASSUME IInv, rail # "fake", NEW c \in Cycles, NEW e \in PaidFor(c)
               PROVE  provider[c] = [state |-> "settled", amount |-> e.amount]
    BY DEF LedgerPaysWhatWasSent
  <2>1. CycleRows(c) /\ CycleStands(c)
    BY DEF IInv
  <2>2. provider[c].state = "settled" /\ provider[c].amount = e.amount
    BY <2>1 DEF CycleRows, CycleStands, Told, SentFor
  <2>3. provider[c] \in [state : States \cup {Absent}, amount : Nat]
    BY DEF IInv, ProviderStands
  <2>4. QED
    BY <2>2, <2>3
<1>2. QED
  BY <1>1, Invariance, PTL

(* The status columns of payouts, cycles and contributions can be read back   *)
(* from the journal, and the journal from them.                              *)
THEOREM JournalMatched == Spec => []RowsMatchJournal
<1>1. IInv => RowsMatchJournal
  BY DEF IInv, RowsMatchJournal, CycleRows, SlotRows
<1>2. QED
  BY <1>1, Invariance, PTL

(* complete() closes a circle in which every recipient was paid, and what is  *)
(* still missing is recorded as a shortfall.                                 *)
THEOREM CompletionExplained == Spec => []CompletedIsExplained
<1>1. IInv => CompletedIsExplained
  <2> SUFFICES ASSUME IInv, state = "completed", NEW c \in Cycles
               PROVE  /\ PaidFor(c) # {}
                      /\ Cardinality({x \in Slots : x[1] = c /\ status[x] = "due"})
                           <= shortfall[c]
    BY DEF CompletedIsExplained
  <2>1. c \in paidOut /\ CycleRows(c) /\ CycleStands(c)
    BY DEF IInv
  <2>2. QED
    BY <2>1 DEF CycleRows, CycleStands, Covered, Missing
<1>2. QED
  BY <1>1, Invariance, PTL

(* A payout row never loses its amount or leaves "paid" or "failed", entries  *)
(* stay, and a completed circle stays completed.                             *)
THEOREM PayoutsAreFinal == Spec => PayoutIsFinal
<1> DEFINE Final == /\ \A c \in Cycles :
                         payout[c] # NoRow =>
                           /\ payout'[c] # NoRow
                           /\ payout'[c].amount = payout[c].amount
                           /\ payout[c].status # "processing" => payout'[c] = payout[c]
                    /\ journal \subseteq journal'
                    /\ state = "completed" => state' = "completed"
<1>1. ASSUME IInv, [Next]_vars PROVE [Final]_vars
  <2> USE DEF rows
  <2>1. ASSUME UNCHANGED <<payout, journal, state>> PROVE Final
    BY <2>1
  <2>2. CASE UNCHANGED vars
    BY <2>2 DEF vars
  <2>3. ASSUME Tick PROVE Final
    BY <2>1, <2>3 DEF Tick
  <2>4. ASSUME NEW c \in Cycles, ProviderStep(c) PROVE Final
    BY <2>1, <2>4 DEF ProviderStep
  <2>5. ASSUME NEW s \in Sessions, CommitCollect(s) PROVE Final
    <3>1. journal \subseteq journal' /\ UNCHANGED <<payout, state>>
      BY <2>5 DEF CommitCollect, Post
    <3>2. QED
      BY <3>1
  <2>6. ASSUME NEW s \in Sessions, CommitLate(s) PROVE Final
    <3>1. journal \subseteq journal' /\ UNCHANGED <<payout, state>>
      BY <2>6 DEF CommitLate, Post
    <3>2. QED
      BY <3>1
  <2>7. ASSUME NEW s \in Sessions, CommitPaid(s) \/ CommitSent(s) PROVE Final
    <3>1. Doing(s, "payout")
      BY <2>7 DEF CommitPaid, CommitSent
    <3>2. PICK c \in Cycles : /\ payout[c] = NoRow
                              /\ \A d \in Cycles \ {c} : payout'[d] = payout[d]
                              /\ journal \subseteq journal' /\ state' = state
      <4>1. job[s].cycle \in Cycles
        BY <3>1, JobTypes, <1>1 DEF IInv
      <4>2. payout \in [Cycles -> PayoutRow \cup {NoRow}]
        BY <1>1 DEF IInv, TypeOK
      <4>3. QED
        BY <2>7, <4>1, <4>2 DEF CommitPaid, CommitSent, NoPayout, Post
    <3>3. QED
      BY <3>2
  <2>8. ASSUME NEW s \in Sessions, CommitWebhook(s) PROVE Final
    <3>1. PICK c, st, was :
            /\ c = job[s].cycle /\ st = job[s].st /\ was = job[s].was
            /\ SettlePayoutIfReady(c, st, was)
            /\ Doing(s, "settling")
      BY <2>8 DEF CommitWebhook
    <3>2. c \in Cycles /\ provider[c].state # Absent /\ rail # "fake"
      BY <1>1, <3>1, JobTypes DEF IInv, JobStands, Doing, WebhookSteps, ProviderStands
    <3>3. CycleStands(c) /\ CycleRows(c)
      BY <1>1, <3>2 DEF IInv
    <3>4. Told(c, st) /\ (was # Absent => payout[c] # NoRow)
      BY <1>1, <3>1 DEF IInv, JobStands, Doing
    <3>5. journal \subseteq journal' /\ state' = state
      BY <3>1 DEF SettlePayoutIfReady, SettleCirclePayout, SetPayoutStatus, Post
    <3>6. CASE UNCHANGED rows
      BY <2>1, <3>6
    <3>7. CASE ~UNCHANGED rows
      <4>1. /\ payout[c] # NoRow
            /\ \/ /\ st = "settled" /\ KeyFree(PayoutKey(c))
                  /\ payout' = [payout EXCEPT ![c].status = "paid"]
               \/ st = "failed" /\ payout' = [payout EXCEPT ![c].status = "failed"]
        BY <3>1, <3>4, <3>7, Entries
        DEF SettlePayoutIfReady, SettleCirclePayout, SetPayoutStatus, Post
      <4>2. payout \in [Cycles -> PayoutRow \cup {NoRow}] /\ payout[c] \in PayoutRow
        BY <1>1, <3>2, <4>1 DEF IInv, TypeOK
      <4>3. \/ payout[c].status = "processing"
            \/ /\ payout[c].status = "failed"
               /\ payout' = [payout EXCEPT ![c].status = "failed"]
        <5>1. KeyFree(PayoutKey(c)) => payout[c].status # "paid"
          BY <3>3, <4>1 DEF CycleRows, KeyFree, PaidFor
        <5>2. QED
          BY <3>2, <3>3, <3>4, <4>1, <4>2, <5>1 DEF CycleStands, Told, PayoutRow
      <4>4. PICK new : payout' = [payout EXCEPT ![c] = [payout[c] EXCEPT !.status = new]]
                       /\ (payout[c].status = "failed" => new = "failed")
        BY <4>1, <4>3
      <4>5. [payout[c] EXCEPT !.status = new] = [status |-> new, amount |-> payout[c].amount,
                                               shortfall |-> payout[c].shortfall]
        BY <4>2 DEF PayoutRow
      <4>6. payout[c] = [status |-> payout[c].status, amount |-> payout[c].amount,
                         shortfall |-> payout[c].shortfall]
        BY <4>2 DEF PayoutRow
      <4>7. /\ payout'[c] = [status |-> new, amount |-> payout[c].amount,
                             shortfall |-> payout[c].shortfall]
            /\ \A d \in Cycles \ {c} : payout'[d] = payout[d]
        BY <3>2, <4>2, <4>4, <4>5
      <4>8. payout'[c] # NoRow
        <5>1. new \in {"paid", "failed"}
          <6>1. payout'[c].status \in {"paid", "failed"}
            BY <3>2, <4>1, <4>2 DEF PayoutRow
          <6>2. QED
            BY <4>7, <6>1
        <5>2. payout'[c] \in PayoutRow
          BY <4>2, <4>7, <5>1 DEF PayoutRow
        <5>3. QED
          BY <5>2, NoRowAssumption
      <4>9. payout'[c].amount = payout[c].amount
        BY <4>7
      <4>10. payout[c].status # "processing" => payout'[c] = payout[c]
        BY <4>3, <4>4, <4>6, <4>7
      <4>11. QED
        BY <3>5, <4>7, <4>8, <4>9, <4>10
    <3>8. QED
      BY <3>6, <3>7
  <2>9. ASSUME NEW s \in Sessions,
               \/ CollectDue(s) \/ \E c \in Cycles : ExecutePayout(s, c)
               \/ \E c \in Cycles : ReceiveEvent(s, c)
               \/ CheckPayment(s) \/ ReadPayout(s)
               \/ \E x \in Slots : FailLate(s, x)
               \/ Complete(s) \/ Rollback(s)
        PROVE  Final
    <3>1. UNCHANGED <<payout, journal, state>>
      BY <2>9 DEF CollectDue, ExecutePayout, ReceiveEvent, CheckPayment, ReadPayout, FailLate, Complete,
                  Rollback
    <3>2. QED
      BY <2>1, <3>1
  <2>10. ASSUME NEW s \in Sessions, CommitComplete(s) PROVE Final
    <3>1. state' = "completed" /\ UNCHANGED <<payout, journal>>
      BY <2>10 DEF CommitComplete
    <3>2. QED
      BY <3>1
  <2> HIDE DEF Final
  <2>11. ASSUME Next PROVE Final
    <3>1. ASSUME NEW s \in Sessions,
                 \/ CollectDue(s) \/ CommitCollect(s)
                 \/ \E c \in Cycles : ExecutePayout(s, c)
                 \/ CommitPaid(s) \/ CommitSent(s)
                 \/ \E c \in Cycles : ReceiveEvent(s, c)
                 \/ CheckPayment(s) \/ ReadPayout(s) \/ CommitWebhook(s)
                 \/ \E x \in Slots : FailLate(s, x)
                 \/ CommitLate(s)
                 \/ Complete(s) \/ CommitComplete(s)
                 \/ Rollback(s)
          PROVE  Final
      BY <3>1, <2>5, <2>6, <2>7, <2>8, <2>9, <2>10
    <3>2. QED
      BY <2>3, <2>4, <2>11, <3>1 DEF Next
  <2>12. QED
    BY <1>1, <2>2, <2>11
<1>2. QED
  BY <1>1, Invariance, PTL DEF Spec, PayoutIsFinal

=============================================================================
