----------------------------- MODULE CircleMoney -----------------------------
(***************************************************************************)
(* The money of an active circle (app/modules/circles/service.py:          *)
(* collect_due, execute_payout, settle_payout_if_ready,                    *)
(* inject_late_failure, complete) over the fake rail or a provider.        *)
(*                                                                         *)
(* A request reads rows, decides, and commits later; in between others     *)
(* commit.  What makes one of two requests fail are the unique journal     *)
(* keys and the unique cycle of a payout.  A payout over a provider is     *)
(* only sent by the request; webhooks settle it.  A provider may send any   *)
(* number of events about a payout, at any time: the rows of partner_event *)
(* keep only one event from being handled twice, and are left to           *)
(* Settlement, as are the recon_break rows of webhooks that do not apply.   *)
(*                                                                         *)
(* Every contribution has the same amount, so amounts are counted in       *)
(* contributions.  The balances of the accounts are Ledger's subject.      *)
(***************************************************************************)
EXTENDS Calendar, FiniteSets

CONSTANTS
  MemberCount, \* members of the circle, and therefore cycles
  StartDate,   \* circle.start_date
  Sessions,    \* concurrent requests
  NoRow        \* no circle_payout row for a cycle

ASSUME MemberAssumption == MemberCount \in Nat \ {0}
ASSUME StartAssumption == StartDate \in Dates

Members == 1..MemberCount
Cycles == 1..MemberCount      \* create_circle() refuses any other cycle_count
Slots == Cycles \X Members    \* the contributions of the schedule
States == {"initiated", "processing", "settled", "failed"}
Absent == "none"

VARIABLES
  rail,      \* RAIL_PAYOUT: "fake" or "truelayer"
  state,     \* circle.state
  today,     \* the date (UTC)
  status,    \* circle_contribution.status
  paidOut,   \* cycles whose status is paid_out
  payout,    \* cycle -> circle_payout row
  arrears,   \* contributions with an arrears and a failed_late shortfall row
  shortfall, \* cycle -> amount of its cycle_payout_shortfall row
  journal,   \* entries of this circle
  provider,  \* cycle -> the payout at the provider
  payment,   \* cycle -> payment_object.state of its payout
  job        \* what each session has read

rows == <<state, status, paidOut, payout, arrears, shortfall, journal>>
rails == <<provider, payment>>
vars == <<rail, today, rows, rails, job>>

Idle == [op |-> "idle"]
Doing(s, op) == job[s].op = op
Do(s, work) == job' = [job EXCEPT ![s] = work]
Done(s) == Do(s, Idle)

-----------------------------------------------------------------------------
(* The idempotency keys of the circle's entries, and post_entry().          *)
CollectionKey(x) == <<"collection", x[1], x[2]>>
LateKey(x) == <<"failed-late", x[1], x[2]>>
PayoutKey(c) == <<"payout", c, 0>>

KeyFree(key) == \A e \in journal : e.key # key
Post(entries) ==
  /\ \A e \in entries : KeyFree(e.key)
  /\ journal' = journal \cup entries
Entry(key, amount) == [key |-> key, amount |-> amount]

-----------------------------------------------------------------------------
Init ==
  /\ rail \in {"fake", "truelayer"}
  /\ state = "active"
  /\ today = StartDate
  /\ status = [x \in Slots |-> "due"]
  /\ paidOut = {}
  /\ payout = [c \in Cycles |-> NoRow]
  /\ arrears = {}
  /\ shortfall = [c \in Cycles |-> 0]
  /\ journal = {}
  /\ provider = [c \in Cycles |-> [state |-> Absent, amount |-> 0]]
  /\ payment = [c \in Cycles |-> Absent]
  /\ job = [s \in Sessions |-> Idle]

(* generate_schedule()                                                      *)
DueDate(c) == add_months(StartDate, c - 1)

(* Only the days on which a cycle falls due matter.                         *)
Tick ==
  /\ \E c \in Cycles : Before(today, DueDate(c)) /\ today' = DueDate(c)
  /\ UNCHANGED <<rail, rows, rails, job>>

(* list_due_contributions()                                                 *)
Due == {x \in Slots : status[x] = "due" /\ ~Before(today, DueDate(x[1]))}

CollectDue(s) ==
  /\ job[s] = Idle
  /\ state = "active"
  /\ Due # {}
  /\ Do(s, [op |-> "collect", batch |-> Due])
  /\ UNCHANGED <<rail, today, rows, rails>>

(* The batch is one transaction: one contribution that another request has   *)
(* collected meanwhile makes all of it fail.                                 *)
CommitCollect(s) ==
  LET batch == job[s].batch
  IN /\ Doing(s, "collect")
     /\ Post({Entry(CollectionKey(x), 1) : x \in batch})
     /\ status' = [x \in Slots |-> IF x \in batch THEN "paid" ELSE status[x]]
     /\ Done(s)
     /\ UNCHANGED <<rail, today, state, paidOut, payout, arrears, shortfall, rails>>

(* Variant: what was expected is paid out instead of what was collected.    *)
Expected(c) == {x \in Slots : x[1] = c}

(* Variant: contributions to other cycles count as well.                    *)
CollectedSoFar(c) == {x \in Slots : status[x] = "paid"}

(* The contributions that make up the payout of a cycle.                    *)
Collected(c) == {x \in Slots : x[1] = c /\ status[x] = "paid"}

(* An existing payout is returned as it is; cycle_id is unique.             *)
NoPayout(c) == payout[c] = NoRow

(* The provider keeps one object per idempotency key and refuses the key     *)
(* with another amount.  The payout may be over when it answers.             *)
SendPayout(c, amount) ==
  IF provider[c].state = Absent
  THEN \E answer \in {"processing", "settled", "failed"} :
         provider' = [provider EXCEPT ![c] = [state |-> answer, amount |-> amount]]
  ELSE provider[c].amount = amount /\ UNCHANGED provider

(* execute_payout() up to the answer of the rail.                           *)
ExecutePayout(s, c) ==
  LET amount == Cardinality(Collected(c))
  IN /\ job[s] = Idle
     /\ state = "active"
     /\ NoPayout(c)
     /\ Collected(c) # {}
     /\ IF rail = "fake" THEN UNCHANGED provider ELSE SendPayout(c, amount)
     /\ Do(s, [op |-> "payout", cycle |-> c, amount |-> amount,
               answer |-> IF rail = "fake" THEN "initiated" ELSE provider'[c].state])
     /\ UNCHANGED <<rail, today, rows, payment>>

Row(st, amount) ==
  [status |-> st, amount |-> amount, shortfall |-> MemberCount - amount]

(* Variant: cycle.status is not set.                                        *)
CycleStaysScheduled(c) == UNCHANGED paidOut

MarkPaidOut(c) == paidOut' = paidOut \cup {c}

(* A payout of the fake rail is in the ledger at once.                      *)
CommitPaid(s) ==
  LET c == job[s].cycle
      row == Row("paid", job[s].amount)
  IN /\ Doing(s, "payout")
     /\ rail = "fake"
     /\ NoPayout(c)
     /\ Post({Entry(PayoutKey(c), row.amount)})
     /\ payout' = [payout EXCEPT ![c] = row]
     /\ shortfall' = [shortfall EXCEPT ![c] = row.shortfall]
     /\ MarkPaidOut(c)
     /\ Done(s)
     /\ UNCHANGED <<rail, today, state, status, arrears, rails>>

(* Whatever another provider answered, its payout is "processing".          *)
CommitSent(s) ==
  LET c == job[s].cycle
  IN /\ Doing(s, "payout")
     /\ rail # "fake"
     /\ NoPayout(c)
     /\ payout' = [payout EXCEPT ![c] = Row("processing", job[s].amount)]
     /\ payment' = [payment EXCEPT ![c] = job[s].answer]
     /\ Done(s)
     /\ UNCHANGED <<rail, today, state, status, paidOut, arrears, shortfall, journal,
                    provider>>

-----------------------------------------------------------------------------
ProviderStep(c) ==
  /\ provider[c].state = "processing"
  /\ \E st \in {"settled", "failed"} : provider' = [provider EXCEPT ![c].state = st]
  /\ UNCHANGED <<rail, today, rows, payment, job>>

(* A webhook for an event that was not handled before: whatever the event     *)
(* says, the state of the provider's object is fetched.                      *)
ReceiveEvent(s, c) ==
  /\ job[s] = Idle
  /\ provider[c].state # Absent
  /\ Do(s, [op |-> "fetched", cycle |-> c, got |-> provider[c].state])
  /\ UNCHANGED <<rail, today, rows, rails>>

Order(st) == CASE st = "initiated" -> 0 [] st = "processing" -> 1 [] OTHER -> 2

CanApply(current, st) ==
  \/ current = st
  \/ current \in {"initiated", "processing"} /\ Order(st) >= Order(current)

(* process_webhook_object() on the payment row                              *)
CheckPayment(s) ==
  LET j == job[s]
      current == payment[j.cycle]
  IN /\ Doing(s, "fetched")
     /\ Do(s, [op |-> "checked", cycle |-> j.cycle, got |-> j.got,
               applies |-> current # Absent /\ CanApply(current, j.got)])
     /\ UNCHANGED <<rail, today, rows, rails>>

(* update_payment_state() waits for another webhook that has updated the row, *)
(* and settle_payout_if_ready() then reads the payment and the payout.       *)
ReadPayout(s) ==
  LET j == job[s]
      c == j.cycle
  IN /\ Doing(s, "checked")
     /\ j.applies =>
          \A t \in Sessions : Doing(t, "settling") /\ job[t].applies => job[t].cycle # c
     /\ Do(s, [op |-> "settling", cycle |-> c, got |-> j.got, applies |-> j.applies,
               st |-> IF j.applies THEN j.got ELSE payment[c],
               was |-> IF payout[c] = NoRow THEN Absent ELSE payout[c].status])
     /\ UNCHANGED <<rail, today, rows, rails>>

(* Variant: the amount is counted again when the payout settles.            *)
CollectedNow(c) == [payout[c] EXCEPT !.amount = Cardinality(Collected(c))]

(* The row holds the amount that was sent.                                  *)
SentRow(c) == payout[c]

(* _settle_circle_payout()                                                  *)
SettleCirclePayout(c) ==
  /\ Post({Entry(PayoutKey(c), SentRow(c).amount)})
  /\ payout' = [payout EXCEPT ![c].status = "paid"]
  /\ MarkPaidOut(c)
  /\ shortfall' = [shortfall EXCEPT ![c] = payout[c].shortfall]
  /\ UNCHANGED <<state, status, arrears>>

SetPayoutStatus(c, new) ==
  /\ payout' = [payout EXCEPT ![c].status = new]
  /\ UNCHANGED <<state, status, paidOut, arrears, shortfall, journal>>

(* Variant: the payout follows its payment into any other state as well.    *)
FollowPayment(c, st, was) ==
  CASE was # Absent /\ st = "settled" /\ was # "paid" -> SettleCirclePayout(c)
    [] was # Absent /\ st = "failed"                   -> SetPayoutStatus(c, "failed")
    [] was # Absent /\ st = "processing"               -> SetPayoutStatus(c, "processing")
    [] OTHER                                           -> UNCHANGED rows

(* settle_payout_if_ready() having read this payment state and payout status. *)
(* A settlement that another webhook has posted meanwhile fails on its key;  *)
(* a failure is written over whatever the payout was.                        *)
SettlePayoutIfReady(c, st, was) ==
  CASE was # Absent /\ st = "settled" /\ was # "paid" -> SettleCirclePayout(c)
    [] was # Absent /\ st = "failed"                   -> SetPayoutStatus(c, "failed")
    [] OTHER                                           -> UNCHANGED rows

(* The end of a webhook: the new state, if it applies, and the payout.      *)
CommitWebhook(s) ==
  LET j == job[s]
      c == j.cycle
  IN /\ Doing(s, "settling")
     /\ payment' = IF j.applies THEN [payment EXCEPT ![c] = j.got] ELSE payment
     /\ SettlePayoutIfReady(c, j.st, j.was)
     /\ Done(s)
     /\ UNCHANGED <<rail, today, provider>>

-----------------------------------------------------------------------------
(* inject_late_failure(): in any state of the circle.                       *)
FailLate(s, x) ==
  /\ job[s] = Idle
  /\ status[x] = "paid"
  /\ Do(s, [op |-> "late", slot |-> x])
  /\ UNCHANGED <<rail, today, rows, rails>>

CommitLate(s) ==
  LET x == job[s].slot
  IN /\ Doing(s, "late")
     /\ Post({Entry(LateKey(x), 1)})
     /\ status' = [status EXCEPT ![x] = "late_failed"]
     /\ arrears' = arrears \cup {x}
     /\ Done(s)
     /\ UNCHANGED <<rail, today, state, paidOut, payout, shortfall, rails>>

(* Variant: a cycle with a payout counts as paid out.                       *)
EveryCycleHasPayout == \A c \in Cycles : payout[c] # NoRow

EveryCyclePaidOut == Cycles \subseteq paidOut

Complete(s) ==
  /\ job[s] = Idle
  /\ state = "active"
  /\ EveryCyclePaidOut
  /\ Do(s, [op |-> "complete"])
  /\ UNCHANGED <<rail, today, rows, rails>>

CommitComplete(s) ==
  /\ Doing(s, "complete")
  /\ state' = "completed"
  /\ Done(s)
  /\ UNCHANGED <<rail, today, status, paidOut, payout, arrears, shortfall, journal, rails>>

(* An error, a unique violation or a crash; the provider keeps its object.   *)
Rollback(s) ==
  /\ job[s] # Idle
  /\ Done(s)
  /\ UNCHANGED <<rail, today, rows, rails>>

Next ==
  \/ Tick
  \/ \E c \in Cycles : ProviderStep(c)
  \/ \E s \in Sessions :
       \/ CollectDue(s) \/ CommitCollect(s)
       \/ \E c \in Cycles : ExecutePayout(s, c)
       \/ CommitPaid(s) \/ CommitSent(s)
       \/ \E c \in Cycles : ReceiveEvent(s, c)
       \/ CheckPayment(s) \/ ReadPayout(s) \/ CommitWebhook(s)
       \/ \E x \in Slots : FailLate(s, x)
       \/ CommitLate(s)
       \/ Complete(s) \/ CommitComplete(s)
       \/ Rollback(s)

Spec == Init /\ [][Next]_vars

-----------------------------------------------------------------------------
Job ==
  [op : {"idle", "complete"}]
    \cup [op : {"collect"}, batch : SUBSET Slots]
    \cup [op : {"payout"}, cycle : Cycles, amount : Members, answer : States]
    \cup [op : {"fetched"}, cycle : Cycles, got : States]
    \cup [op : {"checked"}, cycle : Cycles, got : States, applies : BOOLEAN]
    \cup [op : {"settling"}, cycle : Cycles, got : States, applies : BOOLEAN,
          st : States \cup {Absent}, was : {"processing", "paid", "failed", Absent}]
    \cup [op : {"late"}, slot : Slots]

PayoutRow ==
  [status : {"processing", "paid", "failed"}, amount : Members, shortfall : Nat]

ASSUME NoRowAssumption == NoRow \notin PayoutRow

TypeOK ==
  /\ state \in {"active", "completed"}
  /\ today \in {DueDate(c) : c \in Cycles}
  /\ status \in [Slots -> {"due", "paid", "late_failed"}]
  /\ paidOut \subseteq Cycles
  /\ payout \in [Cycles -> PayoutRow \cup {NoRow}]
  /\ arrears \subseteq Slots
  /\ shortfall \in [Cycles -> Nat]
  /\ \A e \in journal : e.amount \in Members
  /\ payment \in [Cycles -> States \cup {Absent}]
  /\ \A s \in Sessions : job[s] \in Job

PaidFor(c) == {e \in journal : e.key = PayoutKey(c)}
CollectedFor(c) == {x \in Slots : x[1] = c /\ ~KeyFree(CollectionKey(x))}

(* The payout of a cycle never takes more from the circle's collected        *)
(* account than the contributions of that cycle brought, however collections,*)
(* late failures and payouts overlap.                                        *)
PayoutIsCovered ==
  \A c \in Cycles : \A e \in PaidFor(c) : e.amount <= Cardinality(CollectedFor(c))

(* The ledger says a payout left for exactly what the provider was sent and  *)
(* only when it settled it, through failed requests and repeated attempts    *)
(* with one idempotency key (a provider payout, not one of the fake rail).   *)
LedgerPaysWhatWasSent ==
  rail # "fake" =>
    \A c \in Cycles : \A e \in PaidFor(c) :
      provider[c] = [state |-> "settled", amount |-> e.amount]

(* The rows of the circle and its journal tell the same story: a payout is   *)
(* paid, its cycle paid out and an entry posted together, and so for what    *)
(* was collected and what failed late.                                       *)
RowsMatchJournal ==
  /\ \A c \in Cycles :
       /\ PaidFor(c) # {} <=> c \in paidOut
       /\ c \in paidOut <=> payout[c] # NoRow /\ payout[c].status = "paid"
       /\ \A e \in PaidFor(c) : e.amount = payout[c].amount
  /\ \A x \in Slots :
       /\ status[x] \in {"paid", "late_failed"} <=> ~KeyFree(CollectionKey(x))
       /\ status[x] = "late_failed" <=> ~KeyFree(LateKey(x))

(* A circle completes only when every recipient has been paid by an entry;   *)
(* and every contribution still missing then is in a recorded shortfall of   *)
(* its cycle's payout.                                                       *)
CompletedIsExplained ==
  state = "completed" =>
    \A c \in Cycles :
      /\ PaidFor(c) # {}
      /\ Cardinality({x \in Slots : x[1] = c /\ status[x] = "due"}) <= shortfall[c]

(* A payout is decided once: no later request, and none of any number of     *)
(* webhooks that come late, twice or beside each other with an older state,  *)
(* changes what it pays or whether it was paid or failed, and a completed    *)
(* circle stays completed.                                                   *)
PayoutIsFinal ==
  [][/\ \A c \in Cycles :
          payout[c] # NoRow =>
            /\ payout'[c] # NoRow
            /\ payout'[c].amount = payout[c].amount
            /\ payout[c].status # "processing" => payout'[c] = payout[c]
     /\ journal \subseteq journal'
     /\ state = "completed" => state' = "completed"]_vars

=============================================================================
