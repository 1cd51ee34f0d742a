----------------------------- MODULE Settlement -----------------------------
(***************************************************************************)
(* Wallet top-ups and withdrawals from the client's command to the ledger  *)
(* entry that ends them: WalletService (app/modules/wallets/service.py),   *)
(* PaymentsService (app/modules/payments/service.py) and the provider      *)
(* webhooks (app/modules/provider_webhooks/router.py) over a provider.     *)
(*                                                                         *)
(* A command and a webhook each run in one database transaction.  The      *)
(* command calls the provider before its transaction commits, and a        *)
(* webhook reads the provider's state and the payment row some time before *)
(* it updates the row, so other sessions act in between.  A provider sends *)
(* an event again until a webhook request for it ends with 2xx.  Only      *)
(* Stripe and TrueLayer have webhooks, so their payments are the ones that *)
(* get past their start; the fake rail's are left to Requests.             *)
(*                                                                         *)
(* A provider creates one object per idempotency key, so a key stands for  *)
(* its provider object and its payment_object row.  The provider keeps a   *)
(* status of its own, which the rail maps to a state.  Amounts and         *)
(* balances are left out: the entries of a key have the amount of its      *)
(* payment.  What is left of a balance is whether the member's pending     *)
(* account still holds the amount of a key: Ledger shows that a stale copy *)
(* of the account may be written over it, and post_entry() then refuses    *)
(* to take the amount out, at every delivery.                              *)
(***************************************************************************)
EXTENDS Integers, FiniteSets

CONSTANTS
  Keys,         \* idempotency keys of wallet commands
  Flow,         \* key -> "topup" or "payout" (payment_object.flow)
  Rail,         \* key -> the rail that serves its flow (rail_topup, rail_payout)
  Sessions,     \* concurrent requests
  MaxKeys,      \* bound: keys used in one behaviour
  MaxRollbacks  \* bound: transactions that fail for passing reasons in one behaviour

States == {"initiated", "processing", "settled", "failed", "failed_late"}

ASSUME FlowAssumption == Flow \in [Keys -> {"topup", "payout"}]
ASSUME RailAssumption ==
  /\ Rail \in [Keys -> {"stripe", "truelayer"}]
  /\ \A k \in Keys : Rail[k] = "stripe" => Flow[k] = "topup"
ASSUME BoundAssumption == MaxKeys \in Nat /\ MaxRollbacks \in Nat

VARIABLES
  provider,   \* status of each key's object at the provider, or "none"
  sent,       \* events the provider has issued: <<key, new status>>
  events,     \* rows of partner_event
  payment,    \* committed payment_object.state, or "none"
  journal,    \* committed wallet entries: <<key, "initiated" | "settled" | "failed">>
  breaks,     \* rows of recon_break written by webhooks: <<key, reason>>
  at,         \* where each session is
  event,      \* the event a session handles, for a command <<key, "none">>
  got,        \* state that the rail returned to a session
  short,      \* keys whose amount the pending account does not hold
  rollbacks   \* transactions that failed for passing reasons so far

vars == <<provider, sent, events, payment, journal, breaks, at, event, got, short, rollbacks>>

Absent == "none"

-----------------------------------------------------------------------------
(* What the rails make of a provider's status.                              *)

map_payment_intent_state(status) ==
  CASE status \in {"requires_payment_method", "requires_confirmation", "requires_action"}
                             -> "initiated"
    [] status = "succeeded"  -> "settled"
    [] status = "canceled"   -> "failed"
    [] OTHER                 -> "processing"

map_payment_state(status) ==
  CASE status \in {"authorization_required", "authorizing"} -> "initiated"
    [] status \in {"settled", "payment_creditable"}         -> "settled"
    [] status \in {"failed", "rejected", "revoked", "expired", "cancelled", "canceled"}
                                                            -> "failed"
    [] OTHER                                                -> "processing"

map_payout_state(status) ==
  CASE status = "executed"                                          -> "settled"
    [] status \in {"failed", "rejected", "cancelled", "canceled"}   -> "failed"
    [] OTHER                                                        -> "processing"

(* get_settlement_status() of the rail; an id that does not look like a      *)
(* payout's is looked up as a payment first and then as a payout.            *)
StateOf(k, status) ==
  CASE Rail[k] = "stripe"                            -> map_payment_intent_state(status)
    [] Rail[k] = "truelayer" /\ Flow[k] = "topup"    -> map_payment_state(status)
    [] Rail[k] = "truelayer" /\ Flow[k] = "payout"   -> map_payout_state(status)

(* The steps of a provider's object, with one status for several that mean   *)
(* the same.  A declined payment goes back to its start at Stripe.           *)
PaymentIntentSteps ==
  {"requires_payment_method"} \X {"processing", "succeeded", "canceled"}
    \cup {"processing"} \X {"succeeded", "requires_payment_method"}

PaymentSteps ==
  {"authorization_required"} \X {"authorized", "failed"}
    \cup {"authorized"} \X {"executed", "failed"}
    \cup {<<"executed", "settled">>}

PayoutSteps == {"pending"} \X {"executed", "failed"}

Steps(k) ==
  CASE Rail[k] = "stripe"                            -> PaymentIntentSteps
    [] Rail[k] = "truelayer" /\ Flow[k] = "topup"    -> PaymentSteps
    [] Rail[k] = "truelayer" /\ Flow[k] = "payout"   -> PayoutSteps

(* The status that create_topup() or send_payout() may be answered with:     *)
(* a payout may be over by then.                                             *)
Created(k) ==
  CASE Rail[k] = "stripe"                            -> {"requires_payment_method"}
    [] Rail[k] = "truelayer" /\ Flow[k] = "topup"    -> {"authorization_required"}
    [] Rail[k] = "truelayer" /\ Flow[k] = "payout"   -> {"pending", "executed", "failed"}

Statuses(k) == Created(k) \cup {step[2] : step \in Steps(k)}

Events == UNION {{k} \X Statuses(k) : k \in Keys}
NoEvent == <<Absent, Absent>>
On(s) == event[s][1]
IsFinal(k, status) == StateOf(k, status) \in {"settled", "failed"}

-----------------------------------------------------------------------------
(* Every status is announced once.                                          *)
ProviderStep(k) ==
  \E status \in Statuses(k) :
    /\ <<provider[k], status>> \in Steps(k)
    /\ <<k, status>> \notin sent
    /\ provider' = [provider EXCEPT ![k] = status]
    /\ sent' = sent \cup {<<k, status>>}
    /\ UNCHANGED <<events, payment, journal, breaks, at, event, got, short, rollbacks>>

(* create_topup() and send_payout() of a rail.  The object is created once   *)
(* per key, and a final status is announced.                                 *)
CreateObject(k) ==
  IF provider[k] = Absent
  THEN \E status \in Created(k) :
         /\ provider' = [provider EXCEPT ![k] = status]
         /\ sent' = IF IsFinal(k, status) THEN sent \cup {<<k, status>>} ELSE sent
  ELSE UNCHANGED <<provider, sent>>

(* A retry is answered as the first request was: with the status the object   *)
(* was created in, which is the one of now or is not final.                  *)
Answers(k) ==
  {StateOf(k, status) :
     status \in {st \in Created(k) : st = provider'[k] \/ ~IsFinal(k, st)}}

-----------------------------------------------------------------------------
Order == [state \in States |->
            CASE state = "initiated"  -> 0
              [] state = "processing" -> 1
              [] state \in {"settled", "failed"} -> 2
              [] state = "failed_late" -> 3]

(* webhook_state_can_apply()                                                *)
CanApply(current, state) ==
  \/ current = state
  \/ state = "failed_late" /\ current = "settled"
  \/ /\ state # "failed_late"
     /\ current \notin {"failed", "failed_late", "settled"}
     /\ Order[state] >= Order[current]

(* Variant: an authorised payment already counts as settled.                *)
EntriesDueEarly(k, state) ==
  IF state \in {"processing", "settled"} THEN {<<k, "settled">>} ELSE {}

(* Variant: only a change of the state posts an entry.                      *)
EntriesDueOnChange(k, state) ==
  IF state = "settled" /\ payment[k] # state THEN {<<k, "settled">>} ELSE {}

(* settle_topup_if_ready() and settle_payout_if_ready(): the entry that a   *)
(* payment in this state still lacks.                                       *)
EntriesDue(k, state) ==
  IF state = "settled"
  THEN {<<k, "settled">>}
  ELSE IF Flow[k] = "payout" /\ state = "failed" /\ <<k, "settled">> \notin journal
       THEN {<<k, "failed">>}
       ELSE {}

Init ==
  /\ provider = [k \in Keys |-> Absent]
  /\ sent = {}
  /\ events = {}
  /\ payment = [k \in Keys |-> Absent]
  /\ journal = {}
  /\ breaks = {}
  /\ at = [s \in Sessions |-> "idle"]
  /\ event = [s \in Sessions |-> NoEvent]
  /\ got = [s \in Sessions |-> Absent]
  /\ short = {}
  /\ rollbacks = 0

(* No transaction holds the row lock of the payment.                        *)
RowFree(k) == \A t \in Sessions : ~(at[t] = "updated" /\ On(t) = k)

Close(s) ==
  /\ at' = [at EXCEPT ![s] = "idle"]
  /\ event' = [event EXCEPT ![s] = NoEvent]
  /\ got' = [got EXCEPT ![s] = Absent]

(* create_topup() and create_withdrawal() up to the answer of the rail.  A   *)
(* key that has its payment gets it back unchanged, which is no step here.   *)
CallRail(s, k) ==
  /\ at[s] = "idle"
  /\ payment[k] = Absent
  /\ Cardinality({j \in Keys : provider[j] # Absent} \cup {k}) <= MaxKeys
  /\ at' = [at EXCEPT ![s] = "accepted"]
  /\ event' = [event EXCEPT ![s] = <<k, Absent>>]
  /\ CreateObject(k)
  /\ \E answer \in Answers(k) : got' = [got EXCEPT ![s] = answer]
  /\ UNCHANGED <<events, payment, journal, breaks, short, rollbacks>>

(* The rest of the command: the payment row (its idempotency key is unique), *)
(* the "initiated" entry and the link between them, committed together.      *)
CommitCommand(s) ==
  /\ at[s] = "accepted"
  /\ payment[On(s)] = Absent
  /\ payment' = [payment EXCEPT ![On(s)] = got[s]]
  /\ journal' = journal \cup {<<On(s), "initiated">>}
  /\ Close(s)
  /\ UNCHANGED <<provider, sent, events, breaks, short, rollbacks>>

(* Variant: the signature is not checked.                                   *)
Unverified(e) == e \notin events

(* verify_webhook() accepts what the provider signed; persist_partner_event() *)
(* stores an event once.                                                     *)
Acceptable(e) == e \in sent \ events

(* A webhook request: the raw event is stored unless it was before (the      *)
(* unique index makes a second delivery wait for the first), then the        *)
(* provider is asked for the current state.                                  *)
ReceiveEvent(s, e) ==
  /\ at[s] = "idle"
  /\ Acceptable(e)
  /\ \A t \in Sessions : at[t] \in {"idle", "accepted"} \/ event[t] # e
  /\ at' = [at EXCEPT ![s] = "fetched"]
  /\ event' = [event EXCEPT ![s] = e]
  /\ got' = [got EXCEPT ![s] = StateOf(e[1], provider[e[1]])]
  /\ UNCHANGED <<provider, sent, events, payment, journal, breaks, short, rollbacks>>

(* process_webhook_object(): what the fetched state may do to the payment.   *)
CheckPayment(s) ==
  /\ at[s] = "fetched"
  /\ at' = [at EXCEPT ![s] =
              IF payment[On(s)] = Absent THEN "missing"
              ELSE IF CanApply(payment[On(s)], got[s]) THEN "applies"
              ELSE "conflict"]
  /\ UNCHANGED <<provider, sent, events, payment, journal, breaks, event, got, short, rollbacks>>

(* update_payment_state(): UPDATE ... SET state, without looking at the      *)
(* state again; it locks the row until the transaction ends.                 *)
UpdatePayment(s) ==
  /\ at[s] = "applies"
  /\ RowFree(On(s))
  /\ at' = [at EXCEPT ![s] = "updated"]
  /\ UNCHANGED <<provider, sent, events, payment, journal, breaks, event, got, short, rollbacks>>

(* post_entry() takes these entries: they are there, or the pending account   *)
(* has the amount to pay them with.                                          *)
CanPost(k, entries) == entries \subseteq journal \/ k \notin short

(* The end of a webhook that updated the payment: the entry that is due,     *)
(* the event and the new state are committed together.                       *)
CommitUpdate(s) ==
  /\ at[s] = "updated"
  /\ CanPost(On(s), EntriesDue(On(s), got[s]))
  /\ payment' = [payment EXCEPT ![On(s)] = got[s]]
  /\ journal' = journal \cup EntriesDue(On(s), got[s])
  /\ events' = events \cup {event[s]}
  /\ Close(s)
  /\ UNCHANGED <<provider, sent, breaks, short, rollbacks>>

(* Variant: a webhook without a payment is only logged.                     *)
RecordConflict(s) ==
  breaks' = IF at[s] = "conflict" THEN breaks \cup {<<On(s), at[s]>>} ELSE breaks

(* create_recon_break()                                                     *)
RecordBreak(s) == breaks' = breaks \cup {<<On(s), at[s]>>}

(* The end of a webhook that could not: a recon_break is written, and the    *)
(* payment is settled by the state it has by now.                            *)
CommitBreak(s) ==
  /\ at[s] \in {"missing", "conflict"}
  /\ CanPost(On(s), EntriesDue(On(s), payment[On(s)]))
  /\ RecordBreak(s)
  /\ journal' = journal \cup EntriesDue(On(s), payment[On(s)])
  /\ events' = events \cup {event[s]}
  /\ Close(s)
  /\ UNCHANGED <<provider, sent, payment, short, rollbacks>>

(* post_entry() would make the pending liability negative: the webhook fails, *)
(* whatever it wrote is gone, its break included, and the next delivery      *)
(* fails in the same way as long as the amount is not there.                 *)
RefuseEntry(s) ==
  /\ \/ at[s] = "updated" /\ ~CanPost(On(s), EntriesDue(On(s), got[s]))
     \/ /\ at[s] \in {"missing", "conflict"}
        /\ ~CanPost(On(s), EntriesDue(On(s), payment[On(s)]))
  /\ Close(s)
  /\ UNCHANGED <<provider, sent, events, payment, journal, breaks, short, rollbacks>>

(* A commit of another key of the member writes its stale copy of the pending *)
(* account over the amount of k, or puts enough into it again.               *)
PendingChanges(k) ==
  /\ <<k, "initiated">> \in journal
  /\ short' = IF k \in short THEN short \ {k} ELSE short \cup {k}
  /\ UNCHANGED <<provider, sent, events, payment, journal, breaks, at, event, got, rollbacks>>

(* A failure that passes, such as a unique violation, a lock or a rail that  *)
(* cannot be had, or a crash: nothing of the transaction stays, and what the *)
(* provider was asked to do stays done.                                      *)
Rollback(s) ==
  /\ at[s] # "idle"
  /\ rollbacks < MaxRollbacks
  /\ rollbacks' = rollbacks + 1
  /\ Close(s)
  /\ UNCHANGED <<provider, sent, events, payment, journal, breaks, short>>

(* The second of two commands with one key loses on a unique index.          *)
DuplicateCommand(s) ==
  /\ at[s] = "accepted"
  /\ payment[On(s)] # Absent
  /\ Close(s)
  /\ UNCHANGED <<provider, sent, events, payment, journal, breaks, short, rollbacks>>

(* Unless it finds the row: upsert_payment_object() then writes the state of *)
(* its own answer over it, and a top-up that has its entry is returned.  (A  *)
(* withdrawal goes on to post its entry again, and loses.)                   *)
OverwritePayment(s) ==
  /\ at[s] = "accepted"
  /\ payment[On(s)] # Absent
  /\ Flow[On(s)] = "topup"
  /\ RowFree(On(s))
  /\ payment' = [payment EXCEPT ![On(s)] = got[s]]
  /\ Close(s)
  /\ UNCHANGED <<provider, sent, events, journal, breaks, short, rollbacks>>

AnswerCommand(s) == CommitCommand(s) \/ DuplicateCommand(s) \/ OverwritePayment(s)
Command(s) == (\E k \in Keys : CallRail(s, k)) \/ AnswerCommand(s)
Webhook(s) ==
  CheckPayment(s) \/ UpdatePayment(s) \/ CommitUpdate(s) \/ CommitBreak(s) \/ RefuseEntry(s)

Next ==
  \/ \E k \in Keys : ProviderStep(k) \/ PendingChanges(k)
  \/ \E s \in Sessions : Command(s) \/ Webhook(s) \/ Rollback(s)
  \/ \E s \in Sessions, e \in Events : ReceiveEvent(s, e)

EventsOf(k) == {k} \X Statuses(k)

(* A session that started runs to its end, and the provider goes on sending   *)
(* the events of each key while there is one that was not accepted.  Nothing *)
(* makes post_entry() take an entry that it refuses.                         *)
Fairness ==
  /\ \A s \in Sessions : WF_vars(AnswerCommand(s) \/ Webhook(s))
  /\ \A k \in Keys : SF_vars(\E s \in Sessions, e \in EventsOf(k) : ReceiveEvent(s, e))

Spec == Init /\ [][Next]_vars
FairSpec == Spec /\ Fairness

-----------------------------------------------------------------------------
(* Types; no event is stored that the provider did not send.                *)
TypeOK ==
  /\ \A k \in Keys : provider[k] \in Statuses(k) \cup {Absent}
  /\ sent \subseteq Events
  /\ events \subseteq sent
  /\ payment \in [Keys -> States \cup {Absent}]
  /\ journal \subseteq Keys \X {"initiated", "settled", "failed"}
  /\ breaks \subseteq Keys \X {"missing", "conflict"}
  /\ at \in [Sessions -> {"idle", "accepted", "fetched", "missing", "applies",
                          "conflict", "updated"}]
  /\ event \in [Sessions -> Events \cup {NoEvent} \cup Keys \X {Absent}]
  /\ got \in [Sessions -> States \cup {Absent}]
  /\ short \subseteq Keys
  /\ rollbacks \in 0..MaxRollbacks

(* Where the money of a key is, by its ledger entries.                      *)
Stage(k) ==
  IF <<k, "settled">> \in journal THEN "settled"
  ELSE IF <<k, "failed">> \in journal THEN "returned"
  ELSE IF <<k, "initiated">> \in journal THEN "pending"
  ELSE "absent"

(* What a status means at the provider itself: whether the money has moved.  *)
Outcome(k, status) ==
  CASE status \in {"succeeded", "settled"}                -> "settled"
    [] status = "executed" /\ Flow[k] = "payout"          -> "settled"
    [] status \in {"canceled", "failed"}                  -> "failed"
    [] OTHER                                              -> "open"

Now(k) == Outcome(k, provider[k])

T == INSTANCE Transfer WITH
  stage <- [k \in Keys |-> Stage(k)], provider <- [k \in Keys |-> Now(k)]

(* The pipeline implements Transfer: money moves from pending to its end     *)
(* once, only in the direction the provider has reached by then, and failed  *)
(* transactions, repeated commands and repeated events never move it again.  *)
TransfersMoveOnce == T!Spec

Consumed(k, outcome) == \E e \in events : e[1] = k /\ Outcome(k, e[2]) = outcome
HasBreak(k) == \E reason \in {"missing", "conflict"} : <<k, reason>> \in breaks

(* An event may be consumed while the payment is not there yet or is in a    *)
(* state that the provider's state cannot replace, and no other event need   *)
(* follow.  A consumed event of a final state has its entry in the ledger,   *)
(* or a recon_break tells of it.                                             *)
FinalEventsAccountedFor ==
  \A k \in Keys :
    /\ Consumed(k, "settled") => <<k, "settled">> \in journal \/ HasBreak(k)
    /\ Consumed(k, "failed") /\ Flow[k] = "payout" =>
         <<k, "failed">> \in journal \/ HasBreak(k)

(* A payment the client got an answer for is not lost: once the provider     *)
(* settles it, the ledger settles it or a break reports it, provided that    *)
(* the pending account holds its amount from some moment on.  Without that   *)
(* every delivery is refused and neither is ever written.                    *)
SettlementReachesLedger ==
  \A k \in Keys :
    <>[](k \notin short) =>
      (payment[k] # Absent /\ Now(k) = "settled" ~> <<k, "settled">> \in journal \/ HasBreak(k))

(* docs/payments.md, Settlement State Machine: "Terminal states are not      *)
(* reopened."  Of webhooks, which webhook_state_can_apply() is to keep from  *)
(* that.                                                                     *)
WebhookKeepsTerminal ==
  [][\A s \in Sessions :
       CommitUpdate(s) /\ payment[On(s)] \in {"settled", "failed"}
         => payment'[On(s)] = payment[On(s)]]_payment

(* docs/ledger.md, Failed Payment: "If a pending top-up fails before         *)
(* settlement: Debit: member:{member_id}:wallet:pending:gbp."                *)
FailedTopupIsReturned ==
  \A k \in Keys :
    Flow[k] = "topup" /\ payment[k] = "failed" /\ <<k, "initiated">> \in journal
      => <<k, "failed">> \in journal

=============================================================================
