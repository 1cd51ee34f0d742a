--------------------------- MODULE SettlementProofs ---------------------------
(***************************************************************************)
(* Proofs about Settlement, for any keys, rails, concurrent sessions and    *)
(* failed transactions: its types, that it implements Transfer, and that no *)
(* final event is consumed without a trace.                                 *)
(***************************************************************************)
EXTENDS Settlement, TLAPS

(* What a state or outcome seen earlier says about the provider now: a final *)
(* one stays.                                                                *)
Final == {"settled", "failed", "failed_late"}
Reported(k, state) == state \in Final => Now(k) = state

WebhookStates == {"fetched", "missing", "applies", "conflict", "updated"}

(* The provider was asked after it had issued the event.                    *)
Fetched(e, state) ==
  Outcome(e[1], e[2]) \in {"settled", "failed"} => state = Outcome(e[1], e[2])

(* What a session at work relies on: its event, what the provider said, and   *)
(* that a payment it found is there.                                         *)
WorkStands(s) ==
  /\ at[s] = "accepted" => event[s] \in Keys \X {Absent}
  /\ at[s] \in WebhookStates => event[s] \in sent /\ Fetched(event[s], got[s])
  /\ at[s] # "idle" => got[s] \in States /\ Reported(On(s), got[s])
  /\ at[s] \in {"applies", "conflict", "updated"} => payment[On(s)] # Absent

(* What the rows of a key say: a payment and its first entry are there        *)
(* together, before any other entry, and all of them tell what the provider   *)
(* has reached.                                                              *)
RowsStand(k) ==
  /\ Reported(k, payment[k])
  /\ payment[k] # Absent <=> <<k, "initiated">> \in journal
  /\ <<k, "settled">> \in journal => payment[k] # Absent /\ Reported(k, "settled")
  /\ <<k, "failed">> \in journal =>
       payment[k] # Absent /\ Reported(k, "failed") /\ Flow[k] = "payout"

EventsStand ==
  \A e \in sent : provider[e[1]] # Absent /\ Reported(e[1], Outcome(e[1], e[2]))

IInv ==
  /\ TypeOK
  /\ provider = [k \in Keys |-> provider[k]]
  /\ \A s \in Sessions : WorkStands(s)
  /\ \A k \in Keys : RowsStand(k)
  /\ EventsStand
  /\ FinalEventsAccountedFor

-----------------------------------------------------------------------------
(* The rails' maps and the meaning of a status agree on what is final.      *)
LEMMA StatusMeaning ==
  ASSUME NEW k \in Keys, NEW status \in Statuses(k)
  PROVE  /\ StateOf(k, status) \in States
         /\ StateOf(k, status) # Absent
         /\ \A final \in Final : StateOf(k, status) = final <=> Outcome(k, status) = final
<1> USE FlowAssumption, RailAssumption
<1> USE DEF Statuses, StateOf, Outcome, States, Absent, Final
<1>1. CASE Rail[k] = "stripe"
  BY <1>1 DEF Created, Steps, PaymentIntentSteps, map_payment_intent_state
<1>2. CASE Rail[k] = "truelayer" /\ Flow[k] = "topup"
  BY <1>2 DEF Created, Steps, PaymentSteps, map_payment_state
<1>3. CASE Rail[k] = "truelayer" /\ Flow[k] = "payout"
  BY <1>3 DEF Created, Steps, PayoutSteps, map_payout_state
<1>4. QED
  BY <1>1, <1>2, <1>3

LEMMA NoObjectYet == \A k \in Keys : Absent \notin Statuses(k) /\ Outcome(k, Absent) = "open"
  BY FlowAssumption, RailAssumption
  DEF Statuses, Created, Steps, PaymentIntentSteps, PaymentSteps, PayoutSteps, Outcome, Absent

(* An object that has come to its end goes no further.                       *)
LEMMA FinalStatus ==
  ASSUME NEW k \in Keys, NEW old, NEW new, <<old, new>> \in Steps(k)
  PROVE  new \in Statuses(k) /\ Outcome(k, old) \notin Final
<1> USE FlowAssumption, RailAssumption
<1> USE DEF Statuses, Outcome, Final
<1>1. CASE Rail[k] = "stripe"
  BY <1>1 DEF Created, Steps, PaymentIntentSteps
<1>2. CASE Rail[k] = "truelayer" /\ Flow[k] = "topup"
  BY <1>2 DEF Created, Steps, PaymentSteps
<1>3. CASE Rail[k] = "truelayer" /\ Flow[k] = "payout"
  BY <1>3 DEF Created, Steps, PayoutSteps
<1>4. QED
  BY <1>1, <1>2, <1>3

(* Whatever was reported of a key stays true while its object only moves on. *)
MovesOn(k) == Now(k) \in Final => Now(k)' = Now(k)

LEMMA ReportsKept ==
  ASSUME NEW k, NEW state, MovesOn(k), Reported(k, state)
  PROVE  Reported(k, state)'
  BY DEF MovesOn, Reported, Final

LEMMA SameProviderMovesOn == UNCHANGED provider => \A k : MovesOn(k)
  BY DEF MovesOn, Now, Outcome

(* The event of a session at work is of a key, and a webhook's is an event.  *)
LEMMA WorkTypes ==
  ASSUME TypeOK, NEW s \in Sessions, WorkStands(s), at[s] # "idle"
  PROVE  /\ On(s) \in Keys
         /\ at[s] \in WebhookStates => event[s] \in Events /\ event[s] = <<On(s), event[s][2]>>
<1>1. at[s] = "accepted" \/ at[s] \in WebhookStates
  BY DEF TypeOK, WebhookStates
<1>2. CASE at[s] = "accepted"
  BY <1>2 DEF WorkStands, On, WebhookStates
<1>3. CASE at[s] \in WebhookStates
  <2>1. event[s] \in Events
    BY <1>3 DEF TypeOK, WorkStands
  <2>2. QED
    BY <2>1 DEF On, Events
<1>4. QED
  BY <1>1, <1>2, <1>3

(* What a session relies on is not taken from it by others.                 *)
LEMMA OthersStand ==
  ASSUME IInv, NEW s \in Sessions,
         at'[s] = at[s], event'[s] = event[s], got'[s] = got[s],
         \A k \in Keys : MovesOn(k),
         sent \subseteq sent',
         \A k \in Keys : payment[k] # Absent => payment'[k] # Absent
  PROVE  WorkStands(s)'
<1>1. WorkStands(s)
  BY DEF IInv
<1>2. CASE at[s] = "idle"
  BY <1>2 DEF WorkStands, WebhookStates
<1>3. CASE at[s] # "idle"
  <2>1. On(s) \in Keys
    BY <1>1, <1>3, WorkTypes DEF IInv
  <2>2. Reported(On(s), got[s])'
    BY <1>1, <1>3, <2>1 DEF WorkStands, On, Reported, Final, MovesOn
  <2>3. QED
    BY <1>1, <1>3, <2>1, <2>2 DEF WorkStands, Fetched, On
<1>4. QED
  BY <1>2, <1>3

LEMMA OtherRowsStand ==
  ASSUME IInv, NEW k \in Keys, MovesOn(k), payment'[k] = payment[k],
         \A kind \in {"initiated", "settled", "failed"} :
           <<k, kind>> \in journal' <=> <<k, kind>> \in journal
  PROVE  RowsStand(k)'
  BY ReportsKept DEF IInv, RowsStand, Reported, Final

-----------------------------------------------------------------------------
LEMMA InitIInv == Init => IInv
<1> SUFFICES ASSUME Init PROVE IInv
  OBVIOUS
<1> USE DEF Init
<1>1. TypeOK
  BY BoundAssumption DEF TypeOK, NoEvent
<1>2. ASSUME NEW s \in Sessions PROVE WorkStands(s)
  BY DEF WorkStands, WebhookStates
<1>3. ASSUME NEW k \in Keys PROVE RowsStand(k)
  BY DEF RowsStand, Reported, Final, Absent
<1>4. EventsStand /\ FinalEventsAccountedFor
  BY DEF EventsStand, FinalEventsAccountedFor, Consumed
<1>5. QED
  BY <1>1, <1>2, <1>3, <1>4 DEF IInv

(* The object of a key moves on or is created, and what it has come to may    *)
(* be announced: all that was known before stays true.                       *)
LEMMA ObjectMoves ==
  ASSUME IInv, NEW k \in Keys, NEW status \in Statuses(k),
         provider' = [provider EXCEPT ![k] = status],
         \/ provider[k] = Absent
         \/ <<provider[k], status>> \in Steps(k),
         sent' \in {sent, sent \cup {<<k, status>>}},
         UNCHANGED <<events, payment, journal, breaks, short, rollbacks>>
  PROVE  /\ \A j \in Keys : MovesOn(j)
         /\ \A j \in Keys : provider'[j] \in Statuses(j) \cup {Absent}
         /\ provider' = [j \in Keys |-> provider'[j]]
         /\ sent \subseteq sent' /\ sent' \subseteq Events
         /\ \A j \in Keys : RowsStand(j)'
         /\ EventsStand'
         /\ FinalEventsAccountedFor'
<1>1. provider'[k] = status /\ \A j \in Keys \ {k} : provider'[j] = provider[j]
  BY DEF IInv
<1>2. \A j \in Keys : MovesOn(j)
  BY <1>1, FinalStatus, NoObjectYet DEF MovesOn, Now, Final
<1>3. /\ \A j \in Keys : provider'[j] \in Statuses(j) \cup {Absent}
      /\ provider' = [j \in Keys |-> provider'[j]]
  BY <1>1 DEF IInv, TypeOK
<1>4. sent \subseteq sent' /\ sent' \subseteq Events
  BY DEF IInv, TypeOK, Events
<1>5. ASSUME NEW j \in Keys PROVE RowsStand(j)'
  BY <1>2, OtherRowsStand
<1>6. EventsStand'
  <2>1. provider'[k] # Absent /\ Reported(k, Outcome(k, status))'
    BY <1>1, NoObjectYet DEF Reported, Final, Now
  <2>2. ASSUME NEW e \in sent PROVE provider'[e[1]] # Absent /\ Reported(e[1], Outcome(e[1], e[2]))'
    <3>1. e[1] \in Keys
      BY DEF IInv, TypeOK, Events
    <3>2. QED
      BY <1>1, <1>2, <2>1, <3>1, ReportsKept DEF IInv, EventsStand
  <2>3. QED
    BY <2>1, <2>2 DEF EventsStand
<1>7. FinalEventsAccountedFor'
  BY <1>2 DEF IInv, FinalEventsAccountedFor, Consumed, HasBreak, MovesOn
<1>8. QED
  BY <1>2, <1>3, <1>4, <1>5, <1>6, <1>7

LEMMA ProviderStepIInv ==
  ASSUME IInv, NEW k \in Keys, ProviderStep(k)
  PROVE  IInv'
<1>1. PICK status \in Statuses(k) :
        /\ <<provider[k], status>> \in Steps(k)
        /\ provider' = [provider EXCEPT ![k] = status]
        /\ sent' = sent \cup {<<k, status>>}
        /\ UNCHANGED <<events, payment, journal, breaks, at, event, got, short, rollbacks>>
  BY DEF ProviderStep
<1>2. /\ \A j \in Keys : MovesOn(j)
      /\ \A j \in Keys : provider'[j] \in Statuses(j) \cup {Absent}
      /\ provider' = [j \in Keys |-> provider'[j]]
      /\ sent \subseteq sent' /\ sent' \subseteq Events
      /\ \A j \in Keys : RowsStand(j)'
      /\ EventsStand'
      /\ FinalEventsAccountedFor'
  BY <1>1, ObjectMoves
<1>3. TypeOK'
  BY <1>1, <1>2 DEF IInv, TypeOK
<1>4. ASSUME NEW s \in Sessions PROVE WorkStands(s)'
  BY <1>1, <1>2, OthersStand
<1>5. QED
  BY <1>2, <1>3, <1>4 DEF IInv

(* A command is answered with the state the object was created in: its end,   *)
(* or no end at all.                                                         *)
LEMMA CallRailIInv ==
  ASSUME IInv, NEW s \in Sessions, NEW k \in Keys, CallRail(s, k)
  PROVE  IInv'
<1>1. /\ UNCHANGED <<events, payment, journal, breaks, short, rollbacks>>
      /\ at' = [at EXCEPT ![s] = "accepted"]
      /\ event' = [event EXCEPT ![s] = <<k, Absent>>]
      /\ CreateObject(k)
  BY DEF CallRail
<1>2. PICK answer \in Answers(k) : got' = [got EXCEPT ![s] = answer]
  BY DEF CallRail
<1>3. /\ \A j \in Keys : MovesOn(j)
      /\ \A j \in Keys : provider'[j] \in Statuses(j) \cup {Absent}
      /\ provider' = [j \in Keys |-> provider'[j]]
      /\ sent \subseteq sent' /\ sent' \subseteq Events
      /\ \A j \in Keys : RowsStand(j)'
      /\ EventsStand'
      /\ FinalEventsAccountedFor'
  <2>1. CASE provider[k] = Absent
    <3>1. PICK status \in Created(k) :
            /\ provider' = [provider EXCEPT ![k] = status]
            /\ sent' \in {sent, sent \cup {<<k, status>>}}
      BY <1>1, <2>1 DEF CreateObject
    <3>2. status \in Statuses(k)
      BY <3>1 DEF Statuses
    <3>3. QED
      BY <1>1, <2>1, <3>1, <3>2, ObjectMoves
  <2>2. CASE provider[k] # Absent
    <3>1. UNCHANGED <<provider, sent>>
      BY <1>1, <2>2 DEF CreateObject
    <3>2. \A j \in Keys : MovesOn(j)
      BY <3>1, SameProviderMovesOn
    <3>3. \A j \in Keys : RowsStand(j)'
      BY <1>1, <3>2, OtherRowsStand
    <3>4. EventsStand'
      BY <3>1 DEF IInv, EventsStand, Reported, Final, Now
    <3>5. FinalEventsAccountedFor'
      BY <1>1, <3>1 DEF IInv, FinalEventsAccountedFor, Consumed, HasBreak, Now
    <3>6. QED
      BY <3>1, <3>2, <3>3, <3>4, <3>5 DEF IInv, TypeOK
  <2>3. QED
    BY <2>1, <2>2
<1>4. provider'[k] \in Statuses(k)
  <2>1. CASE provider[k] = Absent
    BY <1>1, <2>1 DEF CreateObject, Statuses, IInv
  <2>2. CASE provider[k] # Absent
    BY <1>1, <2>2 DEF CreateObject, IInv, TypeOK
  <2>3. QED
    BY <2>1, <2>2
<1>5. answer \in States /\ Reported(k, answer)'
  <2>1. PICK status \in Created(k) :
          /\ answer = StateOf(k, status)
          /\ status = provider'[k] \/ ~IsFinal(k, status)
    BY <1>2 DEF Answers
  <2>2. status \in Statuses(k)
    BY <2>1 DEF Statuses
  <2>3. CASE status = provider'[k]
    BY <1>4, <2>1, <2>3, StatusMeaning DEF Reported, Final, Now
  <2>4. CASE ~IsFinal(k, status)
    <3>1. StateOf(k, status) \in States /\ StateOf(k, status) \notin Final
      <4>1. Outcome(k, status) # "failed_late"
        BY DEF Outcome
      <4>2. \A final \in Final : StateOf(k, status) = final <=> Outcome(k, status) = final
        BY <2>2, StatusMeaning
      <4>3. QED
        BY <2>2, <2>4, <4>1, <4>2, StatusMeaning DEF Final, IsFinal
    <3>2. answer \in States /\ answer \notin Final
      BY <2>1, <3>1
    <3>3. QED
      BY <3>2 DEF Reported
  <2>5. QED
    BY <2>1, <2>3, <2>4
<1>6. TypeOK'
  BY <1>1, <1>2, <1>3, <1>5 DEF IInv, TypeOK
<1>7. ASSUME NEW t \in Sessions PROVE WorkStands(t)'
  <2>1. CASE t = s
    <3>1. at'[s] = "accepted" /\ event'[s] = <<k, Absent>> /\ got'[s] = answer
      BY <1>1, <1>2 DEF IInv, TypeOK
    <3>2. QED
      BY <1>5, <2>1, <3>1 DEF WorkStands, WebhookStates, On, Reported, Final
  <2>2. CASE t # s
    BY <1>1, <1>2, <1>3, <2>2, OthersStand
  <2>3. QED
    BY <2>1, <2>2
<1>8. QED
  BY <1>3, <1>6, <1>7 DEF IInv

(* A session steps while the provider stands still: all other sessions and   *)
(* keys stay as they were.                                                   *)
LEMMA SessionStep ==
  ASSUME IInv, TypeOK', NEW s \in Sessions, UNCHANGED <<provider, sent>>,
         \A t \in Sessions \ {s} :
           at'[t] = at[t] /\ event'[t] = event[t] /\ got'[t] = got[t],
         \A k \in Keys : payment[k] # Absent => payment'[k] # Absent,
         WorkStands(s)',
         \A k \in Keys :
           \/ RowsStand(k)'
           \/ /\ payment'[k] = payment[k]
              /\ \A kind \in {"initiated", "settled", "failed"} :
                   <<k, kind>> \in journal' <=> <<k, kind>> \in journal,
         FinalEventsAccountedFor'
  PROVE  IInv'
<1>1. \A k \in Keys : MovesOn(k)
  BY SameProviderMovesOn
<1>2. \A t \in Sessions : WorkStands(t)'
  BY <1>1, OthersStand
<1>3. \A k \in Keys : RowsStand(k)'
  BY <1>1, OtherRowsStand
<1>4. EventsStand'
  BY DEF IInv, EventsStand, Reported, Final, Now
<1>5. QED
  BY <1>2, <1>3, <1>4 DEF IInv

LEMMA SameEventsAccountedFor ==
  ASSUME FinalEventsAccountedFor, UNCHANGED <<provider, events, breaks>>, journal \subseteq journal'
  PROVE  FinalEventsAccountedFor'
  BY DEF FinalEventsAccountedFor, Consumed, HasBreak, Now

-----------------------------------------------------------------------------
LEMMA ReceiveEventIInv ==
  ASSUME IInv, NEW s \in Sessions, NEW e \in Events, ReceiveEvent(s, e)
  PROVE  IInv'
<1>1. /\ at' = [at EXCEPT ![s] = "fetched"]
      /\ event' = [event EXCEPT ![s] = e]
      /\ got' = [got EXCEPT ![s] = StateOf(e[1], provider[e[1]])]
      /\ UNCHANGED <<provider, sent, events, payment, journal, breaks, short, rollbacks>>
      /\ e \in sent
  BY DEF ReceiveEvent, Acceptable
<1>2. e[1] \in Keys /\ e[2] \in Statuses(e[1]) /\ e = <<e[1], e[2]>>
  BY DEF Events
<1>3. Reported(e[1], Outcome(e[1], e[2]))
  BY <1>1 DEF IInv, EventsStand
<1>4. StateOf(e[1], provider[e[1]]) \in States /\ Reported(e[1], StateOf(e[1], provider[e[1]]))
      /\ Fetched(e, StateOf(e[1], provider[e[1]]))
  <2>1. provider[e[1]] \in Statuses(e[1])
    BY <1>1, <1>2 DEF IInv, TypeOK, EventsStand
  <2>2. QED
    BY <1>2, <1>3, <2>1, StatusMeaning DEF Reported, Final, Fetched, Now
<1>5. TypeOK'
  BY <1>1, <1>4 DEF IInv, TypeOK
<1>6. at'[s] = "fetched" /\ event'[s] = e /\ got'[s] = StateOf(e[1], provider[e[1]])
  BY <1>1 DEF IInv, TypeOK
<1>7. WorkStands(s)'
  BY <1>1, <1>4, <1>6 DEF WorkStands, Fetched, Reported, Final, Now, On
<1>8. FinalEventsAccountedFor'
  BY <1>1, SameEventsAccountedFor DEF IInv
<1>9. QED
  BY <1>1, <1>5, <1>7, <1>8, SessionStep DEF IInv, TypeOK

LEMMA CheckPaymentIInv ==
  ASSUME IInv, NEW s \in Sessions, CheckPayment(s)
  PROVE  IInv'
<1>1. /\ at[s] = "fetched"
      /\ at'[s] \in {"missing", "applies", "conflict"}
      /\ at'[s] \in {"applies", "conflict"} => payment[On(s)] # Absent
      /\ \A t \in Sessions \ {s} : at'[t] = at[t]
      /\ at' \in [Sessions -> {"idle", "accepted", "fetched", "missing", "applies",
                              "conflict", "updated"}]
      /\ UNCHANGED <<provider, sent, events, payment, journal, breaks, event, got, short, rollbacks>>
  BY DEF CheckPayment, IInv, TypeOK
<1>2. TypeOK'
  BY <1>1 DEF IInv, TypeOK
<1>3. WorkStands(s)'
  BY <1>1 DEF IInv, WorkStands, WebhookStates, Fetched, Reported, Final, Now, On
<1>4. FinalEventsAccountedFor'
  BY <1>1, SameEventsAccountedFor DEF IInv
<1>5. QED
  BY <1>1, <1>2, <1>3, <1>4, SessionStep

LEMMA UpdatePaymentIInv ==
  ASSUME IInv, NEW s \in Sessions, UpdatePayment(s)
  PROVE  IInv'
<1>1. /\ at[s] = "applies"
      /\ at' = [at EXCEPT ![s] = "updated"]
      /\ UNCHANGED <<provider, sent, events, payment, journal, breaks, event, got, short, rollbacks>>
  BY DEF UpdatePayment
<1>2. TypeOK'
  BY <1>1 DEF IInv, TypeOK
<1>3. WorkStands(s)'
  BY <1>1 DEF IInv, TypeOK, WorkStands, WebhookStates, Fetched, Reported, Final, Now, On
<1>4. FinalEventsAccountedFor'
  BY <1>1, SameEventsAccountedFor DEF IInv
<1>5. QED
  BY <1>1, <1>2, <1>3, <1>4, SessionStep DEF IInv, TypeOK

LEMMA Closed ==
  ASSUME TypeOK, NEW s \in Sessions, Close(s)
  PROVE  /\ at' \in [Sessions -> {"idle", "accepted", "fetched", "missing", "applies",
                                  "conflict", "updated"}]
         /\ event' \in [Sessions -> Events \cup {NoEvent} \cup Keys \X {Absent}]
         /\ got' \in [Sessions -> States \cup {Absent}]
         /\ at'[s] = "idle"
         /\ \A t \in Sessions \ {s} :
              at'[t] = at[t] /\ event'[t] = event[t] /\ got'[t] = got[t]
         /\ WorkStands(s)'
<1>1. at'[s] = "idle"
  BY DEF Close, TypeOK
<1>2. WorkStands(s)'
  BY <1>1 DEF WorkStands, WebhookStates
<1>3. QED
  BY <1>1, <1>2 DEF Close, TypeOK

(* Giving up, by an error or because the other command was first.           *)
LEMMA GiveUpIInv ==
  ASSUME IInv, NEW s \in Sessions, Close(s), rollbacks' \in 0..MaxRollbacks,
         UNCHANGED <<provider, sent, events, payment, journal, breaks, short>>
  PROVE  IInv'
<1>1. TypeOK'
  BY Closed DEF IInv, TypeOK
<1>2. FinalEventsAccountedFor'
  BY SameEventsAccountedFor DEF IInv
<1>3. QED
  BY <1>1, <1>2, Closed, SessionStep DEF IInv

LEMMA CommitCommandIInv ==
  ASSUME IInv, NEW s \in Sessions, CommitCommand(s)
  PROVE  IInv'
<1>1. PICK k : /\ k = On(s)
               /\ at[s] = "accepted"
               /\ payment[k] = Absent
               /\ payment' = [payment EXCEPT ![k] = got[s]]
               /\ journal' = journal \cup {<<k, "initiated">>}
               /\ Close(s)
               /\ UNCHANGED <<provider, sent, events, breaks, short, rollbacks>>
  BY DEF CommitCommand
<1>2. k \in Keys /\ got[s] \in States /\ Reported(k, got[s])
  BY <1>1, WorkTypes DEF IInv, WorkStands
<1>3. Absent \notin States
  BY DEF Absent, States
<1>4. TypeOK'
  BY <1>1, <1>2, Closed DEF IInv, TypeOK
<1>5. RowsStand(k)'
  BY <1>1, <1>2, <1>3 DEF IInv, TypeOK, RowsStand, Reported, Final, Now
<1>6. FinalEventsAccountedFor'
  BY <1>1, SameEventsAccountedFor DEF IInv
<1>7. \A j \in Keys \ {k} :
        /\ payment'[j] = payment[j]
        /\ \A kind \in {"initiated", "settled", "failed"} :
             <<j, kind>> \in journal' <=> <<j, kind>> \in journal
  BY <1>1 DEF IInv, TypeOK
<1>8. QED
  BY <1>1, <1>4, <1>5, <1>6, <1>7, Closed, SessionStep DEF IInv

LEMMA OverwritePaymentIInv ==
  ASSUME IInv, NEW s \in Sessions, OverwritePayment(s)
  PROVE  IInv'
<1>1. PICK k : /\ k = On(s)
               /\ at[s] = "accepted"
               /\ payment[k] # Absent
               /\ payment' = [payment EXCEPT ![k] = got[s]]
               /\ Close(s)
               /\ UNCHANGED <<provider, sent, events, journal, breaks, short, rollbacks>>
  BY DEF OverwritePayment
<1>2. k \in Keys /\ got[s] \in States /\ Reported(k, got[s])
  BY <1>1, WorkTypes DEF IInv, WorkStands
<1>3. Absent \notin States
  BY DEF Absent, States
<1>4. TypeOK'
  BY <1>1, <1>2, Closed DEF IInv, TypeOK
<1>5. RowsStand(k)'
  BY <1>1, <1>2, <1>3 DEF IInv, TypeOK, RowsStand, Reported, Final, Now
<1>6. FinalEventsAccountedFor'
  BY <1>1, SameEventsAccountedFor DEF IInv
<1>7. \A j \in Keys : j # k => payment'[j] = payment[j]
  BY <1>1 DEF IInv, TypeOK
<1>8. QED
  BY <1>1, <1>2, <1>3, <1>4, <1>5, <1>6, <1>7, Closed, SessionStep DEF IInv, TypeOK

(* The entry that is due is of the key and of what was reported of it.       *)
LEMMA DueEntries ==
  ASSUME IInv, NEW k \in Keys, NEW state, Reported(k, state)
  PROVE  /\ EntriesDue(k, state) \subseteq Keys \X {"initiated", "settled", "failed"}
         /\ <<k, "initiated">> \notin EntriesDue(k, state)
         /\ \A j \in Keys \ {k}, kind \in {"initiated", "settled", "failed"} :
              <<j, kind>> \notin EntriesDue(k, state)
         /\ <<k, "settled">> \in EntriesDue(k, state) <=> state = "settled"
         /\ <<k, "failed">> \in EntriesDue(k, state)
              <=> Flow[k] = "payout" /\ state = "failed"
<1>1. state = "failed" => <<k, "settled">> \notin journal
  BY DEF IInv, RowsStand, Reported, Final
<1>2. QED
  BY <1>1 DEF EntriesDue

LEMMA CommitUpdateIInv ==
  ASSUME IInv, NEW s \in Sessions, CommitUpdate(s)
  PROVE  IInv'
<1>1. PICK k : /\ k = On(s)
               /\ at[s] = "updated"
               /\ payment' = [payment EXCEPT ![k] = got[s]]
               /\ journal' = journal \cup EntriesDue(k, got[s])
               /\ events' = events \cup {event[s]}
               /\ Close(s)
               /\ UNCHANGED <<provider, sent, breaks, short, rollbacks>>
  BY DEF CommitUpdate
<1>2. /\ k \in Keys /\ got[s] \in States /\ Reported(k, got[s])
      /\ event[s] \in sent /\ Fetched(event[s], got[s]) /\ event[s][1] = k
      /\ payment[k] # Absent
  BY <1>1, WorkTypes DEF IInv, WorkStands, WebhookStates, On
<1>3. Absent \notin States
  BY DEF Absent, States
<1>4. TypeOK'
  BY <1>1, <1>2, Closed, DueEntries DEF IInv, TypeOK
<1>5. RowsStand(k)'
  <2>1. RowsStand(k) /\ payment'[k] = got[s]
    BY <1>1, <1>2 DEF IInv, TypeOK
  <2>2. QED
    BY <1>1, <1>2, <1>3, <2>1, DueEntries DEF RowsStand, Reported, Final, Now
<1>6. FinalEventsAccountedFor'
  <2>1. FinalEventsAccountedFor /\ journal \subseteq journal'
    BY <1>1 DEF IInv
  <2>2. ASSUME Outcome(k, event[s][2]) = "settled"
        PROVE  <<k, "settled">> \in journal'
    BY <1>1, <1>2, <2>2, DueEntries DEF Fetched, Reported, Final, Now
  <2>3. ASSUME Outcome(k, event[s][2]) = "failed", Flow[k] = "payout"
        PROVE  <<k, "failed">> \in journal'
    BY <1>1, <1>2, <2>3, DueEntries DEF Fetched
  <2>4. QED
    BY <1>1, <1>2, <2>1, <2>2, <2>3 DEF FinalEventsAccountedFor, Consumed, HasBreak, Now
<1>7. \A j \in Keys \ {k} :
        /\ payment'[j] = payment[j]
        /\ \A kind \in {"initiated", "settled", "failed"} :
             <<j, kind>> \in journal' <=> <<j, kind>> \in journal
  <2>1. \A j \in Keys \ {k} : payment'[j] = payment[j]
    BY <1>1 DEF IInv, TypeOK
  <2>2. QED
    BY <1>1, <1>2, <2>1, DueEntries
<1>8. \A j \in Keys : payment[j] # Absent => payment'[j] # Absent
  BY <1>1, <1>2, <1>3, <1>7 DEF IInv, TypeOK
<1>9. QED
  BY <1>1, <1>4, <1>5, <1>6, <1>7, <1>8, Closed, SessionStep DEF IInv

LEMMA CommitBreakIInv ==
  ASSUME IInv, NEW s \in Sessions, CommitBreak(s)
  PROVE  IInv'
<1>1. PICK k : /\ k = On(s)
               /\ at[s] \in {"missing", "conflict"}
               /\ breaks' = breaks \cup {<<k, at[s]>>}
               /\ journal' = journal \cup EntriesDue(k, payment[k])
               /\ events' = events \cup {event[s]}
               /\ Close(s)
               /\ UNCHANGED <<provider, sent, payment, short, rollbacks>>
  BY DEF CommitBreak, RecordBreak
<1>2. k \in Keys /\ event[s] \in sent /\ event[s][1] = k
  BY <1>1, WorkTypes DEF IInv, WorkStands, WebhookStates, On
<1>3. RowsStand(k) /\ Reported(k, payment[k])
  BY <1>2 DEF IInv, RowsStand
<1>4. TypeOK'
  <2>1. journal' \subseteq Keys \X {"initiated", "settled", "failed"}
    BY <1>1, <1>2, <1>3, DueEntries DEF IInv, TypeOK
  <2>2. breaks' \subseteq Keys \X {"missing", "conflict"}
    BY <1>1, <1>2 DEF IInv, TypeOK
  <2>3. QED
    BY <1>1, <1>2, <2>1, <2>2, Closed DEF IInv, TypeOK
<1>5. RowsStand(k)'
  BY <1>1, <1>2, <1>3, DueEntries DEF RowsStand, Reported, Final, Now, Absent
<1>6. FinalEventsAccountedFor'
  BY <1>1, <1>2 DEF IInv, FinalEventsAccountedFor, Consumed, HasBreak, Now
<1>7. \A j \in Keys \ {k} :
        \A kind \in {"initiated", "settled", "failed"} :
          <<j, kind>> \in journal' <=> <<j, kind>> \in journal
  BY <1>1, <1>2, <1>3, DueEntries
<1>8. QED
  BY <1>1, <1>4, <1>5, <1>6, <1>7, Closed, SessionStep DEF IInv

(* The pending account is no part of what the rows and sessions stand on.    *)
LEMMA PendingChangesIInv ==
  ASSUME IInv, NEW k \in Keys, PendingChanges(k)
  PROVE  IInv'
<1>1. /\ short' \in SUBSET Keys
      /\ UNCHANGED <<provider, sent, events, payment, journal, breaks, at, event, got, rollbacks>>
  BY DEF PendingChanges, IInv, TypeOK
<1>2. QED
  BY <1>1 DEF IInv, TypeOK, WorkStands, RowsStand, EventsStand, Reported, Final, Fetched, On,
     FinalEventsAccountedFor, Consumed, HasBreak, Now

-----------------------------------------------------------------------------
LEMMA NextIInv == IInv /\ [Next]_vars => IInv'
<1> SUFFICES ASSUME IInv, [Next]_vars PROVE IInv'
  OBVIOUS
<1>1. ASSUME NEW k \in Keys, ProviderStep(k) \/ PendingChanges(k) PROVE IInv'
  BY <1>1, ProviderStepIInv, PendingChangesIInv
<1>2. ASSUME NEW s \in Sessions, Command(s) PROVE IInv'
  <2>1. ASSUME DuplicateCommand(s) PROVE IInv'
    BY <2>1, GiveUpIInv DEF DuplicateCommand, IInv, TypeOK
  <2>2. QED
    BY <1>2, <2>1, CallRailIInv, CommitCommandIInv, OverwritePaymentIInv
    DEF Command, AnswerCommand
<1>3. ASSUME NEW s \in Sessions, Webhook(s) PROVE IInv'
  <2>1. ASSUME RefuseEntry(s) PROVE IInv'
    BY <2>1, GiveUpIInv DEF RefuseEntry, IInv, TypeOK
  <2>2. QED
    BY <1>3, <2>1, CheckPaymentIInv, UpdatePaymentIInv, CommitUpdateIInv, CommitBreakIInv
    DEF Webhook
<1>4. ASSUME NEW s \in Sessions, Rollback(s) PROVE IInv'
  <2>1. rollbacks' \in 0..MaxRollbacks
    BY <1>4, BoundAssumption DEF Rollback, IInv, TypeOK
  <2>2. QED
    BY <1>4, <2>1, GiveUpIInv DEF Rollback
<1>5. ASSUME NEW s \in Sessions, NEW e \in Events, ReceiveEvent(s, e) PROVE IInv'
  BY <1>5, ReceiveEventIInv
<1>6. CASE UNCHANGED vars
  BY <1>6 DEF IInv, vars, TypeOK, WorkStands, RowsStand, EventsStand, Reported, Final, Fetched, On,
     FinalEventsAccountedFor, Consumed, HasBreak, Now
<1>7. QED
  BY <1>1, <1>2, <1>3, <1>4, <1>5, <1>6 DEF Next

(* In every run IInv holds in every state.                                  *)
THEOREM Invariance == Spec => []IInv
  BY InitIInv, NextIInv, PTL DEF Spec

(* The rows, the events and the work of the sessions have their types, and no *)
(* webhook stores an event that its provider did not send.                   *)
THEOREM TypeCorrect == Spec => []TypeOK
<1>1. IInv => TypeOK
  BY DEF IInv
<1>2. QED
  BY <1>1, Invariance, PTL

(* A webhook that answers 2xx for a final status has posted its entry or      *)
(* written a recon_break, whatever the other sessions did between its reads   *)
(* and its commit.                                                           *)
THEOREM FinalEventsAccounted == Spec => []FinalEventsAccountedFor
<1>1. IInv => FinalEventsAccountedFor
  BY DEF IInv
<1>2. QED
  BY <1>1, Invariance, PTL

-----------------------------------------------------------------------------
(* Transfer: a commit that posts an entry moves the money of its key once.   *)

LEMMA SameStage ==
  ASSUME NEW k,
         \A kind \in {"initiated", "settled", "failed"} :
           <<k, kind>> \in journal' <=> <<k, kind>> \in journal
  PROVE  Stage(k)' = Stage(k)
  BY DEF Stage

(* One key goes to another stage and the rest stay where they were.          *)
LEMMA StageMoves ==
  ASSUME NEW k \in Keys, NEW to, Stage(k)' = to,
         \A j \in Keys \ {k} : Stage(j)' = Stage(j)
  PROVE  [j \in Keys |-> Stage(j)]' = [[j \in Keys |-> Stage(j)] EXCEPT ![k] = to]
  BY Zenon

LEMMA DueEntryMoves ==
  ASSUME IInv, NEW k \in Keys, NEW state, Reported(k, state),
         state \in {"settled", "failed"} => payment[k] # Absent,
         journal' = journal \cup EntriesDue(k, state)
  PROVE  [T!Next]_([j \in Keys |-> Stage(j)])
<1>1. \A j \in Keys \ {k} : Stage(j)' = Stage(j)
  BY DueEntries, SameStage
<1>2. RowsStand(k)
  BY DEF IInv
<1>3. CASE state = "settled" /\ <<k, "settled">> \notin journal
  <2>1. Stage(k) = "pending" /\ Stage(k)' = "settled"
    <3>1. <<k, "initiated">> \in journal /\ <<k, "failed">> \notin journal
      BY <1>2, <1>3 DEF RowsStand, Reported, Final
    <3>2. <<k, "settled">> \in journal'
      BY <1>3, DueEntries
    <3>3. QED
      BY <1>3, <3>1, <3>2 DEF Stage
  <2>2. Now(k) = "settled"
    BY <1>3 DEF Reported, Final
  <2>3. T!Settle(k)
    BY <1>1, <2>1, <2>2, StageMoves DEF T!Settle, T!Move
  <2>4. QED
    BY <2>3 DEF T!Next
<1>4. CASE state = "failed" /\ Flow[k] = "payout" /\ <<k, "failed">> \notin journal
  <2>1. Stage(k) = "pending" /\ Stage(k)' = "returned"
    <3>1. <<k, "initiated">> \in journal /\ <<k, "settled">> \notin journal
      BY <1>2, <1>4 DEF RowsStand, Reported, Final
    <3>2. <<k, "failed">> \in journal' /\ <<k, "settled">> \notin journal'
      BY <1>4, <3>1, DueEntries
    <3>3. QED
      BY <1>4, <3>1, <3>2 DEF Stage
  <2>2. Now(k) = "failed"
    BY <1>4 DEF Reported, Final
  <2>3. T!Return(k)
    BY <1>1, <1>4, <2>1, <2>2, StageMoves DEF T!Return, T!Move
  <2>4. QED
    BY <2>3 DEF T!Next
<1>5. CASE /\ ~(state = "settled" /\ <<k, "settled">> \notin journal)
           /\ ~(state = "failed" /\ Flow[k] = "payout" /\ <<k, "failed">> \notin journal)
  <2>1. Stage(k)' = Stage(k)
    BY <1>5, DueEntries, SameStage
  <2>2. QED
    BY <1>1, <2>1
<1>6. QED
  BY <1>3, <1>4, <1>5

(* The pipeline of commands and webhooks implements Transfer: over any number *)
(* of repeated commands, repeated and overtaking events and transactions that *)
(* fail, the money of a key becomes pending once and leaves pending once, to  *)
(* the end that its provider has reached by then.                            *)
THEOREM Refinement == Spec => TransfersMoveOnce
<1>1. Init => T!Init
  BY DEF Init, T!Init, Stage
<1>2. ASSUME IInv, [Next]_vars PROVE [T!Next]_([k \in Keys |-> Stage(k)])
  <2>1. ASSUME NEW s \in Sessions, CommitCommand(s)
        PROVE  [T!Next]_([k \in Keys |-> Stage(k)])
    <3>1. PICK k : k = On(s) /\ at[s] = "accepted" /\ payment[k] = Absent
                   /\ journal' = journal \cup {<<k, "initiated">>}
      BY <2>1 DEF CommitCommand
    <3>2. k \in Keys /\ RowsStand(k)
      BY <1>2, <3>1, WorkTypes DEF IInv
    <3>3. Stage(k) = "absent" /\ Stage(k)' = "pending"
      BY <3>1, <3>2 DEF RowsStand, Stage
    <3>4. \A j \in Keys \ {k} : Stage(j)' = Stage(j)
      BY <3>1, SameStage
    <3>5. T!Start(k)
      BY <3>2, <3>3, <3>4, StageMoves DEF T!Start, T!Move
    <3>6. QED
      BY <3>2, <3>5 DEF T!Next
  <2>2. ASSUME NEW s \in Sessions, CommitUpdate(s)
        PROVE  [T!Next]_([k \in Keys |-> Stage(k)])
    <3>1. PICK k : k = On(s) /\ at[s] = "updated"
                   /\ journal' = journal \cup EntriesDue(k, got[s])
      BY <2>2 DEF CommitUpdate
    <3>2. k \in Keys /\ Reported(k, got[s]) /\ payment[k] # Absent
      BY <1>2, <3>1, WorkTypes DEF IInv, WorkStands
    <3>3. QED
      BY <1>2, <3>1, <3>2, DueEntryMoves
  <2>3. ASSUME NEW s \in Sessions, CommitBreak(s)
        PROVE  [T!Next]_([k \in Keys |-> Stage(k)])
    <3>1. PICK k : k = On(s) /\ at[s] \in {"missing", "conflict"}
                   /\ journal' = journal \cup EntriesDue(k, payment[k])
      BY <2>3 DEF CommitBreak
    <3>2. k \in Keys /\ Reported(k, payment[k])
      BY <1>2, <3>1, WorkTypes DEF IInv, RowsStand
    <3>3. payment[k] \in {"settled", "failed"} => payment[k] # Absent
      BY DEF Absent
    <3>4. QED
      BY <1>2, <3>1, <3>2, <3>3, DueEntryMoves
  <2>4. CASE UNCHANGED journal
    BY <2>4 DEF Stage
  <2>5. QED
    BY <1>2, <2>1, <2>2, <2>3, <2>4
    DEF Next, vars, ProviderStep, Command, AnswerCommand, CallRail, DuplicateCommand,
        OverwritePayment, Webhook, CheckPayment, UpdatePayment, RefuseEntry, PendingChanges,
        Rollback, ReceiveEvent
<1>3. QED
  BY <1>1, <1>2, Invariance, PTL DEF Spec, TransfersMoveOnce, T!Spec

=============================================================================
