------------------------------ MODULE Transfer ------------------------------
(***************************************************************************)
(* What a wallet command promises for the money of its key: it becomes     *)
(* pending once, and leaves pending once, to the end that the provider has *)
(* reported.                                                               *)
(***************************************************************************)
CONSTANTS Keys, Flow
VARIABLES
  provider,  \* the provider's state of each key's object
  stage      \* "absent", "pending", "settled" or "returned"

Init == stage = [k \in Keys |-> "absent"]

Move(k, from, to) ==
  /\ stage[k] = from
  /\ stage' = [stage EXCEPT ![k] = to]

Start(k) == Move(k, "absent", "pending")

Settle(k) ==
  /\ provider[k] = "settled"
  /\ Move(k, "pending", "settled")

Return(k) ==
  /\ provider[k] = "failed"
  /\ Flow[k] = "payout"
  /\ Move(k, "pending", "returned")

Next == \E k \in Keys : Start(k) \/ Settle(k) \/ Return(k)

Spec == Init /\ [][Next]_stage

=============================================================================
