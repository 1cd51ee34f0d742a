---------------------------- MODULE MCSettlement ----------------------------
(* Payments of every provider that can serve them: a top-up at Stripe, and a *)
(* top-up and a withdrawal at TrueLayer.                                     *)
EXTENDS Settlement

MCKeys == {"card", "bank", "withdrawal"}
MCFlow == [k \in Keys |-> IF k = "withdrawal" THEN "payout" ELSE "topup"]
MCRail == [k \in Keys |-> IF k = "card" THEN "stripe" ELSE "truelayer"]

MCCards == {"card"}
=============================================================================
