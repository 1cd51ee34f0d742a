------------------------------ MODULE MCLedger ------------------------------
(* Small instances of Ledger: three accounts, and the entries that a top-up, *)
(* a withdrawal, a circle contribution and a circle payout post, together    *)
(* with entries that post_entry() rejects.                                   *)
EXTENDS Ledger, TLC

Platform == "platform"
Available == "available"
Collected == "collected"

MCAccounts == {Platform, Available, Collected}
MCAccountIds == MCAccounts \cup {"unknown"}
MCAccountType == [a \in MCAccounts |-> IF a = Platform THEN "asset" ELSE "liability"]
MCKeys == {"contribution1", "contribution2", "payout", "topup", "withdrawal", "bad"}
MCRanks == 1..2

WorkerSymmetry == Permutations(Workers)

Transfer(debit, credit, amount) ==
  <<[account |-> debit, side |-> "debit", amount |-> amount],
    [account |-> credit, side |-> "credit", amount |-> amount]>>

Req(key, lines) == [key |-> key, lines |-> lines]

Contribution(key) == Req(key, Transfer(Platform, Collected, 2))
Payout == Req("payout", Transfer(Collected, Platform, 2))
Topup == Req("topup", Transfer(Platform, Available, 2))
Withdrawal == Req("withdrawal", Transfer(Available, Platform, 1))

Rejected ==
  {Req("bad", <<>>),
   Req("bad", Transfer(Platform, Collected, 0)),
   Req("bad", Transfer(Platform, "unknown", 1)),
   Req("bad", <<[account |-> Platform, side |-> "debit", amount |-> 2],
                [account |-> Collected, side |-> "credit", amount |-> 1]>>)}

MCRequests ==
  {Contribution("contribution1"), Contribution("contribution2"), Payout, Topup, Withdrawal} \cup Rejected

=============================================================================
