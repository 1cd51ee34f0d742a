-------------------------- MODULE MCLedgerQueries --------------------------
(* A small instance of Ledger with LedgerQueries: the wallet of a member     *)
(* whose pending money two entries move on, while there is enough for one,   *)
(* together with entries that post_entry() rejects.                          *)
EXTENDS LedgerQueries, TLC

CONSTANTS w1, w2

MCAccounts == {"platform", "pending", "available"}
MCAccountIds == MCAccounts \cup {"unknown"}
MCAccountType == [a \in MCAccounts |-> IF a = "platform" THEN "asset" ELSE "liability"]
MCKeys == {"initiated", "settled1", "settled2", "bad"}

\* The ids of an entry's postings are not in the order of its lines.
MCPostingId == "initiated" :> <<6, 3>> @@ "settled1" :> <<2, 4>> @@ "settled2" :> <<5, 1>> @@
               "bad" :> <<7, 8>>

WorkerSymmetry == Permutations(Workers)

Transfer(key, debit, credit, amount) ==
  [key |-> key, lines |-> <<[account |-> debit, side |-> "debit", amount |-> amount],
                            [account |-> credit, side |-> "credit", amount |-> amount]>>]

\* No lines, no amount, no such account, and sides that differ.
Rejected ==
  {[key |-> "bad", lines |-> <<>>],
   Transfer("bad", "platform", "pending", 0),
   Transfer("bad", "platform", "unknown", 1),
   [key |-> "bad", lines |-> <<[account |-> "platform", side |-> "debit", amount |-> 2],
                               [account |-> "pending", side |-> "credit", amount |-> 1]>>]}

MCRequests ==
  {Transfer("initiated", "platform", "pending", 1),
   Transfer("settled1", "pending", "available", 1),
   Transfer("settled2", "pending", "available", 1)} \cup Rejected

=============================================================================
