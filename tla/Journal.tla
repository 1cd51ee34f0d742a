------------------------------ MODULE Journal ------------------------------
(***************************************************************************)
(* What docs/ledger.md promises of the journal, without sessions, locks or *)
(* caches: a sequence of balanced entries that only ever grows, in which   *)
(* an idempotency key is used once and every entry but the first is linked *)
(* to an entry that was already there.                                     *)
(***************************************************************************)
EXTENDS Integers, Sequences

CONSTANTS
  NoEntry,      \* the link of the first entry
  Balanced(_)   \* which posting lists balance

VARIABLE journal

LinksBack(j, i) ==
  IF i = 1
  THEN j[i].prev = NoEntry
  ELSE \E h \in 1..(i - 1) : j[i].prev = j[h].key

GoodEntry(j, i) ==
  /\ Balanced(j[i].lines)
  /\ \A h \in 1..(i - 1) : j[h].key # j[i].key
  /\ LinksBack(j, i)

Init == journal = <<>>

(* A transaction adds the entries it posted, all of them or none.           *)
Extend ==
  /\ Len(journal') > Len(journal)
  /\ \A i \in 1..Len(journal) : journal'[i] = journal[i]
  /\ \A i \in (Len(journal) + 1)..Len(journal') : GoodEntry(journal', i)

Spec == Init /\ [][Extend]_journal

=============================================================================
