SPECIFICATION Spec
CONSTANTS
  MemberCount = 2
  StartDate <- MCStart
  Sessions = {s1, s2}
  NoRow = NoRow
INVARIANTS TypeOK PayoutIsCovered LedgerPaysWhatWasSent RowsMatchJournal CompletedIsExplained
PROPERTY PayoutIsFinal
SYMMETRY SessionSymmetry
CHECK_DEADLOCK FALSE
