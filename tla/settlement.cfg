SPECIFICATION FairSpec
CONSTANTS
  Keys <- MCKeys
  Flow <- MCFlow
  Rail <- MCRail
  Sessions = {s1, s2}
  MaxKeys = 1
  MaxRollbacks = 2
INVARIANT TypeOK
INVARIANT FinalEventsAccountedFor
PROPERTY TransfersMoveOnce
PROPERTY SettlementReachesLedger
CHECK_DEADLOCK FALSE
