SPECIFICATION Spec
CONSTANTS
  AccountIds <- MCAccountIds
  Accounts <- MCAccounts
  AccountType <- MCAccountType
  ReadFirst = {"platform", "available"}
  Keys <- MCKeys
  NoEntry = NoEntry
  Requests <- MCRequests
  Workers = {w1, w2}
  NoWorker = NoWorker
  Ranks <- MCRanks
  MaxStarts = 3
INVARIANT MaterializedIsReplay
CHECK_DEADLOCK FALSE
