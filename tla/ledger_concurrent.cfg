SPECIFICATION QuerySpec
CONSTANTS
  w1 = w1
  w2 = w2
  AccountIds <- MCAccountIds
  Accounts <- MCAccounts
  AccountType <- MCAccountType
  ReadFirst = {"platform", "pending"}
  Keys <- MCKeys
  NoEntry = NoEntry
  Requests <- MCRequests
  Workers = {w1, w2}
  NoWorker = NoWorker
  Ranks = {1, 2}
  MaxStarts = 3
  Codes = {"pending", "available"}
  PostingId <- MCPostingId
  PageLimit = 1
  None = None
SYMMETRY WorkerSymmetry
CHECK_DEADLOCK FALSE
INVARIANT PagesAreComplete
INVARIANT StatementStands
INVARIANT StatementIsBalance
INVARIANT TypeOK
INVARIANT LiabilityNonNegative
INVARIANT SingleWriter
PROPERTY JournalIsAppendOnly
