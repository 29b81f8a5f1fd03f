CONSTANTS
  a = a
  b = b
  c = c
  createC = createC
  fundB = fundB
  spendB = spendB
  spendC = spendC
  mergeB = mergeB
  backB = backB
  inflate = inflate
  late = late
  NoDest = NoDest
  Accounts <- MCAccounts
  Tx <- MCTx
  Body <- MCBody
  Reserve = 4
  InflationDest <- MCDest
  VoteFloor = 2
  Rate <- MCRate
  WinShare <- MCShare
  InflationsDue = 0
  MaxSet = 4
  PriorLedgers <- MCPrior
SPECIFICATION Spec
INVARIANTS Disposition CoinsConserved SequenceOrder QuietMeansDone NextInLineIsApplied
CHECK_DEADLOCK FALSE
