CONSTANTS
  p1 = p1
  p2 = p2
  v1 = v1
  A = A
  B = B
  t1 = t1
  t2 = t2
  t3 = t3
  f1 = f1
  Tx <- OneTx
  Peers <- OnePeer
  Validators <- OneValidator
  Ledgers <- OneLedger
  Sets <- SmallSets
  CloseTimes <- OneTime
  Resolution <- Res
  TargetProposers = 2
  PrevMs = 10000
  Instants <- ObserverClock
  VoteTx <- NoVoteTx
  FlagLedgers <- NoFlag
  LogInfo = TRUE
  MaxSeq = 3
  MaxProposals = 2
  MaxViewChanges = 0
  Unreliable = FALSE
  NoDispute = NoDispute
SPECIFICATION FairSpec
PROPERTY ObserverFollows
CHECK_DEADLOCK FALSE
