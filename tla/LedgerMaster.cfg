CONSTANTS
  n1 = n1
  n2 = n2
  a1 = a1
  a2 = a2
  a3 = a3
  a4 = a4
  b2 = b2
  None = None
  Nodes <- TwoNodes
  AllValidations <- Votes
  Ledgers <- Tree
  SeqNo <- Numbers
  Parent <- Parents
  HashAt <- Path
  Start = a1
  Closable <- Second
  MinValidations = 1
  MaxLedgerGap = 2
  LedgerFetch = 2
  MaxBuilds = 1
  MaxFaults = 1
SPECIFICATION FairSpec
INVARIANTS PublishedIsBacked 
PROPERTIES PublishedInOrder PubCatchesUp
CHECK_DEADLOCK FALSE
