CONSTANTS
  c1 = c1
  c2 = c2
  r1 = r1
  r2 = r2
  Objects <- OneKey
  Posted <- ThreeKeys
  MaxCalls = 3
  Clients <- TwoClients
  Readers <- OneReader
  MaxEvictions = 1
SPECIFICATION FairSpec
INVARIANT MissedOnlyIfEvicted
PROPERTIES  WaitCoversPosted WaitersReturn
CHECK_DEADLOCK FALSE
