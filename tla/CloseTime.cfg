CONSTANTS
  a = a
  b = b
  c = c
  d = d
  Nodes <- FourNodes
  Clocks <- SpreadClocks
  Percents <- MCPercents
SPECIFICATION FairSpec
INVARIANTS TypeOK VoteIsLargestGroup 
 
