CONSTANTS
  n1 = n1
  n2 = n2
  A = A
  B = B
  C = C
  None = None
  Nodes <- TwoNodes
  AllValidations <- Votes
SPECIFICATION ValidationsFairSpec
INVARIANT Accounted
PROPERTY StaleImplements
CHECK_DEADLOCK FALSE
