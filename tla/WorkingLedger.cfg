CONSTANTS
  a = a
  o = o
  Ledgers = {"l1", "l2", "l3", "f2"}
  None = "none"
  Entries = {a, o}
  Values = {0, 1, 2}
  Absent = 0
  State <- MCState
  Parent <- MCParent
SPECIFICATION Spec
INVARIANTS TypeOK DiskMatchesMarker MemoryMatchesDisk
PROPERTY MarkerGuardsTables
