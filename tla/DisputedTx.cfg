CONSTANTS
  p1 = p1
  p2 = p2
  p3 = p3
  p4 = p4
  Peers <- MCPeers
  Percents <- MCPercents
SYMMETRY Symmetry
SPECIFICATION DisputeSpec
INVARIANTS CountsMatchVotes AvalancheSettles
