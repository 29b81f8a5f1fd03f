---- MODULE MCDisputedTx ----
EXTENDS DisputedTxVotes, TLC
CONSTANTS p1, p2, p3, p4
MCPeers == {p1, p2, p3, p4}
\* One value per threshold of the avalanche.
MCPercents == {0, 50, 85, 200}
Symmetry == Permutations(MCPeers)
====
