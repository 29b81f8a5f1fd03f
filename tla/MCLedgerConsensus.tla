---- MODULE MCLedgerConsensus ----
EXTENDS LedgerConsensus, TLC
CONSTANTS p1, p2, v1, A, B, t1, t2, t3, f1
OneTx == {t1}
ThreeTx == {t1, t2, t3}
TwoTx == {t1, t2}
OnePeer == {p1}
TwoPeers == {p1, p2}
OneValidator == {v1}
TwoLedgers == {A, B}
OneLedger == {A}
NoVoteTx == {}
FeeTx == {f1}
NoFlag == {}
FlagA == {A}
SmallSets == {{}, {t1}}
CommonSets == {{t3}, {t1, t3}, {t2, t3}}
SplitSets == {{t1}, {t2}}
OneTime == {60}
Res == [l \in Ledgers |-> 30]
\* 0%, 40% and 200% of the last round, and on both sides of the minimum times
ShortClock == {0, 4000, 20000}
ObserverClock == {0, 4000}
Symmetry == Permutations(Peers) \cup Permutations(Ledgers)
====
