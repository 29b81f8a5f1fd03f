---- MODULE MCNodeStore ----
EXTENDS NodeStore, TLC
CONSTANTS c1, c2, r1, r2
OneClient == {c1}
TwoClients == {c1, c2}
OneReader == {r1}
TwoReaders == {r1, r2}
TwoKeys == {1, 2}
ThreeKeys == {1, 2, 3}
OneKey == {2}
====
