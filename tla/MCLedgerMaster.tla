---- MODULE MCLedgerMaster ----
EXTENDS LedgerMaster, TLC
CONSTANTS n1, n2, a1, a2, a3, a4, b2
TwoNodes == {n1, n2}
\* a chain of four ledgers, and a fork of the second
Tree == {a1, a2, a3, a4, b2}
Numbers == (a1 :> 1 @@ a2 :> 2 @@ a3 :> 3 @@ a4 :> 4 @@ b2 :> 2)
Parents == (a1 :> None @@ a2 :> a1 @@ a3 :> a2 @@ a4 :> a3 @@ b2 :> a1)
Path[l \in Tree] ==
  [s \in 1 .. Numbers[l] |-> IF s = Numbers[l] THEN l ELSE Path[Parents[l]][s]]
V(n, l, t) == [node |-> n, ledger |-> l, time |-> t]
Votes == {V(n1, b2, 2), V(n2, b2, 2), V(n1, a4, 4)}
Second == {a2, b2}
====
