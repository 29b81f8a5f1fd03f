---- MODULE MCValidations ----
EXTENDS Validations, TLC
CONSTANTS n1, n2, A, B, C
TwoNodes == {n1, n2}
V(n, l, t) == [node |-> n, ledger |-> l, time |-> t]
\* n1 validates three ledgers, two of them in the same second, n2 two.
Votes == {V(n1, A, 1), V(n1, B, 2), V(n1, C, 2), V(n2, A, 1), V(n2, B, 2)}
====
