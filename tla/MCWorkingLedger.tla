-------------------------- MODULE MCWorkingLedger ---------------------------
EXTENDS WorkingLedger, TLC
CONSTANTS a, o

\* A chain of three ledgers and a fork of the second.
MCState ==
  "l1" :> (a :> 1 @@ o :> Absent) @@ "l2" :> (a :> 2 @@ o :> 1) @@
  "l3" :> (a :> 2 @@ o :> Absent) @@ "f2" :> (a :> 1 @@ o :> 2)
MCParent == "l1" :> "none" @@ "l2" :> "l1" @@ "l3" :> "l2" @@ "f2" :> "l1"
=============================================================================
