------------------------ MODULE MCApplyTransactions ------------------------
(* Three accounts: a pays, b is poor, c does not exist at first.           *)
EXTENDS ApplyTransactions, TLC

CONSTANTS a, b, c, createC, fundB, spendB, spendC, mergeB, backB, inflate, late

Pay(from, n, to, amt, flt) ==
  [type |-> "pay", account |-> from, seq |-> n, fee |-> 1, dst |-> to,
   amount |-> amt, inflateSeq |-> 0, fault |-> flt]

MCBody ==
  (createC :> Pay(a, 3, c, 6, "none"))
  @@ (fundB :> Pay(a, 4, b, 5, "none"))
  @@ (spendB :> Pay(b, 1, c, 4, "none"))
  @@ (spendC :> Pay(c, 1, b, 1, "regular key"))
  @@ (mergeB :> [Pay(b, 1, a, 0, "none") EXCEPT !.type = "merge"])
  @@ (backB :> Pay(a, 5, b, 4, "none"))
  @@ (inflate :> [Pay(a, 4, a, 0, "authority") EXCEPT !.type = "inflate", !.fee = 0])
  @@ (late :> Pay(a, 3, b, 4, "expired"))

Prior(poor) ==
  [bal |-> (a :> 25) @@ (b :> poor) @@ (c :> 0),
   seq |-> (a :> 3) @@ (b :> 1) @@ (c :> 0),
   coins |-> 25 + poor, feePool |-> 3, inflationSeq |-> 0, txs |-> <<>>]

MCAccounts == {a, b, c}
MCTx == {createC, fundB, spendB, spendC, mergeB, backB, inflate, late}
MCDest == (a :> b) @@ (b :> c) @@ (c :> NoDest)
MCPrior == {Prior(5), Prior(0)}
MCRate == <<1, 5>>
MCShare == <<1, 4>>
=============================================================================
