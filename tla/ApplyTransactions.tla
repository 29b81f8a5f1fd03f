------------------------- MODULE ApplyTransactions -------------------------
(***************************************************************************)
(* How the transaction set of a round becomes the next closed ledger:      *)
(* LedgerConsensus::applyTransactions (a first pass in hash order, then up *)
(* to three passes in canonical order), the transaction engine, and the    *)
(* transactors that move STR: Payment (direct), AccountMerge, Inflation.   *)
(*                                                                         *)
(* A ledger is the balances and sequence numbers of the accounts (sequence *)
(* 0: there is no such account), the coins in existence, the fee pool, the *)
(* number of the next inflation and the transactions applied so far.  A    *)
(* result code (TER) is its class: "tes", "tec", "ter", "tef", "tem",      *)
(* "tel".  An account owns nothing but STR, so its reserve is getReserve(0).*)
(***************************************************************************)
EXTENDS Integers, Sequences, FiniteSets, Functions

CONSTANTS
  Accounts,
  Tx,            \* ids of the transactions
  Body,          \* [Tx -> the fields of a transaction, see BodyAssumption]
  Reserve,       \* Ledger::getReserve (0)
  InflationDest, \* the account each account votes for, or NoDest
  NoDest,
  VoteFloor,     \* a smaller balance than this has no vote
  Rate,          \* <<n, d>>: n / d of the coins are doled out
  InflationsDue, \* the last inflation whose time has come by the parent's close
  WinShare,      \* <<n, d>>: votes above n / d of the coins win
  MaxSet,        \* bound: transactions in a set
  PriorLedgers   \* the ledgers that the new ledger may start from

LEDGER_TOTAL_PASSES == 3
LEDGER_RETRY_PASSES == 2

Faults == {"none", "signature", "expired", "authority", "regular key"}
Ledgers ==
  [bal : [Accounts -> Nat], seq : [Accounts -> Nat], coins : Nat, feePool : Nat,
   inflationSeq : Nat, txs : Seq([id : Tx, claimed : BOOLEAN])]

Bodies ==
  [type : {"pay", "merge", "inflate"}, account : Accounts, seq : Nat \ {0},
   fee : Nat, dst : Accounts, amount : Nat, inflateSeq : Nat, fault : Faults]

ASSUME FiniteAssumption == IsFiniteSet(Accounts)
ASSUME TxAssumption == IsFiniteSet(Tx)
ASSUME BodyAssumption == Body \in [Tx -> Bodies]
ASSUME DestAssumption == InflationDest \in [Accounts -> Accounts \cup {NoDest}]
ASSUME ReserveAssumption == Reserve \in Nat
ASSUME ShareAssumption ==
  Rate \in Nat \X (Nat \ {0}) /\ WinShare \in Nat \X (Nat \ {0})
\* The copy of a closed ledger: no transactions yet, and its books are even.
ASSUME PriorAssumption ==
  PriorLedgers \subseteq
    {L \in Ledgers : L.txs = <<>> /\ L.coins = SumFunction(L.bal)}

VARIABLES
  prior,         \* the ledger the new one was copied from
  set,           \* the transactions the round agreed on
  accountOrder,  \* the accounts by (account xor hash of the set)
  hashOrder,     \* the set by transaction id
  ledger,        \* applyLedger
  txns,          \* the transactions still to be applied
  retriable,     \* retriableTransactions
  failed,        \* failedTransactions
  order,         \* applyOrder
  todo,          \* what is left of applyOrder in this pass
  pass,          \* -1: the pass before the loop
  certainRetry,
  changes,
  state          \* "busy", "quiet" (returned from the loop), "exhausted"

inputs == <<prior, set, accountOrder, hashOrder>>
vars == <<inputs, ledger, txns, retriable, failed, order, todo, pass,
          certainRetry, changes, state>>

-----------------------------------------------------------------------------
(* The transactors. *)

Exists(L, a) == L.seq[a] # 0

Largest(x, y) == IF x > y THEN x ELSE y

CheckSeqPast(L, t) ==
  IF L.seq[t.account] > t.seq \/ t.fault = "expired" THEN "tef" ELSE "tes"

\* Transactor::checkSeq.
CheckSeq(L, t) ==
  IF L.seq[t.account] < t.seq THEN "ter"
  ELSE IF L.seq[t.account] > t.seq \/ t.fault = "expired" THEN "tef" ELSE "tes"

\* Transactor::payFee on a closed ledger; InflationTransactor::payFee.
PayFee(L, t) ==
  IF t.type = "inflate" /\ t.fee # 0 THEN "tem"
  ELSE IF L.bal[t.account] < t.fee THEN "ter" ELSE "tes"

\* Transactor::checkSig; InflationTransactor::checkSig accepts any key.
CheckSig(t) ==
  IF t.fault = "authority" /\ t.type # "inflate" THEN "tef" ELSE "tes"

\* AccountMergeTransactor::precheckAgainstLedger.
PrecheckMerge(L, t) ==
  IF t.fault = "regular key" \/ t.dst = t.account THEN "tem"
  ELSE IF Exists(L, t.dst) THEN "tes" ELSE "tec"

\* InflationTransactor::precheckAgainstLedger.
PrecheckInflation(L, t) ==
  IF t.inflateSeq = L.inflationSeq /\ t.inflateSeq <= InflationsDue
  THEN "tes" ELSE "tel"

PrecheckAgainstLedger(L, t) ==
  IF t.type = "merge" THEN PrecheckMerge(L, t)
  ELSE IF t.type = "inflate" THEN PrecheckInflation(L, t) ELSE "tes"

\* Transactor::apply up to doApply: the first check that fails, or "tes".
Check(L, t) ==
  IF t.fault = "signature" THEN "tem"
  ELSE IF ~Exists(L, t.account) THEN "ter"
  ELSE IF CheckSeq(L, t) # "tes" THEN CheckSeq(L, t)
  ELSE IF PayFee(L, t) # "tes" THEN PayFee(L, t)
  ELSE IF CheckSig(t) # "tes" THEN CheckSig(t)
  ELSE PrecheckAgainstLedger(L, t)

\* The sequence number and the fee are taken before doApply.
Charged(L, t) ==
  [L EXCEPT !.seq[t.account] = t.seq + 1, !.bal[t.account] = @ - t.fee]

Outcome(ter, L) == [ter |-> ter, ledger |-> L]

\* PaymentTransactor::doApply for a direct payment of STR.
DoPayment(L, t) ==
  LET C == Charged(L, t)
  IN  IF t.amount = 0 \/ t.dst = t.account THEN Outcome("tem", L)
      ELSE IF ~Exists(L, t.dst) /\ t.amount < Reserve THEN Outcome("tec", L)
      ELSE IF L.bal[t.account] < t.amount + Largest(Reserve, t.fee)
      THEN Outcome("tec", L)
      ELSE Outcome("tes",
             [C EXCEPT
                !.bal = [C.bal EXCEPT ![t.account] = @ - t.amount,
                                      ![t.dst] = @ + t.amount],
                !.seq[t.dst] = IF @ = 0 THEN 1 ELSE @])

DoMergePrior(L, t) ==
  LET C == Charged(L, t)
  IN  Outcome("tes",
        [C EXCEPT
           !.bal = [C.bal EXCEPT ![t.dst] = @ + L.bal[t.account], ![t.account] = 0],
           !.seq[t.account] = 0])

\* AccountMergeTransactor::doApply: what the fee leaves moves to the
\* destination and the account is deleted.
DoMerge(L, t) ==
  LET C == Charged(L, t)
  IN  Outcome("tes",
        [C EXCEPT
           !.bal = [C.bal EXCEPT ![t.dst] = @ + (L.bal[t.account] - t.fee),
                                 ![t.account] = 0],
           !.seq[t.account] = 0])

\* The tally of InflationTransactor::doApply over the Accounts table, which
\* has the balances of the ledger under construction.  There are fewer
\* candidates than INFLATION_NUM_WINNERS.
Votes(L) ==
  [d \in Accounts |->
     SumFunctionOnSet(L.bal, {a \in Accounts : /\ Exists(L, a)
                                               /\ InflationDest[a] = d
                                               /\ L.bal[a] > VoteFloor})]

\* Who wins: more votes than the minimum or, when nobody has, any votes.
Winners(L, votes) ==
  LET min == (L.coins * WinShare[1]) \div WinShare[2]
      floor == IF \E d \in Accounts : votes[d] > min THEN min ELSE 0
  IN  {d \in Accounts : votes[d] > floor}

\* InflationTransactor::doApply.  A winner that is no longer an account gets
\* nothing, and its share is not created.
DoInflation(L, t) ==
  LET votes == Votes(L)
      winners == Winners(L, votes)
      toDole == (L.coins * Rate[1]) \div Rate[2] + L.feePool
      share == [a \in Accounts |->
                  IF a \in winners /\ Exists(L, a)
                  THEN (toDole * votes[a]) \div SumFunctionOnSet(votes, winners)
                  ELSE 0]
  IN  Outcome("tes",
        [Charged(L, t) EXCEPT
           !.bal = [a \in Accounts |-> @[a] + share[a]],
           !.coins = @ + SumFunction(share),
           !.feePool = 0,
           !.inflationSeq = @ + 1])

\* Transactor::apply on a ledger that is being closed.
TransactorApply(L, t) ==
  IF Check(L, t) # "tes" THEN Outcome(Check(L, t), L)
  ELSE IF t.type = "pay" THEN DoPayment(L, t)
  ELSE IF t.type = "merge" THEN DoMerge(L, t)
  ELSE DoInflation(L, t)

-----------------------------------------------------------------------------
(* The engine. *)

\* Ledger::addTransaction, destroyCoins and txnWrite of a transaction whose
\* changes are in L.
Commit(L, id, claimed) ==
  [L EXCEPT !.txs = Append(@, [id |-> id, claimed |-> claimed]),
            !.coins = @ - Body[id].fee,
            !.feePool = @ + Body[id].fee]

\* "Reprocessing to only claim fee".
ClaimFee(L, id) ==
  LET t == Body[id]
  IN  IF ~Exists(L, t.account) \/ L.seq[t.account] < t.seq THEN Outcome("ter", L)
      ELSE IF L.seq[t.account] > t.seq THEN Outcome("tef", L)
      ELSE IF L.bal[t.account] < t.fee THEN Outcome("ter", L)
      ELSE Outcome("applied", Commit(Charged(L, t), id, TRUE))

\* TransactionEngine::applyTransaction with and without tapRETRY; "applied"
\* stands for didApply.
EngineApply(L, id, retry) ==
  LET r == TransactorApply(L, Body[id])
  IN  IF r.ter = "tes" THEN Outcome("applied", Commit(r.ledger, id, FALSE))
      ELSE IF r.ter = "tec" /\ ~retry THEN ClaimFee(L, id)
      ELSE Outcome(r.ter, L)

VerdictFailsClaims(ter) ==
  IF ter = "applied" THEN "success" ELSE IF ter = "ter" THEN "retry" ELSE "fail"

\* LedgerConsensus::applyTransaction.
Verdict(ter) ==
  IF ter = "applied" THEN "success"
  ELSE IF ter \in {"tef", "tem", "tel"} THEN "fail" ELSE "retry"

-----------------------------------------------------------------------------
(* applyTransactions. *)

Position(s, e) == CHOOSE i \in DOMAIN s : s[i] = e

\* CanonicalTXSet::Key::operator<.
Before(x, y) ==
  LET ax == Position(accountOrder, Body[x].account)
      ay == Position(accountOrder, Body[y].account)
  IN  \/ ax < ay
      \/ ax = ay /\ Body[x].seq < Body[y].seq
      \/ ax = ay /\ Body[x].seq = Body[y].seq
         /\ Position(hashOrder, x) < Position(hashOrder, y)

\* The transactions of S as a CanonicalTXSet lists them.
CanonicalOrder(S) ==
  CHOOSE s \in Injection(1 .. Cardinality(S), S) :
    \A i, j \in DOMAIN s : i < j => Before(s[i], s[j])

Init ==
  /\ prior \in PriorLedgers
  /\ set \in {S \in SUBSET Tx : Cardinality(S) <= MaxSet}
  /\ accountOrder \in Injection(1 .. Cardinality(Accounts), Accounts)
  /\ hashOrder \in Injection(1 .. Cardinality(set), set)
  /\ ledger = prior
  /\ txns = set
  /\ retriable = {}
  /\ failed = {}
  /\ order = hashOrder
  /\ todo = hashOrder
  /\ pass = -1
  /\ certainRetry = TRUE
  /\ changes = 0
  /\ state = "busy"

\* The pass before the loop takes the next transaction.
FirstPass ==
  /\ state = "busy" /\ pass = -1 /\ todo # <<>>
  /\ LET id == Head(todo)
         r == EngineApply(ledger, id, TRUE)
         v == Verdict(r.ter)
     IN  /\ ledger' = r.ledger
         /\ retriable' = IF v = "retry" THEN retriable \cup {id} ELSE retriable
         /\ failed' = IF v = "fail" THEN failed \cup {id} ELSE failed
         /\ txns' = IF v = "retry" THEN txns ELSE txns \ {id}
  /\ todo' = Tail(todo)
  /\ UNCHANGED <<inputs, order, pass, certainRetry, changes, state>>

\* From the first pass to the loop.
EndFirstPass ==
  /\ state = "busy" /\ pass = -1 /\ todo = <<>>
  /\ order' = CanonicalOrder(retriable)
  /\ todo' = order'
  /\ pass' = 0
  /\ UNCHANGED <<inputs, ledger, txns, retriable, failed, certainRetry, changes,
                 state>>

LoopPassKeepsFailed ==
  /\ state = "busy" /\ pass >= 0 /\ todo # <<>>
  /\ LET id == Head(todo)
         r == EngineApply(ledger, id, certainRetry)
         v == Verdict(r.ter)
     IN  IF id \in txns
         THEN /\ ledger' = r.ledger
              /\ failed' = IF v = "fail" THEN failed \cup {id} ELSE failed
              /\ retriable' = IF v = "success" THEN retriable \ {id} ELSE retriable
              /\ txns' = IF v = "retry" THEN txns ELSE txns \ {id}
              /\ changes' = IF v = "success" THEN changes + 1 ELSE changes
         ELSE UNCHANGED <<ledger, txns, retriable, failed, changes>>
  /\ todo' = Tail(todo)
  /\ UNCHANGED <<inputs, order, pass, certainRetry, state>>

\* A pass of the loop looks at the next hash.
LoopPass ==
  /\ state = "busy" /\ pass >= 0 /\ todo # <<>>
  /\ LET id == Head(todo)
         r == EngineApply(ledger, id, certainRetry)
         v == Verdict(r.ter)
     IN  IF id \in txns
         THEN /\ ledger' = r.ledger
              /\ failed' = IF v = "fail" THEN failed \cup {id} ELSE failed
              /\ retriable' = IF v = "retry" THEN retriable ELSE retriable \ {id}
              /\ txns' = IF v = "retry" THEN txns ELSE txns \ {id}
              /\ changes' = IF v = "success" THEN changes + 1 ELSE changes
         ELSE UNCHANGED <<ledger, txns, retriable, failed, changes>>
  /\ todo' = Tail(todo)
  /\ UNCHANGED <<inputs, order, pass, certainRetry, state>>


ReturnsEarly == changes = 0

\* "A non-retry pass made no changes".
Returns == changes = 0 /\ ~certainRetry

\* The end of a pass of the loop.
EndPass ==
  /\ state = "busy" /\ pass >= 0 /\ todo = <<>>
  /\ \/ /\ Returns
        /\ state' = "quiet"
        /\ UNCHANGED <<todo, pass, certainRetry, changes>>
     \/ /\ ~Returns
        /\ certainRetry' = (certainRetry /\ changes # 0 /\ pass < LEDGER_RETRY_PASSES)
        /\ pass' = pass + 1
        /\ \/ /\ pass + 1 < LEDGER_TOTAL_PASSES
              /\ todo' = order /\ changes' = 0 /\ UNCHANGED state
           \/ /\ pass + 1 = LEDGER_TOTAL_PASSES
              /\ state' = "exhausted" /\ UNCHANGED <<todo, changes>>
  /\ UNCHANGED <<inputs, ledger, txns, retriable, failed, order>>

Next == FirstPass \/ EndFirstPass \/ LoopPass \/ EndPass

Spec == Init /\ [][Next]_vars

-----------------------------------------------------------------------------
\* Types.
TypeOK ==
  /\ prior \in PriorLedgers
  /\ set \subseteq Tx
  /\ ledger \in Ledgers
  /\ txns \subseteq set /\ retriable \subseteq set /\ failed \subseteq set
  /\ order \in Seq(set) /\ todo \in Seq(set)
  /\ pass \in -1 .. LEDGER_TOTAL_PASSES
  /\ certainRetry \in BOOLEAN
  /\ changes \in Nat
  /\ state \in {"busy", "quiet", "exhausted"}

Applied == {ledger.txs[i].id : i \in DOMAIN ledger.txs}

\* Every transaction of the set is at any time in exactly one of: the new
\* ledger, the failed transactions, those still to be applied; it is in the
\* ledger once.  In the loop those still to be applied are the retriable ones,
\* which accept hands to the next open ledger.
Disposition ==
  /\ set = Applied \cup failed \cup txns
  /\ Applied \cap failed = {} /\ Applied \cap txns = {} /\ failed \cap txns = {}
  /\ \A i, j \in DOMAIN ledger.txs :
        ledger.txs[i].id = ledger.txs[j].id => i = j
  /\ pass >= 0 => txns = retriable

\* The coins in existence are the sum of all balances: fees, failed attempts,
\* fee claims, created and merged accounts and inflation keep the books even, and
\* no account is overdrawn.
CoinsConserved ==
  /\ ledger.coins = SumFunction(ledger.bal)
  /\ \A acct \in DOMAIN ledger.bal : ledger.bal[acct] >= 0

SameAccount(i, j) ==
  Body[ledger.txs[i].id].account = Body[ledger.txs[j].id].account

Closes(i) == Body[ledger.txs[i].id].type = "merge" /\ ~ledger.txs[i].claimed

\* The j-th transaction is its account's next one after the i-th.
Follows(i, j) == SameAccount(i, j) /\ \A k \in i + 1 .. j - 1 : ~SameAccount(k, j)

\* However the hashes order the set, the transactions of an account are in the
\* ledger in sequence and without gaps, from the account's sequence number in
\* the prior ledger on; a new account, and one that was merged away and created
\* again, starts at 1.
SequenceOrder ==
  \A j \in DOMAIN ledger.txs :
    LET t == Body[ledger.txs[j].id]
    IN  /\ (\A i \in 1 .. j - 1 : ~SameAccount(i, j)) =>
             t.seq = IF Exists(prior, t.account) THEN prior.seq[t.account] ELSE 1
        /\ \A i \in 1 .. j - 1 :
             Follows(i, j) =>
               t.seq = IF Closes(i) THEN 1 ELSE Body[ledger.txs[i].id].seq + 1

\* When applyTransactions returns from the loop nothing that it leaves to the
\* next ledger could have been applied to this one, not even for its fee.
QuietMeansDone ==
  state = "quiet" =>
    \A id \in retriable : Verdict(EngineApply(ledger, id, FALSE).ter) = "retry"

\* A transaction without fault that is next in line for an account that can
\* pay its fee, with no other claim to its sequence number, is in the ledger
\* when the loop returns, if only for its fee: what others in the set do, and
\* in which order, cannot keep it out.
NextInLine(id) ==
  LET t == Body[id]
  IN  /\ t.type = "pay" /\ t.fault = "none" /\ t.amount # 0 /\ t.dst # t.account
      /\ prior.seq[t.account] = t.seq /\ prior.bal[t.account] >= t.fee
      /\ \A o \in set \ {id} :
           ~(Body[o].account = t.account /\ Body[o].seq = t.seq)
NextInLineIsApplied ==
  state = "quiet" => \A id \in set : NextInLine(id) => id \in Applied
=============================================================================
